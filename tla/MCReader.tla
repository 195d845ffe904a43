------------------------------ MODULE MCReader ------------------------------
(* Instances of Reader.tla for TLC: texts written from data, texts with    *)
(* something wrong at the end, and all short texts.                        *)
EXTENDS Reader

read_call == List(<<tag_symbol(<<"r", "e", "a", "d">>)>>)

IsQuote(e) == is_pair(e) /\ e.last = SCM_TYPE_NULL /\ Len(e.items) = 2 /\ e.items[1] = quote

(* The characters a datum is written with (write.c:5-47): a reference for  *)
(* what the reader should make of a text.                                  *)
Digit(d) == CHOOSE c \in DIGITS : DigitValue[c] = d

RECURSIVE Decimal(_), Write(_)
Decimal(i) == IF i < 10 THEN <<Digit(i)>> ELSE Append(Decimal(i \div 10), Digit(i % 10))

Write(d) ==
    IF is_integer(d) THEN Decimal(d.int)
    ELSE IF is_symbol(d) THEN d.sym
    ELSE IF d.t = "boolean" THEN <<"#", IF d.bool THEN "t" ELSE "f">>
    ELSE IF d.t = "character" THEN <<"#", "\\", d.char>>
    ELSE IF IsQuote(d) THEN <<"'">> \o Write(d.items[2])
    ELSE <<"(">>
         \o FlattenSeq([i \in DOMAIN Items(d) |->
                (IF i = 1 THEN <<>> ELSE <<" ">>) \o Write(d.items[i])])
         \o (IF is_pair(d) /\ ~ is_null(d.last)
               THEN <<" ", ".", " ">> \o Write(d.last) ELSE <<>>)
         \o <<")">>

(* A text written from data; before each there may be a comment or a       *)
(* character the lexer does not know, and after them something else.       *)
Source(data, gap, rest) ==
    [opens |-> TRUE, data |-> data, whole |-> data # <<>> /\ rest = <<>>,
     text |-> FlattenSeq([i \in DOMAIN data |-> gap \o Write(data[i]) \o <<" ">>]) \o rest]

Missing == [opens |-> FALSE, data |-> <<>>, whole |-> FALSE, text |-> <<>>]

ab == tag_symbol(<<"a", "b">>)
n(k) == tag_integer(k)

Data == {ab, tag_symbol(<<"-", "5", ".", "b", "?">>), n(7), n(12), tag_boolean(FALSE),
         tag_character("("), SCM_TYPE_NULL, List(<<quote, ab>>), List(<<ab, n(7)>>),
         Chain(<<ab, n(1)>>, n(7)), List(<<SCM_TYPE_NULL, List(<<List(<<quote, SCM_TYPE_NULL>>)>>), ab>>),
         read_call, List(<<tag_symbol(<<"i", "f">>), tag_boolean(TRUE), read_call, n(0)>>)}

Gaps == {<<>>, <<";", ")", "(", "\n">>, <<"~", "\t">>}

Rests == {<<>>, <<")", "7">>, <<"(", "a">>, <<"#", "x", "7">>, <<"'">>, <<"'", ")">>,
          <<"(", "a", ".", " ", "7", " ", "8", ")">>, <<"(", "a", "b", "c", "d", "e", "f", ")">>,
          <<"#">>, <<"(", "#", "t", " ", "#", ")">>, <<"#", "\\">>, <<";">>}

Nothing == Source(<<>>, <<>>, <<>>)

Sessions ==
    {[options |-> {}, files |-> <<>>, stdin |-> Source(<<d, e>>, g, <<>>)] : d \in Data, e \in Data, g \in Gaps}
    \cup {[options |-> {}, files |-> <<>>, stdin |-> Source(<<d>>, <<>>, r)] : d \in Data, r \in Rests}

(* All short texts: their data are not given, so that nothing is claimed   *)
(* of them but what is claimed of any text.                                *)
Chars == {"(", ")", "'", ".", " ", "a", "7", "#", "\\", ";"}

Short == {[options |-> {}, files |-> <<>>, stdin |-> Source(<<>>, <<>>, t)] :
            t \in BoundedSeq(Chars, 3) \cup BoundedSeq({"(", ")", "'", "a"}, 5)}

Files == {Source(<<ab, n(7)>>, <<>>, <<>>), Source(<<read_call, ab>>, <<>>, <<>>),
          Source(<<n(7)>>, <<>>, <<")">>), Missing}

Batches ==
    {[options |-> {}, files |-> fs, stdin |-> Source(<<d>>, <<>>, <<>>)] :
        fs \in {<<f>> : f \in Files} \cup {<<f, g, h>> : f \in Files, g \in Files, h \in Files},
        d \in {n(7), read_call}}
    \cup {[options |-> os, files |-> fs, stdin |-> Source(<<n(7)>>, <<>>, <<>>)] :
        os \in {{"v"}, {"h", "v"}}, fs \in {<<>>} \cup {<<f>> : f \in Files}}

AllInputs == Sessions \cup Short \cup Batches

-----------------------------------------------------------------------------
Sourced(k) == IF k = 0 THEN given.stdin ELSE given.files[k]

ReadFrom(k) == LET here(e) == e.from = k
                   all == SelectSeq(asked, here)
               IN  [i \in DOMAIN all |-> all[i].datum]

(* What a text was written from is what is read from it, in order, whether *)
(* the loops or (read) ask for it, and whatever follows it; and a session  *)
(* that comes to its end has read all of it (lex.c, parse.c, vm_ops.c:524).*)
ReadsWhatWasWritten ==
    /\ \A k \in DOMAIN text :
            LET data == Sourced(k).data
                read == ReadFrom(k)
            IN  \A i \in DOMAIN data \cap DOMAIN read : read[i] = data[i]
    /\ phase = "exit" /\ Repl => Len(ReadFrom(0)) > Len(given.stdin.data)

(* How deep in lists a text of parentheses and names is after i characters.*)
Plain(t) == ToSet(t) \subseteq {"(", ")", "a", " "}
Level(t, i) == Cardinality({j \in 1 .. i : t[j] = "("}) - Cardinality({j \in 1 .. i : t[j] = ")"})
Closed(t) == Plain(t) /\ (\A i \in DOMAIN t : Level(t, i) >= 0) /\ Level(t, Len(t)) = 0
Unclosed(t) == Plain(t) /\ (\A i \in DOMAIN t : Level(t, i) >= 0) /\ Level(t, Len(t)) > 0

Typed == given.stdin.text

(* A session whose text was written from data, or whose parentheses match, *)
(* comes to the end of its text, and is over then, or the loop goes on only*)
(* because an error has left frames which the end of file is evaluated in  *)
(* (main.c:11, parse.c:150-200, vm.c:332-345).                             *)
SessionEnds ==
    (Repl /\ (given.stdin.whole \/ Closed(Typed))) ~> (EofRead /\ (phase = "exit" \/ left))

(* A list that is not closed is never given up: its end-of-file elements   *)
(* recurse until the C stack is used up (parse.c:153, 174-178).            *)
UnclosedOverflows == (Repl /\ Unclosed(Typed)) ~> (phase = "crash")

-----------------------------------------------------------------------------
(* negative_numbers: a call of tests/src/base/ops.scm.                     *)
AddTest == {[options |-> {}, files |-> <<[opens |-> TRUE, data |-> <<>>, whole |-> FALSE,
                          text |-> <<"(", "a", "d", "d", " ", "1", "0", " ", "-", "5", ")">>]>>,
             stdin |-> Nothing]}

(* ";; => 5" (tests/src/base/ops.scm:37-38): in (add 10 -5) the second     *)
(* operand is a number.                                                    *)
MinusFiveIsANumber ==
    \A i \in DOMAIN asked : is_pair(asked[i].datum) => is_integer(asked[i].datum.items[3])
=============================================================================
