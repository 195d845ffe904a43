---------------------------- MODULE ReaderProofs ----------------------------
(***************************************************************************)
(* Theorems about the reader (module Reader), for any inputs, any depth of *)
(* the C stack and any size of the lexer's buffer.                         *)
(***************************************************************************)
EXTENDS Reader, LexerProofs

AtMostOne(s) == s = <<>> \/ s = <<Head(s)>>

(* The two parse states: the driver's reads the file main has open, that   *)
(* of (read) reads stdin.                                                  *)
StatesTyped ==
    /\ DOMAIN states = {"input", "read"} /\ reading \in {"input", "read"}
    /\ \A r \in {"input", "read"} : DOMAIN states[r] = {"fp", "next"} /\ AtMostOne(states[r].next)
    /\ states["input"].fp = argi /\ states["read"].fp = 0

ReaderTyped ==
    /\ given \in Inputs
    /\ argi \in 0 .. Len(given.files)
    /\ DOMAIN text = 0 .. Len(given.files) /\ text = [k \in DOMAIN text |-> text[k]]
    /\ phase \in {"main", "loop", "parse", "evaluate", "exit", "crash"}
    /\ errormsg \in BOOLEAN /\ left \in BOOLEAN /\ reads \in 0 .. MaxReads
    /\ AtMostOne(result)
    /\ phase \in {"main", "loop", "evaluate"} => result = <<>>

NothingOrStray == {<<>>} \cup StrayToken

(* Where look-ahead may be left over: only once the parser has a result,   *)
(* and then only a stray token.  It works for (read) while frames run.     *)
Held ==
    /\ reading = "read" => /\ phase \in {"parse", "crash"} /\ Applies
                           /\ states["input"].next \in NothingOrStray
    /\ phase \in {"loop", "evaluate"} => states["input"].next \in NothingOrStray
    /\ phase = "parse" /\ result # <<>> => states[reading].next \in NothingOrStray

(* What has been read came from this file or an earlier one, and a loop    *)
(* that starts with an error has read nothing yet.                         *)
Stale ==
    /\ asked \in Seq(ToSet(asked))
    /\ \A i \in DOMAIN asked : asked[i].from \in Nat /\ asked[i].from <= argi
    /\ Repl => ~ errormsg
    /\ phase = "loop" /\ errormsg => \A i \in DOMAIN asked : asked[i].from # argi

IInv == ReaderTyped /\ StatesTyped /\ Held /\ Stale

(* At first nothing is cached, by anybody.                                 *)
LEMMA InitIInv == Init => IInv
<1> SUFFICES ASSUME Init PROVE IInv
  OBVIOUS
<1>1. Len(given.files) \in Nat /\ given \in Inputs
  BY InputsAssumption, LenProperties DEF Init
<1>2. ReaderTyped
  BY <1>1, MaxReadsAssumption DEF Init, ReaderTyped, AtMostOne
<1>3. /\ DOMAIN states = {"input", "read"} /\ reading = "input"
      /\ \A r \in {"input", "read"} :
            DOMAIN states[r] = {"fp", "next"} /\ states[r].next = <<>> /\ states[r].fp = 0
  BY DEF Init, make_parse_state
<1>4. StatesTyped
  BY <1>3 DEF StatesTyped, AtMostOne, Init
<1>5. Held
  BY <1>3 DEF Held, NothingOrStray, Init
<1>6. Stale
  BY DEF Stale, Init
<1> QED BY <1>2, <1>4, <1>5, <1>6 DEF IInv

(* leave changes the look-ahead of the parse state in use, and its text.   *)
LEMMA Leaves ==
    ASSUME StatesTyped, ReaderTyped, NEW next, NEW rest, leave(next, rest)
    PROVE  /\ DOMAIN states' = {"input", "read"} /\ states'[reading].next = next
           /\ \A r \in {"input", "read"} :
                    /\ DOMAIN states'[r] = {"fp", "next"} /\ states'[r].fp = states[r].fp
                    /\ r # reading => states'[r] = states[r]
           /\ DOMAIN text' = DOMAIN text /\ text' = [k \in DOMAIN text' |-> text'[k]]
           /\ state.fp \in DOMAIN text /\ text'[state.fp] = rest
           /\ \A k \in DOMAIN text : k # state.fp => text'[k] = text[k]
<1>1. DOMAIN states' = {"input", "read"} /\ \A r \in {"input", "read"} : r # reading => states'[r] = states[r]
  BY DEF leave, StatesTyped
<1>2. states'[reading] = [states[reading] EXCEPT !.next = next]
  BY DEF leave, StatesTyped
<1>3. /\ DOMAIN states'[reading] = {"fp", "next"} /\ states'[reading].next = next
      /\ states'[reading].fp = states[reading].fp
  BY <1>2 DEF StatesTyped
<1>4. state.fp \in DOMAIN text
  BY DEF state, StatesTyped, ReaderTyped
<1>5. text' = [text EXCEPT ![state.fp] = rest]
  BY DEF leave
<1>6. /\ DOMAIN text' = DOMAIN text /\ text' = [k \in DOMAIN text' |-> text'[k]]
      /\ text'[state.fp] = rest /\ \A k \in DOMAIN text : k # state.fp => text'[k] = text[k]
  BY <1>4, <1>5 DEF ReaderTyped
<1> HIDE <1>2, <1>5
<1>7. ASSUME NEW r \in {"input", "read"}
      PROVE  DOMAIN states'[r] = {"fp", "next"} /\ states'[r].fp = states[r].fp
  BY <1>1, <1>3 DEF StatesTyped
<1> QED BY <1>1, <1>3, <1>4, <1>6, <1>7

(* No token, or one, is at most one.                                       *)
LEMMA NoneOrOne == AtMostOne(<<>>) /\ \A x : AtMostOne(<<x>>)
BY DEF AtMostOne

(* The tokens the parser is looking at are told apart by their tags.       *)
LEMMA Tokens ==
    /\ RIGHT_PAREN # LEFT_PAREN /\ RIGHT_PAREN # APOSTROPHE /\ OCTOTHORPE # LEFT_PAREN
    /\ OCTOTHORPE # APOSTROPHE /\ ~ is_atom(RIGHT_PAREN) /\ ~ is_atom(OCTOTHORPE)
    /\ ~ is_pair(NONE) /\ ~ is_null(NONE)
BY DEF RIGHT_PAREN, LEFT_PAREN, APOSTROPHE, OCTOTHORPE, NONE, EOF_VAL, is_atom, is_eof,
       tag_parse_val, is_pair, is_null

(* A step of the parser: it touches the parse state in use, and nothing of *)
(* the driver's.                                                           *)
LEMMA ParserKeeps ==
    ASSUME IInv, phase = "parse", UNCHANGED driver, AtMostOne(result'),
           NEW next, NEW rest, leave(next, rest), AtMostOne(next),
           result' # <<>> => next \in NothingOrStray
    PROVE  IInv'
<1>1. /\ DOMAIN states' = {"input", "read"} /\ states'[reading].next = next
      /\ \A r \in {"input", "read"} :
            /\ DOMAIN states'[r] = {"fp", "next"} /\ states'[r].fp = states[r].fp
            /\ r # reading => states'[r] = states[r]
      /\ DOMAIN text' = DOMAIN text /\ text' = [k \in DOMAIN text' |-> text'[k]]
  BY Leaves DEF IInv
<1>2. UNCHANGED <<given, argi, phase, errormsg, asked, reading, expr, reads, left>>
  BY DEF driver, evaluation
<1>3. ReaderTyped'
  BY <1>1, <1>2 DEF IInv, ReaderTyped
<1>4. StatesTyped'
  <2>1. \A r \in {"input", "read"} : AtMostOne(states'[r].next)
    BY <1>1 DEF IInv, StatesTyped
  <2> QED BY <1>1, <1>2, <2>1 DEF IInv, StatesTyped
<1>5. Held'
  <2>1. reading = "read" => Applies /\ states'["input"].next \in NothingOrStray
    BY <1>1 DEF IInv, Held
  <2>2. result' # <<>> => states'[reading].next \in NothingOrStray
    BY <1>1
  <2> QED BY <1>2, <2>1, <2>2 DEF Held, Applies
<1>6. Stale'
  BY <1>2 DEF IInv, Stale, Repl
<1> QED BY <1>3, <1>4, <1>5, <1>6 DEF IInv

(* The token that was looked at is taken, and nothing is left over.        *)
LEMMA ParserConsumes ==
    ASSUME IInv, phase = "parse", UNCHANGED driver, AtMostOne(result'), NEW t, consume(t)
    PROVE  IInv'
<1>1. PICK next, rest : next = <<>> /\ leave(next, rest)
  BY DEF consume
<1>2. AtMostOne(next) /\ next \in NothingOrStray
  BY <1>1, NoneOrOne DEF NothingOrStray
<1> QED BY <1>1, <1>2, ParserKeeps

(* The parser returns without looking at the text.                         *)
LEMMA ParserReturns ==
    ASSUME IInv, phase = "parse", UNCHANGED <<driver, text, states>>, AtMostOne(result'),
           result' # <<>> => result # <<>>
    PROVE  IInv'
<1>1. UNCHANGED <<given, argi, phase, errormsg, asked, reading, expr, reads, left>>
  BY DEF driver, evaluation
<1>2. ReaderTyped' /\ StatesTyped' /\ Stale'
  BY <1>1 DEF IInv, ReaderTyped, StatesTyped, Stale, Repl
<1>3. Held'
  BY <1>1 DEF IInv, Held, Applies
<1> QED BY <1>2, <1>3 DEF IInv

(* The functions of the parser (parse.c:20-222).                           *)
LEMMA ParseIInv == ASSUME IInv, Parse PROVE IInv'
<1> USE DEF Expecting, Returning, Parsing, To
<1>1. CASE ParseAtom
  <2>1. consume(peek_next_token) /\ phase = "parse" /\ UNCHANGED driver
        /\ result' = <<peek_next_token.token>>
    BY <1>1 DEF ParseAtom
  <2> QED BY <2>1, ParserConsumes, NoneOrOne
<1>2. CASE ParseList
  <2> DEFINE u == read_next_token(peek_next_token.rest)
  <2>1. CASE u.token = RIGHT_PAREN
    <3>1. consume(u) /\ phase = "parse" /\ UNCHANGED driver /\ result' = <<SCM_TYPE_NULL>>
      BY <1>2, <2>1 DEF ParseList
    <3> QED BY <3>1, ParserConsumes, NoneOrOne
  <2>2. CASE u.token # RIGHT_PAREN
    <3>1. leave(<<u.token>>, u.rest) /\ phase = "parse" /\ UNCHANGED driver /\ result' = <<>>
      BY <1>2, <2>2 DEF ParseList, cache
    <3> QED BY <3>1, ParserKeeps, NoneOrOne
  <2> QED BY <2>1, <2>2
<1>3. CASE ParseQuoted
  <2>1. consume(peek_next_token) /\ phase = "parse" /\ UNCHANGED driver /\ result' = <<>>
    BY <1>3 DEF ParseQuoted
  <2> QED BY <2>1, ParserConsumes, NoneOrOne
<1>4. CASE ParseNone
  <2> DEFINE t == peek_next_token
  <2>1. /\ leave(<<t.token>>, t.rest) /\ phase = "parse" /\ UNCHANGED driver
        /\ result' = <<NONE>> /\ <<t.token>> \in NothingOrStray
    BY <1>4 DEF ParseNone, cache, NothingOrStray, StrayToken
  <2> QED BY <2>1, ParserKeeps, NoneOrOne
<1>5. CASE ReturnItem \/ ReturnPeriod
  <2>1. phase = "parse" /\ UNCHANGED <<driver, text, states>> /\ result' = <<>>
    BY <1>5 DEF ReturnItem, ReturnPeriod
  <2> QED BY <2>1, ParserReturns, NoneOrOne
<1>6. CASE ReturnList
  <2> DEFINE v == Chain(inner.items, IF value = NONE THEN SCM_TYPE_NULL ELSE value)
  <2>1. consume(peek_next_token) /\ phase = "parse" /\ UNCHANGED driver /\ result' = <<v>>
    BY <1>6 DEF ReturnList
  <2> HIDE DEF v
  <2> QED BY <2>1, ParserConsumes, NoneOrOne
<1>7. CASE ReturnQuoted
  <2>1. phase = "parse" /\ UNCHANGED <<driver, text, states>> /\ result # <<>>
        /\ result' = <<List(<<quote, value>>)>>
    BY <1>7 DEF ReturnQuoted
  <2> QED BY <2>1, ParserReturns, NoneOrOne
<1>8. CASE StackOverflow
  <2>1. phase' = "crash" /\ UNCHANGED <<given, argi, errormsg, asked, reading, evaluation, parser>>
    BY <1>8 DEF StackOverflow
  <2> QED BY <2>1 DEF IInv, ReaderTyped, StatesTyped, Held, Applies, Stale, Repl, parser, evaluation
<1> QED BY <1>1, <1>2, <1>3, <1>4, <1>5, <1>6, <1>7, <1>8 DEF Parse

-----------------------------------------------------------------------------
(* The driver.                                                             *)

(* The elements of an appended sequence.                                   *)
LEMMA AppendRange ==
    ASSUME NEW s, s \in Seq(ToSet(s)), NEW e
    PROVE  /\ Append(s, e) \in Seq(ToSet(Append(s, e)))
           /\ \A i \in DOMAIN Append(s, e) :
                    Append(s, e)[i] = e \/ (i \in DOMAIN s /\ Append(s, e)[i] = s[i])
<1> DEFINE T == ToSet(s) \cup {e}
           a == Append(s, e)
<1>1. s \in Seq(T) /\ e \in T
  BY SeqMonotonic
<1> HIDE DEF T
<1>2. /\ a \in Seq(T) /\ Len(a) = Len(s) + 1
      /\ \A i \in 1 .. Len(s) : a[i] = s[i]
      /\ a[Len(s) + 1] = e
  BY <1>1, AppendProperties
<1>3. Len(s) \in Nat /\ DOMAIN s = 1 .. Len(s) /\ DOMAIN a = 1 .. Len(s) + 1
  BY <1>1, <1>2, LenProperties
<1> HIDE DEF a
<1>4. \A i \in DOMAIN a : a[i] = e \/ (i \in DOMAIN s /\ a[i] = s[i])
  BY <1>2, <1>3
<1>5. a \in Seq(ToSet(a))
  <2>1. Len(a) \in Nat /\ a = [i \in 1 .. Len(a) |-> a[i]] /\ DOMAIN a = 1 .. Len(a)
    BY <1>2, LenProperties
  <2>2. \A i \in 1 .. Len(a) : a[i] \in ToSet(a)
    BY <2>1 DEF ToSet
  <2> QED BY <2>1, <2>2, IsASeq
<1> QED BY <1>4, <1>5 DEF a

(* What is recorded was read from the file at work, or from stdin.         *)
AskedTyped ==
    /\ asked \in Seq(ToSet(asked))
    /\ \A i \in DOMAIN asked : asked[i].from \in Nat /\ asked[i].from <= argi

(* What is asked for is recorded with the file that is being read.         *)
LEMMA Recorded ==
    ASSUME IInv, NEW v, record(v), argi' = argi PROVE AskedTyped'
<1>1. AskedTyped /\ argi \in Nat /\ state.fp \in Nat /\ state.fp <= argi
  <2>1. argi \in Nat /\ states[reading].fp \in {0, argi}
    BY DEF IInv, ReaderTyped, StatesTyped
  <2> QED BY <2>1 DEF IInv, Stale, AskedTyped, state
<1> DEFINE e == [from |-> state.fp, datum |-> v]
<1>2. CASE asked' = asked
  BY <1>1, <1>2 DEF AskedTyped
<1>3. CASE asked' = Append(asked, e)
  <2>1. asked' = Append(asked, e) /\ e.from = state.fp
    BY <1>3
  <2> HIDE DEF e
  <2>2. asked' \in Seq(ToSet(asked'))
    BY <1>1, <2>1, AppendRange DEF AskedTyped
  <2>3. \A i \in DOMAIN asked' : asked'[i] = e \/ (i \in DOMAIN asked /\ asked'[i] = asked[i])
    BY <1>1, <2>1, AppendRange DEF AskedTyped
  <2> QED BY <1>1, <2>1, <2>2, <2>3 DEF AskedTyped
<1> QED BY <1>2, <1>3 DEF record

(* A turn ends at the prompt without an error, or leaves the loop of a file*)
(* whenever there is one.                                                  *)
LEMMA Turned ==
    ASSUME errormsg \in BOOLEAN, NEW ended \in BOOLEAN, NEW failed \in BOOLEAN, Turn(ended, failed)
    PROVE  /\ phase' \in {"main", "loop", "exit"} /\ errormsg' \in BOOLEAN
           /\ Repl => ~ errormsg'
           /\ phase' = "loop" => ~ errormsg'
BY DEF Turn

(* The loops of the driver and (read) (main.c:8-89, vm_ops.c:524-534).     *)
LEMMA DriveIInv == ASSUME IInv, Drive PROVE IInv'
<1>1. CASE print_help \/ Return
  <2>1. /\ phase = "main" /\ phase' = "exit"
        /\ UNCHANGED <<given, argi, errormsg, asked, reading, evaluation, parser>>
    BY <1>1 DEF print_help, Return
  <2> QED BY <2>1 DEF IInv, ReaderTyped, StatesTyped, Held, Stale, Repl, parser, evaluation
<1>2. CASE OpenFile
  <2>1. /\ phase = "main" /\ argi < Len(given.files) /\ argi' = argi + 1 /\ phase' = "loop"
        /\ states' = [states EXCEPT !["input"] = make_parse_state(argi + 1)]
        /\ UNCHANGED <<given, errormsg, asked, reading, reads, left, text, calls, result>>
    BY <1>2 DEF OpenFile, evaluation
  <2>2. /\ DOMAIN states' = {"input", "read"} /\ states'["read"] = states["read"]
        /\ DOMAIN states'["input"] = {"fp", "next"}
        /\ states'["input"].next = <<>> /\ states'["input"].fp = argi + 1
    BY <2>1 DEF IInv, StatesTyped, make_parse_state
  <2>3. argi \in Nat /\ argi + 1 \in 0 .. Len(given.files) /\ Len(given.files) \in Nat
    BY <2>1, InputsAssumption, LenProperties DEF IInv, ReaderTyped
  <2>4. ReaderTyped'
    BY <2>1, <2>3 DEF IInv, ReaderTyped
  <2>5. StatesTyped'
    BY <2>1, <2>2, NoneOrOne DEF IInv, StatesTyped
  <2>6. Held'
    BY <2>1, <2>2 DEF IInv, Held, NothingOrStray
  <2>7. Stale'
    BY <2>1, <2>3 DEF IInv, Stale, Repl
  <2> QED BY <2>4, <2>5, <2>6, <2>7 DEF IInv
<1>3. CASE ParseExpression
  <2>1. /\ phase = "loop" /\ phase' \in {"parse", "crash"}
        /\ UNCHANGED <<given, argi, errormsg, asked, reading, evaluation, parser>>
    BY <1>3 DEF ParseExpression
  <2> QED BY <2>1 DEF IInv, ReaderTyped, StatesTyped, Held, Stale, Repl, parser, evaluation
<1>4. CASE ReturnExpression
  <2>1. /\ phase = "parse" /\ result # <<>> /\ reading = "input" /\ phase' = "evaluate"
        /\ result' = <<>> /\ record(value)
        /\ UNCHANGED <<given, argi, errormsg, reading, reads, left, text, states>>
    BY <1>4 DEF ReturnExpression, Returning, Parsing
  <2>2. AskedTyped'
    BY <2>1, Recorded
  <2>3. ReaderTyped' /\ StatesTyped'
    BY <2>1, NoneOrOne DEF IInv, ReaderTyped, StatesTyped
  <2>4. Held'
    BY <2>1 DEF IInv, Held
  <2>5. Stale'
    BY <2>1, <2>2 DEF IInv, Stale, AskedTyped, Repl
  <2> QED BY <2>3, <2>4, <2>5 DEF IInv
<1>5. CASE Evaluate
  <2>1. PICK ended \in BOOLEAN, failed \in BOOLEAN, leaves \in BOOLEAN :
            Turn(ended, failed) /\ left' = leaves
    BY <1>5 DEF Evaluate
  <2>2. /\ phase = "evaluate" /\ reads' = 0
        /\ UNCHANGED <<given, argi, asked, reading, parser>>
    BY <1>5 DEF Evaluate
  <2>3. /\ phase' \in {"main", "loop", "exit"} /\ errormsg' \in BOOLEAN
        /\ Repl => ~ errormsg'
        /\ phase' = "loop" => ~ errormsg'
    BY <2>1, Turned DEF IInv, ReaderTyped
  <2>4. ReaderTyped' /\ StatesTyped'
    BY <2>1, <2>2, <2>3, MaxReadsAssumption DEF IInv, ReaderTyped, StatesTyped, parser
  <2>5. Held'
    BY <2>2, <2>3 DEF IInv, Held, parser
  <2>6. Stale'
    BY <2>2, <2>3 DEF IInv, Stale, Repl
  <2> QED BY <2>4, <2>5, <2>6 DEF IInv
<1>6. CASE OpRead
  <2>1. /\ phase = "evaluate" /\ Applies /\ reading' = "read" /\ phase' = "parse"
        /\ reads < MaxReads /\ reads' = reads + 1
        /\ states' = [states EXCEPT !["read"] = make_parse_state(0)]
        /\ UNCHANGED <<given, argi, errormsg, asked, expr, left, text, calls, result>>
    BY <1>6 DEF OpRead
  <2>2. /\ DOMAIN states' = {"input", "read"} /\ states'["input"] = states["input"]
        /\ DOMAIN states'["read"] = {"fp", "next"}
        /\ states'["read"].next = <<>> /\ states'["read"].fp = 0
    BY <2>1 DEF IInv, StatesTyped, make_parse_state
  <2>3. reads' \in 0 .. MaxReads
    BY <2>1, MaxReadsAssumption DEF IInv, ReaderTyped
  <2>4. ReaderTyped'
    BY <2>1, <2>3 DEF IInv, ReaderTyped
  <2>5. StatesTyped'
    BY <2>1, <2>2, NoneOrOne DEF IInv, StatesTyped
  <2>6. Held'
    BY <2>1, <2>2 DEF IInv, Held, ReaderTyped, Applies
  <2>7. Stale'
    BY <2>1 DEF IInv, Stale, Repl
  <2> QED BY <2>4, <2>5, <2>6, <2>7 DEF IInv
<1>7. CASE OpReadReturns
  <2>1. /\ phase = "parse" /\ reading = "read" /\ reading' = "input" /\ phase' = "evaluate"
        /\ states' = [states EXCEPT !["read"] = make_parse_state(0)]
        /\ record(value) /\ result' = <<>>
        /\ UNCHANGED <<given, argi, errormsg, reads, left, text, calls>>
    BY <1>7 DEF OpReadReturns, Returning, Parsing, evaluation
  <2>2. /\ DOMAIN states' = {"input", "read"} /\ states'["input"] = states["input"]
        /\ DOMAIN states'["read"] = {"fp", "next"}
        /\ states'["read"].next = <<>> /\ states'["read"].fp = 0
    BY <2>1 DEF IInv, StatesTyped, make_parse_state
  <2>3. AskedTyped'
    BY <2>1, Recorded
  <2>4. ReaderTyped'
    BY <2>1, NoneOrOne DEF IInv, ReaderTyped
  <2>5. StatesTyped'
    BY <2>1, <2>2, NoneOrOne DEF IInv, StatesTyped
  <2>6. Held'
    BY <2>1, <2>2 DEF IInv, Held
  <2>7. Stale'
    BY <2>1, <2>3 DEF IInv, Stale, AskedTyped, Repl
  <2> QED BY <2>4, <2>5, <2>6, <2>7 DEF IInv
<1> QED BY <1>1, <1>2, <1>3, <1>4, <1>5, <1>6, <1>7 DEF Drive

(* Every step keeps the invariant.                                         *)
LEMMA NextIInv == ASSUME IInv, [Next]_vars PROVE IInv'
<1>1. CASE UNCHANGED vars
  BY <1>1 DEF vars, driver, evaluation, parser, IInv, ReaderTyped, StatesTyped, Held, Applies, Stale, Repl
<1> QED BY <1>1, ParseIInv, DriveIInv DEF Next, Terminated

(* The inductive invariant of the reader.                                  *)
LEMMA Invariance == Spec => []IInv
BY InitIInv, NextIInv, PTL DEF Spec

-----------------------------------------------------------------------------
(* The parser never holds more than one token back and always reads a text *)
(* that is there (parse.h:10-19, parse.c:20-55).                           *)
THEOREM ReaderTypeCorrect == Spec => []TypeOK
<1>1. IInv => TypeOK
  <2> SUFFICES ASSUME IInv PROVE TypeOK
    OBVIOUS
  <2>1. \A s : AtMostOne(s) => Len(s) <= 1
    <3> SUFFICES ASSUME NEW s, AtMostOne(s) PROVE Len(s) <= 1
      OBVIOUS
    <3>1. CASE s = <<>>
      BY <3>1
    <3>2. CASE s = <<Head(s)>>
      <4>1. PICK x : s = <<x>>
        BY <3>2
      <4> QED BY <4>1
    <3> QED BY <3>1, <3>2 DEF AtMostOne
  <2>2. Len(given.files) \in Nat
    BY InputsAssumption, LenProperties DEF IInv, ReaderTyped
  <2>3. \A r \in DOMAIN states : states[r].fp \in DOMAIN text
    BY <2>2 DEF IInv, ReaderTyped, StatesTyped
  <2> QED BY <2>1, <2>3 DEF IInv, ReaderTyped, StatesTyped, TypeOK
<1> QED BY <1>1, Invariance, PTL

(* Neither the prompt nor (read) loses a token to the other's parse state  *)
(* (vm_ops.c:524-534, parse.c:20-55).                                      *)
THEOREM NeitherReaderLosesATokenToTheOther == Spec => []NothingHeldBack
<1>1. IInv => NothingHeldBack
  BY DEF IInv, Held, NothingOrStray, NothingHeldBack
<1> QED BY <1>1, Invariance, PTL

(* Once vm->errormsg is set, main reads at most one expression of each of  *)
(* the files that are left (main.c:34-42).                                 *)
THEOREM ErrorsOutliveTheirFile == Spec => []StaleError
<1>1. IInv => StaleError
  BY DEF IInv, Stale, StaleError
<1> QED BY <1>1, Invariance, PTL

(* The step of a prompt that looks at a stray token: it is cached again,   *)
(* and the text is as it was.                                              *)
LEMMA StrayStaysCached ==
    ASSUME IInv, Stuck, Next PROVE Stuck' /\ UNCHANGED text
<1>1. /\ calls = <<>> /\ Repl /\ ~ left /\ expr = NONE /\ ~ Applies
      /\ states["input"].next # <<>> /\ states["input"].next \in StrayToken
  BY Tokens DEF Stuck, StrayToken, Applies
<1>2. reading = "input"
  BY <1>1 DEF IInv, Held, StatesTyped
<1>3. PICK tok \in {RIGHT_PAREN, OCTOTHORPE} : states["input"].next = <<tok>>
  BY DEF Stuck, StrayToken
<1>4. peek_next_token = Token(tok, text[state.fp])
  BY <1>2, <1>1, <1>3 DEF peek_next_token, state
<1>5. peek_next_token.token = tok /\ peek_next_token.rest = text[state.fp]
  BY <1>4 DEF Token
<1>6. tok # LEFT_PAREN /\ tok # APOSTROPHE /\ ~ is_atom(tok)
  BY Tokens
<1>7. CASE ParseNone
  <2>1. leave(<<tok>>, text[state.fp]) /\ result' = <<NONE>> /\ UNCHANGED <<driver, calls>>
    BY <1>5, <1>7 DEF ParseNone, cache
  <2>2. states'["input"].next = <<tok>>
    BY <1>2, <2>1, Leaves DEF IInv
  <2>3. UNCHANGED text
    <3>1. text' = [text EXCEPT ![state.fp] = text[state.fp]]
      BY <2>1 DEF leave
    <3>2. text = [k \in DOMAIN text |-> text[k]]
      BY DEF IInv, ReaderTyped
    <3> QED BY <3>1, <3>2
  <2> QED BY <1>1, <2>1, <2>2, <2>3 DEF Stuck, StrayToken, Repl, driver, evaluation
<1>8. CASE StackOverflow \/ print_help \/ Return \/ ParseExpression \/ Terminated
  <2>1. UNCHANGED <<given, text, states, calls, result, expr, left>>
    BY <1>8 DEF StackOverflow, print_help, Return, ParseExpression, Terminated, vars, driver,
                evaluation, parser
  <2> QED BY <2>1 DEF Stuck, Repl
<1>9. CASE ReturnExpression
  <2>1. /\ result # <<>> /\ expr' = Head(result) /\ result' = <<>>
        /\ UNCHANGED <<given, text, states, calls, left>>
    BY <1>9 DEF ReturnExpression, Returning, value
  <2>2. expr' = NONE
    BY <2>1 DEF Stuck
  <2> QED BY <2>1, <2>2 DEF Stuck, Repl
<1>10. CASE Evaluate
  <2>1. left' = FALSE /\ expr' = NONE /\ UNCHANGED <<given, text, states, calls, result>>
    BY <1>1, <1>10 DEF Evaluate, parser
  <2> QED BY <2>1 DEF Stuck, Repl
<1>11. ~ (ParseAtom \/ ParseList \/ ParseQuoted)
  BY <1>5, <1>6 DEF ParseAtom, ParseList, ParseQuoted
<1>12. ~ (ReturnItem \/ ReturnPeriod \/ ReturnList \/ ReturnQuoted)
  BY <1>1 DEF ReturnItem, ReturnPeriod, ReturnList, ReturnQuoted, To
<1>13. ~ OpenFile
  BY <1>1 DEF OpenFile, Repl, IInv, ReaderTyped
<1>14. ~ OpRead
  BY <1>1 DEF OpRead
<1>15. ~ OpReadReturns
  BY <1>2 DEF OpReadReturns
<1> QED BY <1>7, <1>8, <1>9, <1>10, <1>11, <1>12, <1>13, <1>14, <1>15 DEF Next, Parse, Drive

(* At a stray parenthesis or # the prompt is stuck for good (parse.c:157,  *)
(* main.c:11-27), unless a failed evaluation has left frames.              *)
THEOREM StrayTokensStop == Spec => StuckForGood
<1>1. IInv /\ [Next]_vars => (Stuck => Stuck' /\ UNCHANGED text)
  <2> SUFFICES ASSUME IInv, [Next]_vars, Stuck PROVE Stuck' /\ UNCHANGED text
    OBVIOUS
  <2>1. CASE UNCHANGED vars
    BY <2>1 DEF vars, driver, evaluation, parser, Stuck, Repl
  <2> QED BY <2>1, StrayStaysCached
<1> QED BY <1>1, Invariance, PTL DEF Spec, StuckForGood

-----------------------------------------------------------------------------
(* What the reader leaves of a text.                                       *)
TextsTyped == \A k \in DOMAIN text : text[k] \in Texts

Left(r, s) == Ends(r, s) \/ PutBack(r, s)

Onward(r, s) == \/ IsSuffix(r, s)
                \/ r # <<>> /\ Head(r) = "#" /\ IsSuffix(Tail(r), s)

(* A text that is left was read forward.                                   *)
LEMMA LeftIsOnward == ASSUME NEW r, NEW s, Left(r, s) PROVE r \in Texts /\ Onward(r, s)
<1>1. CASE Ends(r, s)
  BY <1>1, EndsIsSuffix DEF Ends, Onward
<1>2. CASE PutBack(r, s)
  <2>1. PICK q : Ends(q, s) /\ r = <<"#">> \o q
    BY <1>2 DEF PutBack
  <2>2. q \in Seq(STRING) /\ <<"#">> \in Seq(STRING)
    <3>1. "#" \in STRING
      <4>1. s \in Seq(STRING) /\ \E i \in 1 .. Len(s) : s[i] = "#"
        BY <1>2, <2>1 DEF PutBack, Holds, Ends, Texts
      <4> QED BY <4>1, ElementOfSeq
    <3>2. \A c, S : c \in S => <<c>> \in Seq(S)
      OBVIOUS
    <3> QED BY <2>1, <3>1, <3>2 DEF Ends, Texts
  <2>3. r \in Seq(STRING) /\ r # <<>> /\ Head(r) = "#" /\ Tail(r) = q
    BY <2>1, <2>2
  <2>4. IsSuffix(q, s)
    BY <2>1, EndsIsSuffix
  <2> QED BY <2>3, <2>4 DEF Onward, Texts
<1> QED BY <1>1, <1>2 DEF Left

(* What is left of an end of a text is left of the text.                   *)
LEMMA LeftOfEnds == ASSUME NEW q, NEW r, NEW s, Left(q, r), Ends(r, s) PROVE Left(q, s)
<1>1. CASE Ends(q, r)
  BY <1>1, EndsOfEnds DEF Left
<1>2. CASE PutBack(q, r)
  <2>1. PICK p : Ends(p, r) /\ q = <<"#">> \o p
    BY <1>2 DEF PutBack
  <2>2. Ends(p, s) /\ Holds(s, "#")
    BY <1>2, <2>1, EndsOfEnds, EndsHolds DEF PutBack
  <2> QED BY <2>1, <2>2 DEF Left, PutBack
<1> QED BY <1>1, <1>2 DEF Left

(* The token looked at is the cached one or is taken off the text.         *)
LEMMA LookAhead ==
    ASSUME IInv, TextsTyped
    PROVE  /\ text[state.fp] \in Texts
           /\ Left(peek_next_token.rest, text[state.fp])
           /\ peek_next_token.token = LEFT_PAREN => Ends(peek_next_token.rest, text[state.fp])
<1> DEFINE s == text[state.fp]
<1>1. s \in Texts
  BY DEF IInv, ReaderTyped, StatesTyped, TextsTyped, state
<1>2. CASE state.next # <<>>
  <2>1. peek_next_token.rest = s
    BY <1>2 DEF peek_next_token, Token
  <2>2. Ends(s, s)
    BY <1>1, EndsItself
  <2> HIDE DEF s
  <2> QED BY <1>1, <2>1, <2>2 DEF Left, s
<1>3. CASE state.next = <<>>
  <2>1. peek_next_token = read_next_token(s)
    BY <1>3 DEF peek_next_token
  <2> HIDE DEF s
  <2>2. \/ Ends(peek_next_token.rest, s)
        \/ peek_next_token.token = OCTOTHORPE /\ PutBack(peek_next_token.rest, s)
    BY <1>1, <2>1, NextToken
  <2> QED BY <1>1, <2>2, Tokens DEF Left, s
<1> QED BY <1>2, <1>3

Moves == \A k \in DOMAIN text : text'[k] # text[k] => k = state.fp /\ Onward(text'[k], text[k])

(* A step that leaves a rest of the text in use moves that text, and no    *)
(* other.                                                                  *)
LEMMA LeavesOnward ==
    ASSUME IInv, TextsTyped, NEW next, NEW rest, leave(next, rest), Left(rest, text[state.fp])
    PROVE  Moves /\ TextsTyped'
<1>1. /\ DOMAIN text' = DOMAIN text /\ text'[state.fp] = rest
      /\ \A k \in DOMAIN text : k # state.fp => text'[k] = text[k]
  BY Leaves DEF IInv
<1>2. rest \in Texts /\ Onward(rest, text[state.fp])
  BY LeftIsOnward
<1>3. Moves
  BY <1>1, <1>2 DEF Moves
<1>4. TextsTyped'
  BY <1>1, <1>2 DEF TextsTyped
<1> QED BY <1>3, <1>4

(* Every step moves at most the text in use.                               *)
LEMMA NextMoves == ASSUME IInv, TextsTyped, [Next]_vars PROVE Moves /\ TextsTyped'
<1> DEFINE t == peek_next_token
           u == read_next_token(t.rest)
<1>1. CASE UNCHANGED text
  BY <1>1 DEF Moves, TextsTyped
<1>2. ASSUME NEW next, leave(next, t.rest) PROVE Moves /\ TextsTyped'
  BY <1>2, LookAhead, LeavesOnward
<1>3. CASE ParseList
  <2>1. t.token = LEFT_PAREN /\ \E next : leave(next, u.rest)
    BY <1>3 DEF ParseList, consume, cache
  <2>2. Ends(t.rest, text[state.fp])
    BY <2>1, LookAhead
  <2>3. t.rest \in Texts
    BY <2>2 DEF Ends
  <2>4. Left(u.rest, t.rest)
    BY <2>3, NextToken DEF Left
  <2> HIDE DEF u, t
  <2>5. Left(u.rest, text[state.fp])
    BY <2>2, <2>4, LeftOfEnds
  <2> QED BY <2>1, <2>5, LeavesOnward
<1>4. CASE ParseAtom \/ ParseQuoted \/ ParseNone \/ ReturnList
  <2>1. \E next : leave(next, t.rest)
    BY <1>4 DEF ParseAtom, ParseQuoted, ParseNone, ReturnList, consume, cache
  <2> QED BY <1>2, <2>1
<1>5. CASE ReturnItem \/ ReturnPeriod \/ ReturnQuoted \/ StackOverflow
  BY <1>1, <1>5 DEF ReturnItem, ReturnPeriod, ReturnQuoted, StackOverflow, parser
<1>6. CASE Drive
  BY <1>1, <1>6 DEF Drive, print_help, OpenFile, Return, ParseExpression, ReturnExpression,
                    Evaluate, OpRead, OpReadReturns, parser
<1>7. CASE Terminated \/ UNCHANGED vars
  BY <1>1, <1>7 DEF Terminated, vars, parser
<1> QED BY <1>3, <1>4, <1>5, <1>6, <1>7 DEF Next, Parse

(* A text only ever loses characters from its front, but for a # that is   *)
(* put back, and only the text in use does (lex.c:28-128, parse.c:20-55).  *)
THEOREM TextsAreReadForward == Spec => Forward
<1>1. Init => TextsTyped
  <2> SUFFICES ASSUME Init PROVE TextsTyped
    OBVIOUS
  <2>1. Len(given.files) \in Nat /\ \A k \in 1 .. Len(given.files) : given.files[k].text \in Texts
    <3>1. given \in Inputs /\ given.files \in Seq(ToSet(given.files))
      BY InputsAssumption DEF Init
    <3>2. Len(given.files) \in Nat
          /\ \A k \in 1 .. Len(given.files) : given.files[k] \in ToSet(given.files)
      BY <3>1, LenProperties, ElementOfSeq
    <3> QED BY <3>1, <3>2, InputsAssumption DEF Texts
  <2>2. given.stdin.text \in Texts
    BY InputsAssumption DEF Init, Texts
  <2> QED BY <2>1, <2>2 DEF Init, TextsTyped
<1>2. IInv /\ TextsTyped /\ [Next]_vars => TextsTyped'
  BY NextMoves
<1>3. IInv /\ TextsTyped /\ [Next]_vars =>
        \A k \in DOMAIN text : text'[k] # text[k] =>
            /\ k = state.fp
            /\ \/ IsSuffix(text'[k], text[k])
               \/ text'[k] # <<>> /\ Head(text'[k]) = "#" /\ IsSuffix(Tail(text'[k]), text[k])
  BY NextMoves DEF Moves, Onward
<1> QED BY <1>1, <1>2, <1>3, Invariance, PTL DEF Spec, Forward
=============================================================================
