------------------------------- MODULE Reader -------------------------------
(***************************************************************************)
(* The reader: the parser (parse.c) over the lexer, and main's loops       *)
(* (main.c) that call it, for stdin or for a list of files.                *)
(*                                                                         *)
(* The parser is a recursive descent with one token of look-ahead.  Its C  *)
(* stack is the sequence calls; one action is the parsing of one token, or *)
(* one return.  A parse state is made for every FILE, and by (read) for a  *)
(* single expression of stdin: several of them may read the same text.     *)
(* What an evaluation does is left open (VM.tla), except for what reaches  *)
(* the loops and the texts: whether it fails, whether its value is the     *)
(* end-of-file object, when it calls (read), and whether it leaves frames  *)
(* or operands for the next one to go on with.                             *)
(***************************************************************************)
EXTENDS Lexer

CONSTANTS
    Inputs,     \* what the program may be started with: [options, files, stdin]
    MaxDepth,   \* how many parser calls the C stack has room for
    MaxReads    \* how often one evaluation calls (read), at the most

(* A source is a text, and whether fopen finds it; [text, opens].          *)
ASSUME InputsAssumption ==
    \A i \in Inputs :
        /\ i.files \in Seq(ToSet(i.files))
        /\ \A f \in ToSet(i.files) \cup {i.stdin} :
                f.text \in Seq(STRING) /\ f.opens \in BOOLEAN
ASSUME MaxDepthAssumption == MaxDepth \in Nat
ASSUME MaxReadsAssumption == MaxReads \in Nat

VARIABLES
    given,      \* the input of this run
    argi,       \* i of main: the file argument being read, 0 for stdin
    text,       \* the characters still to be read; 0 is stdin
    states,     \* the parse states: the driver's, and that of (read)
    reading,    \* which of the two the parser works on
    calls,      \* the parser's calls in progress, innermost last
    result,     \* what the parser returns, <<>> while it is at work
    phase,      \* where the driver is
    errormsg,   \* vm->errormsg is set
    asked,      \* the data read so far, with the text they came from
    expr,       \* the expression being evaluated, NONE if there is none
    reads,      \* how often its evaluation has called (read)
    left        \* the last evaluation has left sp or callp above zero

evaluation == <<expr, reads, left>>
driver == <<given, argi, phase, errormsg, asked, reading, evaluation>>
parser == <<text, states, calls, result>>
vars   == <<driver, parser>>

-----------------------------------------------------------------------------
(* Parse states and their look-ahead.                                      *)

(* next_token and has_next are a sequence of at most one token.            *)
make_parse_state(fp) == [fp |-> fp, next |-> <<>>]

state == states[reading]

(* peek_next_token: the cached token, or one lexed from the text.          *)
peek_next_token ==
    IF state.next # <<>> THEN Token(Head(state.next), text[state.fp])
    ELSE read_next_token(text[state.fp])

(* Mutant of leave: (read) moves on in the text of the driver's own file.  *)
leave_file(next, rest) ==
    /\ states' = [states EXCEPT ![reading].next = next]
    /\ text' = [text EXCEPT ![argi] = rest]

(* The parser goes on with these tokens cached and this text left.         *)
leave(next, rest) ==
    /\ states' = [states EXCEPT ![reading].next = next]
    /\ text' = [text EXCEPT ![state.fp] = rest]

(* Mutant of cache: the token is kept beside the one that is there.        *)
cache_again(t) == leave(Append(state.next, t.token), t.rest)

consume(t) == leave(<<>>, t.rest)
cache(t)   == leave(<<t.token>>, t.rest)

-----------------------------------------------------------------------------
(* The parser.  A call of parse_list in progress has the elements parsed   *)
(* so far: one parse_list_tokens each, and one more for the next.          *)

Frame(kind, items) == [kind |-> kind, items |-> items]

Depth == FoldLeft(LAMBDA d, f : d + 1 + Len(f.items), 0, calls)

Parsing   == phase = "parse" /\ Depth <= MaxDepth
Expecting == Parsing /\ result = <<>>
Returning == Parsing /\ result # <<>>

(* The tokens parse_token accepts as they are.                             *)
is_atom(t) == t.t \in {"integer", "symbol", "boolean", "character"} \/ is_eof(t)
is_period(t) == t = tag_symbol(<<".">>)

(* Mutant of ParseAtom: the end of the text ends a list.                   *)
ParseAtom_ended ==
    LET t == peek_next_token
    IN  /\ Expecting /\ is_atom(t.token)
        /\ consume(t)
        /\ result' = <<IF is_eof(t.token) /\ calls # <<>> THEN NONE ELSE t.token>>
        /\ UNCHANGED <<driver, calls>>

ParseAtom ==
    LET t == peek_next_token
    IN  /\ Expecting /\ is_atom(t.token)
        /\ consume(t)
        /\ result' = <<t.token>>
        /\ UNCHANGED <<driver, calls>>

(* parse_list: a right parenthesis at once, or parse_list_tokens.          *)
ParseList ==
    LET t == peek_next_token
        u == read_next_token(t.rest)
    IN  /\ Expecting /\ t.token = LEFT_PAREN
        /\ IF u.token = RIGHT_PAREN
             THEN consume(u) /\ result' = <<SCM_TYPE_NULL>> /\ UNCHANGED calls
             ELSE cache(u) /\ calls' = Append(calls, Frame("list", <<>>)) /\ UNCHANGED result
        /\ UNCHANGED driver

ParseQuoted ==
    LET t == peek_next_token
    IN  /\ Expecting /\ t.token = APOSTROPHE
        /\ consume(t)
        /\ calls' = Append(calls, Frame("quoted", <<>>))
        /\ UNCHANGED <<driver, result>>

(* No rule takes the token: it stays cached.                               *)
ParseNone ==
    LET t == peek_next_token
    IN  /\ Expecting /\ t.token \in {RIGHT_PAREN, OCTOTHORPE}
        /\ cache(t)
        /\ result' = <<NONE>>
        /\ UNCHANGED <<driver, calls>>

(* A result is returned to the innermost call.                             *)
inner == Last(calls)
value == Head(result)
To(kind) == Returning /\ calls # <<>> /\ inner.kind = kind

ReturnItem ==
    /\ To("list") /\ value # NONE /\ ~ is_period(value)
    /\ calls' = Front(calls) \o <<Frame("list", Append(inner.items, value))>>
    /\ result' = <<>>
    /\ UNCHANGED <<driver, text, states>>

ReturnPeriod ==
    /\ To("list") /\ is_period(value)
    /\ calls' = Front(calls) \o <<Frame("pair", inner.items)>>
    /\ result' = <<>>
    /\ UNCHANGED <<driver, text, states>>

(* Mutant of ReturnList: the token after the list is only looked at.       *)
ReturnList_peek ==
    /\ \/ To("list") /\ value = NONE
       \/ To("pair")
    /\ cache(peek_next_token)
    /\ calls' = Front(calls)
    /\ result' = <<Chain(inner.items, IF value = NONE THEN SCM_TYPE_NULL ELSE value)>>
    /\ UNCHANGED driver

(* The list ends; parse_expect takes the next token whatever it is.        *)
ReturnList ==
    /\ \/ To("list") /\ value = NONE
       \/ To("pair")
    /\ consume(peek_next_token)
    /\ calls' = Front(calls)
    /\ result' = <<Chain(inner.items, IF value = NONE THEN SCM_TYPE_NULL ELSE value)>>
    /\ UNCHANGED driver

quote == tag_symbol(<<"q", "u", "o", "t", "e">>)

ReturnQuoted ==
    /\ To("quoted")
    /\ calls' = Front(calls)
    /\ result' = <<List(<<quote, value>>)>>
    /\ UNCHANGED <<driver, text, states>>

(* The elements of a list whose text ends are end-of-file tokens without   *)
(* end: every one is another call, until the C stack is used up.           *)
StackOverflow ==
    /\ phase = "parse" /\ Depth > MaxDepth
    /\ phase' = "crash"
    /\ UNCHANGED <<given, argi, errormsg, asked, reading, evaluation, parser>>

-----------------------------------------------------------------------------
(* The driver.                                                             *)

(* argc == 1.                                                              *)
Repl == given.options = {} /\ given.files = <<>>

(* Options come before files; -h ends the program, others are a warning.   *)
print_help ==
    /\ phase = "main" /\ argi = 0 /\ "h" \in given.options
    /\ phase' = "exit"
    /\ UNCHANGED <<given, argi, errormsg, asked, reading, evaluation, parser>>

OptionsRead == argi > 0 \/ "h" \notin given.options

(* main goes on to its next file, or returns.                              *)
OpenFile ==
    /\ phase = "main" /\ OptionsRead /\ argi < Len(given.files)
    /\ argi' = argi + 1
    /\ states' = [states EXCEPT !["input"] = make_parse_state(argi + 1)]
    /\ phase' = "loop"
    /\ UNCHANGED <<given, errormsg, asked, reading, evaluation, text, calls, result>>

Return ==
    /\ phase = "main" /\ OptionsRead /\ argi = Len(given.files)
    /\ phase' = "exit"
    /\ UNCHANGED <<given, argi, errormsg, asked, reading, evaluation, parser>>

(* The loop calls parse_expression; fgetc(NULL) if the file was not found. *)
ParseExpression ==
    /\ phase = "loop"
    /\ phase' = IF argi = 0 \/ given.files[argi].opens THEN "parse" ELSE "crash"
    /\ UNCHANGED <<given, argi, errormsg, asked, reading, evaluation, parser>>

(* A datum was read.  parse_expression returning none is not one: the loop *)
(* evaluates the none like a constant and goes round.  The end of a text   *)
(* is noted once, however often it is met.                                 *)
record(v) ==
    LET e == [from |-> state.fp, datum |-> v]
    IN  asked' = IF v = NONE \/ (is_eof(v) /\ e \in ToSet(asked)) THEN asked ELSE Append(asked, e)

(* Mutant of ReturnExpression: the loop makes a parse state every time.    *)
ReturnExpression_anew ==
    /\ Returning /\ calls = <<>> /\ reading = "input"
    /\ phase' = "evaluate"
    /\ expr' = value /\ result' = <<>>
    /\ record(value)
    /\ states' = [states EXCEPT !["input"] = make_parse_state(argi)]
    /\ UNCHANGED <<given, argi, errormsg, reading, reads, left, text, calls>>

(* parse_expression returns to the loop, which calls vm_evaluate_expr.     *)
ReturnExpression ==
    /\ Returning /\ calls = <<>> /\ reading = "input"
    /\ phase' = "evaluate"
    /\ expr' = value /\ result' = <<>>
    /\ record(value)
    /\ UNCHANGED <<given, argi, errormsg, reading, reads, left, text, states, calls>>

(* Mutant of Turn: a file goes on after an error.                          *)
Turn_on(ended, failed) ==
    /\ phase' = IF ended THEN IF Repl THEN "exit" ELSE "main" ELSE "loop"
    /\ errormsg' = ((errormsg \/ failed) /\ ~ Repl)

(* The end of a turn: what the loop does with an error and with a value    *)
(* that is the end-of-file object.                                         *)
Turn(ended, failed) ==
    LET error == errormsg \/ failed
    IN  /\ phase' = CASE Repl       -> IF ended THEN "exit" ELSE "loop"
                      [] ~ Repl     -> IF error \/ ended THEN "main" ELSE "loop"
        /\ errormsg' = (error /\ ~ Repl)

(* There are frames to run: those of a list, of the procedure that () finds*)
(* in the slot at sp, or those that a failed evaluation has left.          *)
Applies == is_pair(expr) \/ is_null(expr) \/ left

(* The end-of-file object is d or an element of it, at any level.          *)
EofIn(d) ==
    LET parts[k \in 0 .. MaxDepth + 1] ==
            IF k = 0 THEN {d}
            ELSE UNION {ToSet(e.items) \cup {e.last} : e \in {c \in parts[k - 1] : is_pair(c)}}
    IN  \E k \in DOMAIN parts : EOF_VAL \in parts[k]

EofRead == \E i \in DOMAIN asked : EofIn(asked[i].datum)

(* vm_evaluate_expr returns slot 0.  A constant is its own value and a     *)
(* symbol is looked up, both with nothing left on the stacks; where there  *)
(* are frames to run the evaluation may do anything, but end-of-file       *)
(* objects come from texts only, and without an error it ends when both    *)
(* stacks are empty.  That it ends at all is assumed here.                 *)
Evaluate ==
    /\ phase = "evaluate"
    /\ \E ended, failed, leaves \in BOOLEAN :
            /\ ended => EofRead
            /\ leaves => failed /\ Applies
            /\ Applies \/ is_symbol(expr) \/ (ended = is_eof(expr) /\ ~ failed)
            /\ Turn(ended, failed)
            /\ left' = leaves
    /\ expr' = NONE /\ reads' = 0
    /\ UNCHANGED <<given, argi, asked, reading, parser>>

(* vm_op_read: an expression of stdin, through a parse state of its own.   *)
OpRead ==
    /\ phase = "evaluate" /\ Applies /\ reads < MaxReads
    /\ reads' = reads + 1
    /\ states' = [states EXCEPT !["read"] = make_parse_state(0)]
    /\ reading' = "read"
    /\ phase' = "parse"
    /\ UNCHANGED <<given, argi, errormsg, asked, expr, left, text, calls, result>>

(* free_parse_state drops what that state had cached; the datum is pushed  *)
(* and the evaluation goes on.                                             *)
OpReadReturns ==
    /\ Returning /\ calls = <<>> /\ reading = "read"
    /\ states' = [states EXCEPT !["read"] = make_parse_state(0)]
    /\ reading' = "input"
    /\ record(value)
    /\ phase' = "evaluate"
    /\ result' = <<>>
    /\ UNCHANGED <<given, argi, errormsg, evaluation, text, calls>>

Terminated == phase \in {"exit", "crash"} /\ UNCHANGED vars

-----------------------------------------------------------------------------
Init ==
    /\ given \in Inputs
    /\ argi = 0
    /\ text = [k \in 0 .. Len(given.files) |->
                  IF k = 0 THEN given.stdin.text ELSE given.files[k].text]
    /\ states = [r \in {"input", "read"} |-> make_parse_state(0)]
    /\ reading = "input"
    /\ calls = <<>>
    /\ result = <<>>
    /\ phase = IF Repl THEN "loop" ELSE "main"
    /\ errormsg = FALSE
    /\ asked = <<>>
    /\ expr = NONE /\ reads = 0 /\ left = FALSE

Parse == ParseAtom \/ ParseList \/ ParseQuoted \/ ParseNone \/ ReturnItem
         \/ ReturnPeriod \/ ReturnList \/ ReturnQuoted \/ StackOverflow

Drive == print_help \/ OpenFile \/ Return \/ ParseExpression \/ ReturnExpression \/ Evaluate
         \/ OpRead \/ OpReadReturns

Next == Parse \/ Drive \/ Terminated

(* One thread whose input is there: whatever it can do next, it does.      *)
Spec == Init /\ [][Next]_vars /\ WF_vars(Parse \/ Drive)

-----------------------------------------------------------------------------
(* Properties.                                                             *)

(* The reader's state keeps its types: at most one token of look-ahead, and*)
(* two parse states that read a text there is (parse.h:10-19).             *)
TypeOK ==
    /\ argi \in 0 .. Len(given.files)
    /\ DOMAIN text = 0 .. Len(given.files)
    /\ DOMAIN states = {"input", "read"} /\ reading \in DOMAIN states
    /\ \A r \in DOMAIN states :
            states[r].fp \in DOMAIN text /\ Len(states[r].next) <= 1
    /\ phase \in {"main", "loop", "parse", "evaluate", "exit", "crash"}
    /\ errormsg \in BOOLEAN /\ left \in BOOLEAN
    /\ reads \in 0 .. MaxReads
    /\ Len(result) <= 1

(* The parse state that is not being read from holds no token back, unless *)
(* it is stuck at one: (read) makes its own state on the same stdin, and   *)
(* frees it, and neither loses a token of the other, in whichever          *)
(* evaluation and however often it is called (vm_ops.c:524-534,            *)
(* parse.c:20-55).                                                         *)
StrayToken == {<<RIGHT_PAREN>>, <<OCTOTHORPE>>}

NothingHeldBack ==
    phase \in {"loop", "evaluate"} \/ reading = "read" =>
        states["input"].next \in {<<>>} \cup StrayToken

(* Only the text in use moves, and it moves forward: what is read is       *)
(* consumed from the front of one text, but for a # that is put back       *)
(* (lex.c:85).                                                             *)
Forward ==
    [][\A k \in DOMAIN text : text'[k] # text[k] =>
            /\ k = state.fp
            /\ \/ IsSuffix(text'[k], text[k])
               \/ text'[k] # <<>> /\ Head(text'[k]) = "#" /\ IsSuffix(Tail(text'[k]), text[k])]_vars

(* At a stray parenthesis or # the prompt is stuck for good: it goes round *)
(* the cached token and never takes another character (parse.c:157,        *)
(* main.c:11-27).  Only frames of a failed evaluation could still call     *)
(* (read): with none left, nothing does.                                   *)
Stuck == /\ Repl /\ ~ left /\ expr = NONE
         /\ calls = <<>> /\ result \in {<<>>, <<NONE>>}
         /\ states["input"].next \in StrayToken

StuckForGood == [][Stuck => Stuck' /\ UNCHANGED text]_vars

(* After an error in a file, main reads at most one expression of each of  *)
(* the files that are left: vm->errormsg is never cleared, so a loop that  *)
(* starts with it set has read nothing yet (main.c:34-42).                 *)
StaleError ==
    phase = "loop" /\ errormsg => \A i \in DOMAIN asked : asked[i].from # argi
=============================================================================
