------------------------------- MODULE Writer -------------------------------
(***************************************************************************)
(* What a reader can tell of a value that write_value prints (write.c).    *)
(* Lists are printed element by element; a closure prints as an opaque     *)
(* #<closure:... @ address>, syntax-rules and values write_value does not  *)
(* know as one fixed text each; everything else prints as itself.          *)
(***************************************************************************)
EXTENDS Values

Opaque(text) == [t |-> "opaque", text |-> text]

RECURSIVE write_value(_)
write_value(v) ==
    IF is_pair(v)
      THEN [v EXCEPT !.items = [i \in DOMAIN v.items |-> write_value(v.items[i])],
                     !.last = write_value(v.last)]
    ELSE IF is_closure(v) THEN Opaque("#<closure>")
    ELSE IF is_syntax_rules(v) THEN Opaque("#<syntax-rules>")
    ELSE IF v.t = "parse_val" /\ ~ is_eof(v)
      THEN Opaque("#<unknown>")
    ELSE v
=============================================================================
