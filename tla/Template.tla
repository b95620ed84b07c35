------------------------------- MODULE Template -------------------------------
(***************************************************************************)
(* A template (paste/util/template.py): its source is split into text and    *)
(* directives, lines that hold only a statement are taken out, the rest is   *)
(* parsed into nested codes, and the codes are interpreted for every call.   *)
(*                                                                           *)
(* A source is a sequence of symbols: braces, line ends, blanks, other text,  *)
(* and the names of directives, which mean something between braces only.     *)
(* A value is a string, the sequence of its characters, and so can be looped  *)
(* over, be true or false, and be shown.                                     *)
(***************************************************************************)
EXTENDS Integers, Sequences, SequencesExt, FiniteSetsExt, TLC

CONSTANTS
    Sources,
    Directive,     \* of each name: [d, var, arg, colon, good, html]: what it is, the variable it
                   \* sets, its expression (a variable, or the text of py and default), whether a
                   \* colon ends it, whether it can be read, whether |html ends it
    Namespace,     \* of the template itself
    Calls,         \* what substitute is called with
    MaxSubstitutes,
    None

VARIABLES
    source, quotes,  \* quotes: an HTMLTemplate
    parsed,          \* None, "error", or the codes
    rendered,        \* of the last substitute: None, or [ns, out, exc]
    substitutes

templateVars == <<source, quotes, parsed, rendered, substitutes>>

-----------------------------------------------------------------------------
(* lex and trim_lex                                                          *)

Text(s) == [text |-> s, name |-> None, pad |-> FALSE]
IsText(token) == token.name = None

\* A chunk between braces: a directive, perhaps after a blank.
Chunk(s) ==
    IF s # <<>> /\ Last(s) \in DOMAIN Directive /\ Len(s) <= 2 /\ (Len(s) = 2 => s[1] = "sp")
    THEN [text |-> <<>>, name |-> Last(s), pad |-> Len(s) = 2]
    ELSE [text |-> s, name |-> "junk", pad |-> FALSE]

Lex(s) ==
    LET Step(state, symbol) ==
            IF (symbol = "{{" /\ state.in) \/ (symbol = "}}" /\ ~state.in)
            THEN [state EXCEPT !.error = TRUE]
            ELSE CASE symbol = "{{" -> [state EXCEPT !.in = TRUE, !.part = <<>>,
                            !.chunks = IF state.part = <<>> THEN @ ELSE Append(@, Text(state.part))]
                   [] symbol = "}}" -> [state EXCEPT !.in = FALSE, !.part = <<>>,
                            !.chunks = Append(@, Chunk(state.part))]
                   [] OTHER -> [state EXCEPT !.part = Append(@, symbol)]
        end == FoldLeft(Step, [in |-> FALSE, part |-> <<>>, chunks |-> <<>>, error |-> FALSE], s)
    IN  IF end.error \/ end.in THEN [error |-> TRUE, tokens |-> <<>>]
        ELSE [error |-> FALSE,
              tokens |-> IF end.part = <<>> THEN end.chunks ELSE Append(end.chunks, Text(end.part))]

Is(token, kinds) == ~IsText(token) /\ Directive[token.name].d \in kinds
Plain(token) == ~token.pad /\ ~Directive[token.name].colon

\* Statements that may have a line of their own; an else is not one.
IsStatement(token) ==
    /\ ~token.pad
    /\ \/ Is(token, {"if", "elif", "for", "py"})
       \/ Is(token, {"endif", "endfor", "continue", "break"}) /\ ~Directive[token.name].colon

Blank(s) == \A i \in DOMAIN s : s[i] = "sp"

\* trail_whitespace_re: up to the line end that only blanks follow; $ also matches
\* before a last line end.
TrailStart(s) ==
    {i \in DOMAIN s : /\ s[i] = "nl"
                      /\ \/ Blank(SubSeq(s, i + 1, Len(s)))
                         \/ i < Len(s) /\ Last(s) = "nl" /\ Blank(SubSeq(s, i + 1, Len(s) - 1))}

\* lead_whitespace_re
LeadEnd(s) == {i \in DOMAIN s : s[i] = "nl" /\ Blank(SubSeq(s, 1, i - 1))}

TrimLex(tokens) ==
    LET Step(ts, i) ==
            LET prev == IF i = 1 THEN Text(<<>>) ELSE ts[i - 1]
                next == IF i = Len(ts) THEN Text(<<>>) ELSE ts[i + 1]
                alone == /\ IsText(prev) /\ IsText(next)
                         /\ prev.text = <<>> \/ TrailStart(prev.text) # {}
                         /\ next.text = <<>> \/ LeadEnd(next.text) # {}
                Trimmed(j) ==
                    CASE j = i - 1 /\ prev.text # <<>> -> Text(SubSeq(prev.text, 1, Min(TrailStart(prev.text))))
                      [] j = i + 1 /\ next.text # <<>> ->
                            Text(SubSeq(next.text, Min(LeadEnd(next.text)) + 1, Len(next.text)))
                      [] OTHER -> ts[j]
            IN  IF IsText(ts[i]) \/ ~IsStatement(ts[i]) \/ ~alone THEN ts
                ELSE [j \in DOMAIN ts |-> Trimmed(j)]
    IN  FoldLeft(Step, tokens, [i \in DOMAIN tokens |-> i])

-----------------------------------------------------------------------------
(* parse: codes are [k, text, name, content], and what a parser returns is a  *)
(* code or a sequence of codes with the tokens that are left.                *)

Code(k, token, content) == [k |-> k, text |-> token.text, name |-> token.name, content |-> content]

Error == [error |-> TRUE]
Got(code, rest) == [error |-> FALSE, code |-> code, rest |-> rest]

\* What ends the content of a piece of an if, or of a for.
Ends(block, token) ==
    IF block = "for" THEN Is(token, {"endfor"}) /\ Plain(token)
    ELSE ~token.pad /\ (Is(token, {"elif"}) \/ (Is(token, {"endif", "else"}) /\ Plain(token)))

RECURSIVE ParseExpr(_, _), ParseContent(_, _, _, _), ParseCond(_, _, _), ParseAll(_, _)

ParseContent(tokens, block, inFor, content) ==
    IF tokens = <<>> THEN Error
    ELSE IF Ends(block, Head(tokens)) THEN Got(content, tokens)
    ELSE LET next == ParseExpr(tokens, inFor)
         IN  IF next.error THEN Error ELSE ParseContent(next.rest, block, inFor, Append(content, next.code))

\* parse_cond and parse_one_cond: pieces up to the endif, whatever follows an else.
ParseCond(tokens, inFor, pieces) ==
    LET token == Head(tokens)
        content == ParseContent(Tail(tokens), "if", inFor, <<>>)
    IN  IF Is(token, {"endif"}) /\ Plain(token) THEN Got(Code("cond", Text(<<>>), pieces), Tail(tokens))
        ELSE IF token.pad \/ content.error THEN Error
        ELSE ParseCond(content.rest, inFor,
                       Append(pieces, Code(Directive[token.name].d, token, content.code)))

ParseFor(tokens) ==
    LET token == Head(tokens)
        content == ParseContent(Tail(tokens), "for", TRUE, <<>>)
    IN  IF token.pad \/ ~Directive[token.name].good \/ content.error THEN Error
        ELSE Got(Code("for", token, content.code), Tail(content.rest))

\* parse_expr: blanks around it do not matter here, but in parse_cond, parse_for and
\* parse_default they do.
ParseExpr(tokens, inFor) ==
    LET token == Head(tokens)
        d == IF IsText(token) THEN "text" ELSE Directive[token.name].d
        colon == ~IsText(token) /\ Directive[token.name].colon
        Leaf(k) == Got(Code(k, token, <<>>), Tail(tokens))
    IN  CASE d \in {"text", "py", "comment"} -> Leaf(d)
          [] d \in {"continue", "break"} /\ ~colon -> IF inFor THEN Leaf(d) ELSE Error
          [] d = "if" -> ParseCond(tokens, inFor, <<>>)
          [] d \in {"elif", "bare"} \/ (d \in {"else", "endif", "endfor"} /\ ~colon) -> Error
          [] d = "for" -> ParseFor(tokens)
          [] d = "default" -> IF token.pad \/ ~Directive[token.name].good THEN Error ELSE Leaf(d)
          [] OTHER -> Leaf("expr")

ParseAll(tokens, codes) ==
    IF tokens = <<>> THEN [error |-> FALSE, codes |-> codes]
    ELSE LET next == ParseExpr(tokens, FALSE)
         IN  IF next.error THEN Error ELSE ParseAll(next.rest, Append(codes, next.code))

Parse(s) == IF Lex(s).error THEN Error ELSE ParseAll(TrimLex(Lex(s).tokens), <<>>)

-----------------------------------------------------------------------------
(* _interpret_codes on a state [ns, out, exc], where exc is None, "error",     *)
(* "continue" or "break".                                                    *)

Bound(name, value, ns) == [n \in DOMAIN ns \cup {name} |-> IF n = name THEN value ELSE ns[n]]
Raise(st, exc) == [st EXCEPT !.exc = exc]

\* _eval: a variable that is not there is a NameError (html is, in a plain Template), what
\* is no expression is a SyntaxError.
Evaluates(directive, ns) ==
    directive.good /\ directive.arg \in DOMAIN ns /\ (directive.html => quotes)

\* _repr; an HTMLTemplate quotes what is not html.
Quoted(character) == IF character = "<" THEN "&lt;" ELSE character
Repr(value, html) == IF quotes /\ ~html THEN [i \in DOMAIN value |-> Quoted(value[i])] ELSE value

RECURSIVE Codes(_, _), Interpret(_, _), For(_, _, _), If(_, _)

Codes(codes, st) ==
    IF codes = <<>> \/ st.exc # None THEN st ELSE Codes(Tail(codes), Interpret(Head(codes), st))

\* _interpret_for: the variable stays after the loop.
For(code, items, st) ==
    LET directive == Directive[code.name]
        once == Codes(code.content, [st EXCEPT !.ns = Bound(directive.var, <<Head(items)>>, st.ns)])
    IN  CASE items = <<>> -> st
          [] items # <<>> /\ once.exc \in {None, "continue"} -> For(code, Tail(items), Raise(once, None))
          [] items # <<>> /\ once.exc = "break" -> Raise(once, None)
          [] items # <<>> /\ once.exc = "error" -> once

\* _interpret_if
If(pieces, st) ==
    IF pieces = <<>> THEN st
    ELSE LET piece == Head(pieces)
             directive == Directive[piece.name]
         IN  CASE piece.k = "else" -> Codes(piece.content, st)
               [] piece.k # "else" /\ ~Evaluates(directive, st.ns) -> Raise(st, "error")
               [] OTHER -> IF st.ns[directive.arg] # <<>> THEN Codes(piece.content, st)
                           ELSE If(Tail(pieces), st)

Interpret(code, st) ==
    LET directive == Directive[code.name]
        Write(s) == [st EXCEPT !.out = @ \o s]
    IN  CASE code.k = "text" -> Write(code.text)
          [] code.k = "py" -> [st EXCEPT !.ns = Bound(directive.var, directive.arg, @)]
          [] code.k \in {"continue", "break"} -> Raise(st, code.k)
          [] code.k = "for" -> IF Evaluates(directive, st.ns) THEN For(code, st.ns[directive.arg], st)
                               ELSE Raise(st, "error")
          [] code.k = "cond" -> If(code.content, st)
          [] code.k = "expr" -> IF Evaluates(directive, st.ns)
                                THEN Write(Repr(st.ns[directive.arg], directive.html))
                                ELSE Raise(st, "error")
          [] code.k = "default" -> IF directive.var \in DOMAIN st.ns THEN st
                                   ELSE [st EXCEPT !.ns = Bound(directive.var, directive.arg, @)]
          [] OTHER -> st

-----------------------------------------------------------------------------

TemplateInit ==
    /\ source \in Sources /\ quotes \in BOOLEAN
    /\ parsed = None /\ rendered = None /\ substitutes = 0

\* Template.__init__
Make ==
    /\ parsed = None /\ parsed' = Parse(source)
    /\ UNCHANGED <<source, quotes, rendered, substitutes>>

\* substitute: in a namespace of its own.
Substitute ==
    /\ parsed # None /\ ~parsed.error /\ substitutes < MaxSubstitutes
    /\ \E kw \in Calls :
          LET ns == kw @@ Namespace
              st == Codes(parsed.codes, [ns |-> ns, out |-> <<>>, exc |-> None])
          IN  rendered' = [ns |-> ns, out |-> st.out, exc |-> st.exc]
    /\ substitutes' = substitutes + 1
    /\ UNCHANGED <<source, quotes, parsed>>

TemplateNext == Make \/ Substitute

TemplateSpec == TemplateInit /\ [][TemplateNext]_templateVars

-----------------------------------------------------------------------------
(* What a template means, without codes: its directives are read in order, and *)
(* an if, an else, a loop, a continue or a break is a jump.                   *)

Opens(token) == Is(token, {"if", "for"})
Closes(token) == Is(token, {"endif", "endfor"}) /\ Plain(token)
Parts(token) == Is(token, {"elif"}) \/ (Is(token, {"else"}) /\ ~Directive[token.name].colon)

\* The blocks that are open are closed in their order, and a directive is in its block.
WellFormed(tokens) ==
    LET Opened(open, block) == open # <<>> /\ Last(open) = block
        Fits(token, open) ==
            CASE IsText(token) \/ Is(token, {"py", "comment"}) -> TRUE
              [] Is(token, {"bare"}) -> FALSE
              [] Is(token, {"if"}) -> ~token.pad
              [] Is(token, {"for", "default"}) -> ~token.pad /\ Directive[token.name].good
              [] Parts(token) -> ~token.pad /\ Opened(open, "if")
              [] Directive[token.name].colon -> TRUE
              [] Is(token, {"endif"}) -> ~token.pad /\ Opened(open, "if")
              [] Is(token, {"endfor"}) -> ~token.pad /\ Opened(open, "for")
              [] Is(token, {"continue", "break"}) -> "for" \in Range(open)
              [] OTHER -> TRUE
        Step(state, token) ==
            [ok |-> state.ok /\ Fits(token, state.open),
             open |-> CASE Opens(token) -> Append(state.open, Directive[token.name].d)
                        [] Closes(token) /\ state.open # <<>> -> Front(state.open)
                        [] OTHER -> state.open]
        end == FoldLeft(Step, [ok |-> TRUE, open |-> <<>>], tokens)
    IN  end.ok /\ end.open = <<>>

\* The next directive of the same block after the one at i.
Level(tokens, i) == Quantify(1..(i - 1), LAMBDA j : Opens(tokens[j])) - Quantify(1..(i - 1), LAMBDA j : Closes(tokens[j]))
After(tokens, i) ==
    LET level == Level(tokens, i) + (IF Opens(tokens[i]) THEN 1 ELSE 0)
    IN  Min({j \in (i + 1)..Len(tokens) :
                (Closes(tokens[j]) \/ Parts(tokens[j])) /\ Level(tokens, j) = level})

RECURSIVE Branch(_, _, _), EndOf(_, _), Meaning(_, _, _, _, _)

\* Where an if goes on from one of its parts: 0 if a test fails.
Branch(tokens, i, ns) ==
    LET directive == Directive[tokens[i].name]
    IN  CASE directive.d \in {"else", "endif"} -> i + 1
          [] directive.arg \notin DOMAIN ns -> 0
          [] OTHER -> IF ns[directive.arg] # <<>> THEN i + 1 ELSE Branch(tokens, After(tokens, i), ns)

EndOf(tokens, i) == IF Closes(tokens[i]) THEN i ELSE EndOf(tokens, After(tokens, i))

\* loops: the for of each loop with the items that are left.
Meaning(tokens, pc, ns, out, loops) ==
    LET token == tokens[pc]
        directive == Directive[token.name]
        Go(next) == Meaning(tokens, next, ns, out, loops)
        Again(for, items, outer) ==
            IF items = <<>> THEN Meaning(tokens, EndOf(tokens, for) + 1, ns, out, outer)
            ELSE Meaning(tokens, for + 1, Directive[tokens[for].name].var :> <<Head(items)>> @@ ns, out,
                         Append(outer, [for |-> for, items |-> Tail(items)]))
        fails == [error |-> TRUE, out |-> <<>>]
    IN  CASE pc > Len(tokens) -> [error |-> FALSE, out |-> out]
          [] pc <= Len(tokens) /\ IsText(token) -> Meaning(tokens, pc + 1, ns, out \o token.text, loops)
          [] OTHER ->
               CASE directive.d = "comment" -> Go(pc + 1)
                 [] directive.d = "py" -> Meaning(tokens, pc + 1, directive.var :> directive.arg @@ ns, out, loops)
                 [] directive.d = "default" ->
                        Meaning(tokens, pc + 1, ns @@ directive.var :> directive.arg, out, loops)
                 [] directive.d = "if" ->
                        IF Branch(tokens, pc, ns) = 0 THEN fails ELSE Go(Branch(tokens, pc, ns))
                 [] Parts(token) -> Go(EndOf(tokens, pc) + 1)
                 [] directive.d = "for" ->
                        IF directive.arg \in DOMAIN ns THEN Again(pc, ns[directive.arg], loops) ELSE fails
                 [] Closes(token) /\ directive.d = "endif" -> Go(pc + 1)
                 [] (Closes(token) /\ directive.d = "endfor") \/ (directive.d = "continue" /\ ~directive.colon) ->
                        Again(Last(loops).for, Last(loops).items, Front(loops))
                 [] directive.d = "break" /\ ~directive.colon ->
                        Again(Last(loops).for, <<>>, Front(loops))
                 [] OTHER ->
                        IF ~Evaluates(directive, ns) THEN fails
                        ELSE Meaning(tokens, pc + 1, ns, out \o Repr(ns[directive.arg], directive.html), loops)

Visible(s) == SelectSeq(s, LAMBDA c : c \notin {"nl", "sp"})

\* A template is read if its blocks are closed in their order and every directive is in
\* the block it belongs to; whatever it was called with before, it shows what its
\* directives mean where they stand: leaving out the lines of statements takes away
\* nothing but blanks (template.py 433-473, 537-654, 134-206).
RendersAsWritten ==
    LET tokens == Lex(source).tokens
    IN  /\ parsed # None => (parsed.error <=> Lex(source).error \/ ~WellFormed(tokens))
        /\ rendered # None =>
              LET meant == Meaning(tokens, 1, rendered.ns, <<>>, <<>>)
              IN  IF meant.error THEN rendered.exc = "error"
                  ELSE rendered.exc = None /\ Visible(rendered.out) = Visible(meant.out)
=============================================================================
