------------------------------- MODULE FormData -------------------------------
(***************************************************************************)
(* The parser of forms, util/field_storage.py: one FieldStorage and those of  *)
(* the parts below it, which read the lines of the body from the same file.   *)
(*                                                                           *)
(* A body is a sequence of bytes "cr", "lf", "x", the halves "u1" and "u2" of *)
(* a character, and, as if they were single bytes, the boundaries "outer" and *)
(* "inner", the same with two dashes at the end, and the headers of a part.   *)
(* Lines longer than Chunk bytes are read in pieces.                          *)
(***************************************************************************)
EXTENDS Integers, Sequences, SequencesExt, FiniteSetsExt

CONSTANTS
    HeaderFields,  \* headers -> [name, kind]
    FormRequests,  \* what is sent: [type, query, fields, sized, parts, ended]
    Chunk,         \* bytes a call of readline returns at most, at least a boundary and its end
    Memory,        \* bytes of a field that are kept in memory
    MaxFields,     \* max_num_fields, or None
    KeepBlank,     \* keep_blank_values
    None

VARIABLES
    request,   \* what was sent
    rest,      \* what has not been read of the body
    stack,     \* the FieldStorages at work, the outermost first
    outcome    \* None, ok or error

formVars == <<request, rest, stack, outcome>>

-----------------------------------------------------------------------------
(* What a client sends.                                                      *)

Crlf == <<"cr", "lf">>
Ending(b) == IF b = "outer" THEN "outer--" ELSE "inner--"
Header(part) == CHOOSE h \in DOMAIN HeaderFields : HeaderFields[h] = [name |-> part.name, kind |-> part.kind]

\* The parts between boundaries, each with its content.
Multipart(b, parts, contents) ==
    FlattenSeq([i \in DOMAIN parts |->
        <<b>> \o Crlf \o <<Header(parts[i])>> \o Crlf \o Crlf \o contents[i] \o Crlf])
    \o <<Ending(b)>>

Values(parts) == [i \in DOMAIN parts |-> parts[i].value]
Outer(part) ==
    IF part.kind = "multi" THEN Multipart("inner", part.parts, Values(part.parts)) ELSE part.value

Body(r) ==
    CASE r.type = "multi" -> r.preamble \o Multipart("outer", r.parts, [i \in DOMAIN r.parts |-> Outer(r.parts[i])]) \o r.ended
      [] r.type = "single" -> r.parts[1].value
      [] OTHER -> <<>>

-----------------------------------------------------------------------------
(* FieldStorage.__init__                                                     *)

\* parse_qsl: empty values are dropped unless they are to be kept.
Parsed(fields) == IF KeepBlank THEN fields ELSE SelectSeq(fields, LAMBDA f : f.value # <<>>)

TooMany(left) == left # None /\ left < 0
Left(left, n) == IF left = None THEN None ELSE left - n

\* How the content is read: by parts, by the boundary of the outer form, by
\* length, or to its end.
Reading(kind, outer, length) ==
    CASE kind = "multi" -> "preamble"
      [] kind # "multi" /\ length >= 0 -> "binary"
      [] OTHER -> "lines"

NewStorage(header, inner, outer, limit, length, list, left) ==
    [at |-> Reading(header.kind, outer, length), name |-> header.name, kind |-> header.kind,
     innerboundary |-> inner, outerboundary |-> outer,
     limit |-> IF limit = None /\ length >= 0 THEN length ELSE limit, length |-> length,
     bytes_read |-> 0, read |-> 0, list |-> list, left |-> left, text |-> <<>>,
     delim |-> <<>>, lfend |-> TRUE, memory |-> TRUE, value |-> <<>>, done |-> 0]

FormInit ==
    /\ request \in FormRequests /\ rest = Body(request)
    /\ LET query == Parsed(request.query)
           list  == IF request.type = "fields" THEN Parsed(request.fields) \o query ELSE query
           count == IF request.type = "fields" THEN Len(request.fields) + Len(request.query) ELSE Len(request.query)
           over  == MaxFields # None /\ request.type # "single" /\ count > MaxFields
           top   == NewStorage([name |-> None, kind |-> request.type], "outer", None, None,
                               IF request.sized THEN Len(rest) ELSE -1,
                               IF request.type = "single" THEN <<>> ELSE list,
                               Left(MaxFields, Len(query)))
       IN  /\ outcome = IF over THEN "error" ELSE IF request.type = "fields" THEN "ok" ELSE None
           /\ stack = <<top>>

Top == Last(stack)
Reads(at) == outcome = None /\ Top.at = at
Change(s) == stack' = Append(Front(stack), s)

-----------------------------------------------------------------------------
(* Lines                                                                     *)

\* readline: to the end of the line, of the file, or n bytes.
Line(n) ==
    LET ends == {i \in DOMAIN rest : rest[i] = "lf"} \cup {Len(rest), n}
    IN  SubSeq(rest, 1, Min(ends))
Consume(line) == rest' = SubSeq(rest, Len(line) + 1, Len(rest))
WholeLine == Line(Len(rest))

Strip(line) == SelectSeq(line, LAMBDA c : c \notin {"cr", "lf"})
EndsWith(line, s) == IsSuffix(s, line)

-----------------------------------------------------------------------------
(* read_multi                                                                *)

ReadPreamble ==
    /\ Reads("preamble") /\ Consume(WholeLine)
    /\ Change([Top EXCEPT !.bytes_read = @ + Len(WholeLine),
                          !.at = IF WholeLine = <<>> \/ Strip(WholeLine) = <<Top.innerboundary>>
                                 THEN "headers" ELSE "preamble"])
    /\ UNCHANGED <<request, outcome>>

HeaderOf(text) ==
    LET headers == {i \in DOMAIN text : text[i] \in DOMAIN HeaderFields}
    IN  IF headers = {} THEN [name |-> None, kind |-> "field"] ELSE HeaderFields[text[Min(headers)]]

\* Headers are read up to an empty line; then the FieldStorage of the part is
\* made, unless there was nothing.
ReadHeaders ==
    /\ Reads("headers") /\ Consume(WholeLine)
    /\ LET text == Top.text \o WholeLine
           read == Top.bytes_read + Len(text)
       IN  CASE Strip(WholeLine) # <<>> -> Change([Top EXCEPT !.text = text])
             [] text = <<>> -> Change([Top EXCEPT !.at = "skip"])
             [] OTHER ->
                  stack' = Front(stack) \o
                     << [Top EXCEPT !.text = <<>>, !.bytes_read = read, !.at = "part"],
                        NewStorage(HeaderOf(text), "inner", Top.innerboundary,
                                   IF Top.limit = None THEN None ELSE Top.limit - read, -1, <<>>, Top.left) >>
    /\ UNCHANGED <<request, outcome>>

\* What a FieldStorage is for its users.
FieldOf(s) == [name |-> s.name, kind |-> s.kind, value |-> s.value, list |-> s.list]

\* A part is complete, s, and is counted and kept by the form it belongs to,
\* which goes on to the next unless that was the last.
Completed(s) ==
    IF Len(stack) = 1 THEN Change(s) /\ outcome' = "ok"
    ELSE LET form == stack[Len(stack) - 1]
             left == Left(form.left, 1 + Len(s.list))
             read == form.bytes_read + s.bytes_read
             over == s.done # 0 \/ (form.length > 0 /\ read >= form.length)
         IN  /\ outcome' = IF TooMany(left) THEN "error" ELSE None
             /\ stack' = Append(SubSeq(stack, 1, Len(stack) - 2),
                                [form EXCEPT !.left = left, !.bytes_read = read, !.list = Append(@, FieldOf(s)),
                                             !.at = IF over THEN "skip" ELSE "headers"])

-----------------------------------------------------------------------------
(* read_single                                                               *)

\* Bytes are read, and written to a file for text, which raises, as make_file
\* makes a file for bytes only of a field with a file name.
ReadBinary ==
    /\ Reads("binary") /\ UNCHANGED request
    /\ IF Top.length = 0 THEN Completed(Top) /\ UNCHANGED rest
       ELSE \E n \in 1..Min({Top.length, Len(rest)}) :
               /\ Consume(SubSeq(rest, 1, n)) /\ outcome' = "error"
               /\ Change([Top EXCEPT !.bytes_read = n])

\* A half of a character without the other is replaced.
Decoded(line) ==
    [i \in DOMAIN line |->
        CASE line[i] = "u1" /\ (i = Len(line) \/ line[Min({i + 1, Len(line)})] # "u2") -> "bad"
          [] line[i] = "u2" /\ (i = 1 \/ line[Max({i - 1, 1})] # "u1") -> "bad"
          [] OTHER -> line[i]]

\* __write: what does not fit in memory goes to a file, with what was there.
Write(s, line) ==
    [s EXCEPT !.memory = @ /\ Len(s.value) + Len(line) <= Memory,
              !.value = @ \o IF s.kind = "file" THEN line ELSE Decoded(line)]

\* A mutant: wherever a piece of a line begins with the boundary.
AtBoundaryPlain(line, b, lfend) == Strip(line) = <<b>>

\* The boundary on a line of its own.
AtBoundary(line, b, lfend) == lfend /\ Strip(line) = <<b>>

\* read_lines: the end of a line is kept until it is known that the boundary
\* does not follow it.
ReadLine ==
    /\ Reads("lines") /\ UNCHANGED request
    /\ LET piece == Line(Chunk)
           read  == [Top EXCEPT !.bytes_read = @ + Len(piece), !.read = @ + Len(piece)]
           held  == Top.delim = <<"cr">>
           line  == IF held THEN <<"cr">> \o piece ELSE piece
           odelim == IF held THEN <<>> ELSE Top.delim
           delim == CASE EndsWith(line, Crlf) -> Crlf
                      [] EndsWith(line, <<"lf">>) /\ ~EndsWith(line, Crlf) -> <<"lf">>
                      [] EndsWith(line, <<"cr">>) -> <<"cr">>
                      [] OTHER -> <<>>
           text  == odelim \o SubSeq(line, 1, Len(line) - Len(delim))
           inParts == Top.outerboundary # None
       IN  IF inParts /\ Top.limit # None /\ 0 <= Top.limit /\ Top.limit <= Top.read
           THEN Completed(Top) /\ UNCHANGED rest
           ELSE /\ Consume(piece)
                /\ CASE piece = <<>> -> Completed([read EXCEPT !.done = -1])
                     [] piece # <<>> /\ ~inParts -> Change(Write(read, piece)) /\ UNCHANGED outcome
                     [] piece # <<>> /\ inParts /\ AtBoundary(line, Top.outerboundary, Top.lfend) -> Completed(read)
                     [] piece # <<>> /\ inParts /\ AtBoundary(line, Ending(Top.outerboundary), Top.lfend) ->
                           Completed([read EXCEPT !.done = 1])
                     [] OTHER ->
                           /\ Change([Write(read, text) EXCEPT !.delim = delim, !.lfend = EndsWith(delim, <<"lf">>)])
                           /\ UNCHANGED outcome

\* skip_lines: a line counts that ends with two dashes, before its end is taken
\* off, so that only a last boundary at the end of the body is ever found.
SkipLine ==
    /\ Reads("skip") /\ UNCHANGED request
    /\ IF Top.outerboundary = None \/ Top.done # 0 THEN Completed(Top) /\ UNCHANGED rest
       ELSE LET line == Line(Chunk)
                read == [Top EXCEPT !.bytes_read = @ + Len(line)]
            IN  /\ Consume(line)
                /\ CASE line = <<>> -> Completed([read EXCEPT !.done = -1])
                     [] line # <<>> /\ Top.lfend /\ line = <<Ending(Top.outerboundary)>> ->
                           Completed([read EXCEPT !.done = 1])
                     [] OTHER -> Change([read EXCEPT !.lfend = EndsWith(line, <<"lf">>)]) /\ UNCHANGED outcome

FormNext == ReadPreamble \/ ReadHeaders \/ ReadBinary \/ ReadLine \/ SkipLine

FormSpec == FormInit /\ [][FormNext]_formVars

-----------------------------------------------------------------------------
(* What the users of a FieldStorage ask for.                                 *)

Found(list, name) == SelectSeq(list, LAMBDA f : f.name = name)
GetList(list, name) == LET found == Found(list, name) IN [i \in DOMAIN found |-> found[i].value]
Keys(list) == {list[i].name : i \in DOMAIN list}

-----------------------------------------------------------------------------

\* A text keeps all its bytes, except for characters in a long line that a read
\* has cut in two.
SameValue(got, sent) ==
    \/ got = sent
    \/ /\ Len(got) = Len(sent) /\ Len(sent) >= Chunk
       /\ \A i \in DOMAIN got : got[i] = sent[i] \/ (got[i] = "bad" /\ sent[i] \in {"u1", "u2"})

SameValues(got, sent) ==
    Len(got) = Len(sent) /\ \A i \in DOMAIN got : SameValue(got[i], sent[i])

\* What comes after a form inside the form is lost (skip_lines).
Kept(parts) ==
    LET nested == {i \in DOMAIN parts : parts[i].kind = "multi"} \cup {Len(parts)}
    IN  SubSeq(parts, 1, Min(nested))

ValuesSent(fields, name) == LET own == SelectSeq(fields, LAMBDA f : f.name = name /\ f.kind # "multi") IN [i \in DOMAIN own |-> own[i].value]
Leaves(list) == SelectSeq(list, LAMBDA f : f.kind # "multi")
Inside(list) == FlattenSeq([i \in DOMAIN list |-> IF list[i].kind = "multi" THEN list[i].list ELSE <<>>])
InsideSent(parts) == FlattenSeq([i \in DOMAIN parts |-> IF parts[i].kind = "multi" THEN parts[i].parts ELSE <<>>])

\* The fields that were sent, those of the query among them, are found under
\* their names, in order and byte for byte, however their lines are cut by the
\* reads and whatever they hold, except those after a form inside the form; a form
\* is refused only with too many of them, a body that is no form only with content
\* whose length is given, which is bytes that are written as text
\* (field_storage.py 439-467, 504-520, 585-628).
FieldsAsSent ==
    LET sent == Parsed(request.query) \o Kept(request.parts)
        list == stack[1].list
        names == Keys(sent) \cup Keys(InsideSent(sent))
    IN  /\ outcome = "ok" /\ request.type = "multi" =>
             /\ \A name \in names :
                   /\ SameValues(GetList(Leaves(list), name), ValuesSent(sent, name))
                   /\ SameValues(GetList(Inside(list), name), ValuesSent(InsideSent(sent), name))
             /\ Keys(list) = Keys(sent)
             /\ MaxFields # None => Len(sent) + Len(InsideSent(sent)) <= MaxFields
        /\ outcome = "ok" /\ request.type = "single" => SameValue(stack[1].value, request.parts[1].value)
        /\ outcome = "error" =>
             IF request.type = "single" THEN request.sized /\ request.parts[1].value # <<>>
             ELSE MaxFields < IF request.type = "fields" THEN Len(request.fields) + Len(request.query)
                              ELSE Len(request.query) + Len(request.parts) + Len(InsideSent(request.parts))
=============================================================================
