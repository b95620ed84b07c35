------------------------------- MODULE WebTest -------------------------------
(***************************************************************************)
(* A functional test that walks through an application with TestApp          *)
(* (fixture.py): it requests pages, follows redirects, fills in the forms of *)
(* any answer it still has and submits them, while TestApp keeps the cookies *)
(* and checks the answers.                                                   *)
(*                                                                           *)
(* A page is the sequence of its tags, in lower case, whatever is between    *)
(* them being a tag "text".  Tags have type (of an input), name, value and   *)
(* on (checked or selected), where None is an attribute that is not there.   *)
(***************************************************************************)
EXTENDS Integers, Sequences, SequencesExt, FiniteSetsExt, TLC

CONSTANTS
    Page,          \* pages: name -> tags
    Path,          \* paths requests go to
    Methods,       \* methods of requests the test makes itself
    Answers,       \* of the application: [status, page, location, cookies, errors]
    Params,        \* parameters of requests the test makes itself
    Expected,      \* status arguments: None, or a set of statuses, all of them for "*"
    Values,        \* what the test types
    MaxRequests, MaxEdits,
    None

VARIABLES
    namespace,  \* does the TestApp put its answers into a namespace?
    cookies,    \* TestApp.cookies
    response,   \* the answers the test has: [page, url, status, location, forms]
    pending,    \* the request that is being made, or None
    edited,     \* history: <<response, form, field>> -> the value set last
    requests, edits

webtestVars == <<namespace, cookies, response, pending, edited, requests, edits>>

-----------------------------------------------------------------------------
(* TestResponse._parse_forms, Form._parse_fields                             *)

\* A form that starts the page starts at position 0, which counts as none.
IsStarted(i) == i > 1

\* The texts of the forms: from <form> to </form>.  A failed assertion leaves
\* none.
FormTexts(page) ==
    LET step(acc, i) ==
            CASE ~acc.ok -> acc
              [] page[i].tag = "form" -> [acc EXCEPT !.ok = ~IsStarted(acc.started), !.started = i]
              [] page[i].tag = "/form" ->
                    [acc EXCEPT !.ok = IsStarted(acc.started), !.started = 0,
                                !.texts = Append(@, SubSeq(page, acc.started, i - 1))]
              [] OTHER -> acc
        all == FoldLeft(step, [ok |-> TRUE, started |-> 0, texts |-> <<>>], [i \in DOMAIN page |-> i])
    IN  IF all.ok /\ ~IsStarted(all.started) THEN all.texts ELSE <<>>

Option(tag) == [value |-> tag.value, on |-> tag.on]

\* The class of a field: an end tag counts as a start tag, as the slash is
\* compared with bytes; text fields have the value "" unless they are given one.
KindOf(tag) ==
    CASE tag.tag \in {"select", "/select"} -> "select"
      [] tag.tag \in {"textarea", "/textarea"} -> "text"
      [] tag.tag \in {"button", "/button"} -> "submit"
      [] tag.type \in {"text", "hidden"} -> "text"
      [] tag.type \in {"submit", "image", "button"} -> "submit"
      [] tag.type \in {"checkbox", "radio"} -> tag.type
      [] OTHER -> "plain"

NewField(tag) ==
    [kind |-> KindOf(tag), name |-> tag.name, options |-> <<>>, chosen |-> 0, on |-> tag.on,
     value |-> IF KindOf(tag) = "text" /\ tag.value = None THEN "" ELSE tag.value]

\* A mutant: each radio button is a field.
RadioOfPlain(fields, tag) == 0

\* The field that a radio button belongs to.
RadioOf(fields, tag) == SelectInSeq(fields, LAMBDA field : field.name = tag.name)

Failure == [ok |-> FALSE]

\* One tag of a form: the first field of a select or textarea stays open to the
\* end of the form.
ParseTag(acc, tag) ==
    LET fields == acc.fields  radio == RadioOf(fields, tag)
        added == [acc EXCEPT !.fields = Append(@, NewField(tag))]
    IN  CASE tag.tag \in {"option", "/option"} ->
                IF acc.select = 0 THEN Failure
                ELSE [acc EXCEPT !.fields[acc.select].options = Append(@, Option(tag))]
          [] KindOf(tag) = "radio" ->
                IF radio = 0
                THEN [added EXCEPT !.fields[Len(fields) + 1].options = <<Option(tag)>>]
                ELSE IF fields[radio].kind # "radio" THEN Failure
                ELSE [acc EXCEPT !.fields[radio].options = Append(@, Option(tag))]
          [] tag.tag \in {"select", "/select"} ->
                IF acc.select # 0 THEN Failure ELSE [added EXCEPT !.select = Len(fields) + 1]
          [] tag.tag \in {"textarea", "/textarea"} ->
                IF acc.textarea THEN Failure ELSE [added EXCEPT !.textarea = TRUE]
          [] OTHER -> added

Parsed(text) ==
    LET relevant == SelectSeq(Tail(text), LAMBDA tag : tag.tag # "text")
        step(acc, tag) == IF acc.ok THEN ParseTag(acc, tag) ELSE acc
    IN  FoldLeft(step, [ok |-> TRUE, fields |-> <<>>, select |-> 0, textarea |-> FALSE], relevant)

\* _parse_action: of the first tag.
ParsedAction(text) == [action |-> Head(text).value, method |-> Head(text).type]

\* The forms of a page.  One that cannot be parsed raises, but what came before
\* it is there when the test asks again.
Forms(page) ==
    LET texts == FormTexts(page)
        bad == {i \in DOMAIN texts : ~Parsed(texts[i]).ok}
        good == IF bad = {} THEN Len(texts) ELSE Min(bad) - 1
    IN  [i \in 1..good |-> ParsedAction(texts[i]) @@ [fields |-> Parsed(texts[i]).fields]]

-----------------------------------------------------------------------------
(* The fields of a form.                                                     *)

\* Field, Select, Radio, Checkbox and Submit: value.
ValueOf(field) ==
    LET on == SelectInSeq(field.options, LAMBDA option : option.on)
    IN  CASE field.kind = "submit" -> None
          [] field.kind = "checkbox" ->
                IF ~field.on THEN None ELSE IF field.value = None THEN "on" ELSE field.value
          [] field.kind \in {"select", "radio"} ->
                IF field.chosen # 0 THEN field.options[field.chosen].value
                ELSE IF on # 0 THEN field.options[on].value
                ELSE IF field.options = <<>> THEN None ELSE field.options[1].value
          [] OTHER -> field.value

\* The field after its value was set; a value that no option has is refused.
Chosen(field, value) == SelectInSeq(field.options, LAMBDA option : option.value = value)
CanSet(field, value) ==
    CASE field.kind = "submit" -> FALSE
      [] field.kind \in {"select", "radio"} -> Chosen(field, value) # 0
      [] OTHER -> TRUE
Set(field, value) ==
    CASE field.kind = "checkbox" -> [field EXCEPT !.on = value # ""]
      [] field.kind \in {"select", "radio"} -> [field EXCEPT !.chosen = Chosen(field, value)]
      [] OTHER -> [field EXCEPT !.value = value]

Named(fields, name) == {i \in DOMAIN fields : fields[i].name = name}

\* submit_fields: the button that is pressed, then all that have a name and a
\* value; only the order of the fields of one name matters.
SubmitFields(fields, button) ==
    LET filled == SelectSeq(fields, LAMBDA field : field.name # None /\ ValueOf(field) # None)
    IN  (IF button = 0 THEN <<>> ELSE << <<fields[button].name, fields[button].value>> >>)
        \o [i \in DOMAIN filled |-> <<filled[i].name, ValueOf(filled[i])>>]

-----------------------------------------------------------------------------
(* TestApp                                                                   *)

WebTestInit ==
    /\ namespace \in BOOLEAN /\ cookies = [c \in {} |-> None] /\ response = <<>>
    /\ pending = None /\ edited = [e \in {} |-> None] /\ requests = 0 /\ edits = 0

Url(path, query) == [path |-> path, query |-> query]

Idle == pending = None

Start(request) ==
    /\ Idle /\ requests < MaxRequests
    /\ requests' = requests + 1
    /\ pending' = request
    /\ UNCHANGED <<namespace, cookies, response, edited, edits>>

\* get: parameters are added to the query of the URL.
Request(method, url, params, status, expectErrors, of) ==
    [method |-> method, path |-> url.path, cookies |-> cookies, status |-> status,
     expect_errors |-> expectErrors, of |-> of,
     query |-> IF method = "GET" THEN url.query \o params ELSE url.query,
     body |-> IF method = "GET" THEN <<>> ELSE params]

\* get, post, put, delete, head
Ask ==
    \E method \in Methods, path \in Path, params \in Params, status \in Expected, e \in BOOLEAN :
        Start(Request(method, Url(path, <<>>), params, status, e, None))

\* header: an error if it is not there.
HasLocation(r) == response[r].location # None

Follow(r) ==
    /\ response[r].status \in 300..399 /\ HasLocation(r)
    /\ Start(Request("GET", Url(response[r].location, <<>>), <<>>, None, FALSE, None))

\* goto: an action "" is the URL the page came from, with its query.
Resolve(r, href) == IF href = "" THEN response[r].url ELSE Url(href, <<>>)

\* Form.submit, with a button of that name or without one.
Submit(r, f, button) ==
    LET form == response[r].forms[f]
    IN  Start(Request(form.method, Resolve(r, form.action), SubmitFields(form.fields, button), None, FALSE,
                      [response |-> r, form |-> f, button |-> button]))

\* __setitem__, set and select: a name that several fields have needs an index.
Edit(r, f, name, i, value) ==
    LET fields == response[r].forms[f].fields
    IN  /\ Idle /\ edits < MaxEdits /\ edits' = edits + 1
        /\ i \in Named(fields, name) /\ CanSet(fields[i], value)
        /\ response' = [response EXCEPT ![r].forms[f].fields[i] = Set(@, value)]
        /\ edited' = (<<r, f, i>> :> value) @@ edited
        /\ UNCHANGED <<namespace, cookies, pending, requests>>

Reset ==
    /\ Idle /\ cookies' = [c \in {} |-> None]
    /\ UNCHANGED <<namespace, response, pending, edited, requests, edits>>

\* _check_status: no argument means a success or a redirect.
StatusIsExpected(expected, status) ==
    status \in IF expected = None THEN 200..399 ELSE expected

\* do_request, from the call of the application: errors that it logs are raised
\* at once, an unexpected status after the answer went into the namespace and
\* before its cookies are taken.
Answered ==
    \E answer \in Answers :
        LET taken == pending.expect_errors \/ StatusIsExpected(pending.status, answer.status)
            raised == answer.errors /\ ~pending.expect_errors
            res == [page |-> answer.page, url |-> Url(pending.path, pending.query), status |-> answer.status,
                    location |-> answer.location, forms |-> Forms(Page[answer.page])]
        IN  /\ pending # None /\ pending' = None
            /\ response' = IF ~raised /\ (taken \/ namespace) THEN Append(response, res) ELSE response
            /\ cookies' = IF ~raised /\ taken THEN answer.cookies @@ cookies ELSE cookies
            /\ UNCHANGED <<namespace, edited, requests, edits>>

WebTestNext ==
    \/ Ask \/ Reset \/ Answered
    \/ \E r \in DOMAIN response :
          \/ Follow(r)
          \/ \E f \in DOMAIN response[r].forms :
                LET fields == response[r].forms[f].fields
                IN  \/ \E button \in {0} \cup {i \in DOMAIN fields : fields[i].kind = "submit"} : Submit(r, f, button)
                    \/ \E i \in DOMAIN fields, value \in Values : Edit(r, f, fields[i].name, i, value)

WebTestSpec == WebTestInit /\ [][WebTestNext]_webtestVars

-----------------------------------------------------------------------------

\* What the controls of a name show to somebody who reads the page and what was
\* typed into them: the buttons of one radio group, or the options of a list,
\* are one control with one of their values.
Shows(text, edit, name) ==
    LET Heads == {i \in DOMAIN text : /\ text[i].name = name /\ text[i].tag \in {"input", "select", "textarea"}
                                      /\ KindOf(text[i]) # "submit"
                                      /\ KindOf(text[i]) = "radio" =>
                                           \A j \in 1..(i - 1) : KindOf(text[j]) # "radio" \/ text[j].name # name}
        Offered(i) == IF KindOf(text[i]) = "radio"
                      THEN {j \in DOMAIN text : KindOf(text[j]) = "radio" /\ text[j].name = name}
                      ELSE {j \in DOMAIN text : j > i /\ text[j].tag = "option"}
        Default(i) ==
            CASE KindOf(text[i]) \in {"radio", "select"} ->
                    LET on == {j \in Offered(i) : text[j].on}
                    IN  IF Offered(i) = {} THEN None
                        ELSE text[Min(IF on = {} THEN Offered(i) ELSE on)].value
              [] KindOf(text[i]) = "checkbox" ->
                    IF ~text[i].on THEN None ELSE IF text[i].value = None THEN "on" ELSE text[i].value
              [] OTHER -> IF KindOf(text[i]) = "text" /\ text[i].value = None THEN "" ELSE text[i].value
        Typed(i, value) ==
            IF KindOf(text[i]) # "checkbox" THEN value
            ELSE IF value = "" THEN None ELSE IF text[i].value = None THEN "on" ELSE text[i].value
        heads == SetToSortSeq(Heads, <)
        shown == [k \in DOMAIN heads |->
                     IF k \in DOMAIN edit THEN Typed(heads[k], edit[k]) ELSE Default(heads[k])]
    IN  SelectSeq(shown, LAMBDA value : value # None)

\* Whichever answers the test goes back to, and whatever it has typed into other
\* forms since, a submission carries for each name what the controls of its own
\* page show, one value for a radio group or a list, and a button only if it was
\* pressed (fixture.py 960-1020, 1129-1146).
SubmittedAsShown ==
    pending # None /\ pending.of # None =>
        LET r == pending.of.response  f == pending.of.form
            text == FormTexts(Page[response[r].page])[f]
            fields == response[r].forms[f].fields
            sent == IF pending.method = "GET" THEN pending.query ELSE pending.body
            own == SubSeq(sent, Len(sent) - Len(SubmitFields(fields, pending.of.button)) + 1, Len(sent))
            Inputs(name) == SelectSeq([i \in DOMAIN fields |-> i],
                                      LAMBDA i : fields[i].name = name /\ fields[i].kind # "submit")
            Edits(name) == [k \in {k \in DOMAIN Inputs(name) : <<r, f, Inputs(name)[k]>> \in DOMAIN edited} |->
                                edited[<<r, f, Inputs(name)[k]>>]]
            pairs == IF pending.of.button = 0 THEN own ELSE Tail(own)
        IN  \A name \in {text[i].name : i \in DOMAIN text} \ {None} :
                LET these == SelectSeq(pairs, LAMBDA pair : pair[1] = name)
                IN  [k \in DOMAIN these |-> these[k][2]] = Shows(text, Edits(name), name)
=============================================================================
