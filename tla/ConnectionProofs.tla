---------------------------- MODULE ConnectionProofs ----------------------------
(***************************************************************************)
(* Theorems about Connection, for any number of requests, any bodies and   *)
(* any lengths of the answers.                                             *)
(***************************************************************************)
EXTENDS Connection, FiniteSetTheorems, TLAPS

-----------------------------------------------------------------------------
(* The input.                                                              *)

\* The stream s of m tokens: what is left of the current body, u pieces when it has
\* been sent, then the heads of the requests c+1..n in their order, each followed by its
\* body, of size[i] pieces.  Of the last body `left` pieces have yet to be sent.
Present(s, m, c, n) == \A k \in (c + 1)..n : \E i \in 1..m : s[i] = k
Within(s, m, c, n) == \A i \in 1..m : s[i] = 0 \/ (c < s[i] /\ s[i] <= n)
Increasing(s, m) == \A i, j \in 1..m : i < j /\ s[i] > 0 /\ s[j] > 0 => s[i] < s[j]
First(s, m, c, u) == \A i \in 1..m : s[i] = c + 1 => i = u + 1
Gaps(s, m, size) ==
    \A i, j \in 1..m : s[i] > 0 /\ s[j] = s[i] + 1 => j = i + size[s[i]] + 1
End(s, m, c, n, size, u, left) ==
    /\ c = n => m = u - left
    /\ c < n => \A i \in 1..m : s[i] = n => m = i + size[n] - left
Layout(s, m, c, n, size, u, left) ==
    /\ Present(s, m, c, n) /\ Within(s, m, c, n) /\ Increasing(s, m)
    /\ First(s, m, c, u) /\ Gaps(s, m, size) /\ End(s, m, c, n, size, u, left)


Size == [n \in 1..Len(asked) |-> asked[n].body]

\* As long as no application reads without a limit, the input is in this order, and a
\* read that has begun is one of the current body.
InputInOrder ==
    /\ unread \in 0..MaxBody
    /\ wanted \in 0..MaxBody \cup {None}
    /\ wanted # None => wanted <= unread
    /\ current = 0 => unread = 0
    /\ Layout(incoming, Len(incoming), current, Len(asked), Size, unread, bodyLeft)

InputOK ==
    /\ asked \in Seq(Request) /\ Len(asked) <= MaxSent
    /\ bodyLeft \in 0..MaxBody
    /\ incoming \in Seq(0..MaxSent)
    /\ \A i \in 1..Len(incoming) : incoming[i] <= Len(asked)
    /\ current \in 0..Len(asked)
    /\ unread \in Int /\ unread <= MaxBody
    /\ wanted \in 0..MaxBody \cup {ToTheEnd, ToTheLineEnd, None}
    /\ unlimited \in BOOLEAN
    /\ unlimited => current # 0
    /\ ~unlimited => InputInOrder

-----------------------------------------------------------------------------
(* The output.                                                             *)

Token == [kind : {"continue", "head", "chunk"}, of : 0..MaxSent,
          length : 0..MaxChunk \cup {None}]

Heads(s) == {i \in DOMAIN s : s[i].kind = "head"}
UpTo(s, i) == {h \in Heads(s) : h <= i}
IsLast(s, i) == \A h \in Heads(s) : h <= i
After(s, i) == {j \in DOMAIN s : /\ j > i /\ s[j].kind = "chunk"
                                 /\ ~ \E h \in Heads(s) : i < h /\ h < j}

\* n answers, the answers to the requests 1..n, unless u, each but the last one
\* complete.
Ordered(s, n, u) ==
    /\ u \/ Cardinality(Heads(s)) = n
    /\ \A i \in Heads(s) : /\ u \/ s[i].of = Cardinality(UpTo(s, i))
                           /\ ~IsLast(s, i) => Cardinality(After(s, i)) = s[i].length

\* The last answer announces a length of l and has w chunks.
LastIs(s, l, w) ==
    \A i \in Heads(s) : IsLast(s, i) => s[i].length = l /\ Cardinality(After(s, i)) = w

Complete(s) == \A i \in Heads(s) : Cardinality(After(s, i)) = s[i].length

\* What AnswersInOrder says of a stream.
InOrder(s, u) ==
    \A i \in Heads(s) :
        /\ u \/ s[i].of = Cardinality(UpTo(s, i)) \/ (s[i].of = 0 /\ IsLast(s, i))
        /\ s[i].length # None => Cardinality(After(s, i)) <= s[i].length
        /\ ~IsLast(s, i) => Cardinality(After(s, i)) = s[i].length

\* What is written of the current answer.
AnswerOK ==
    /\ headers_sent =>
          /\ Ordered(out, current, unlimited)
          /\ LastIs(out, curr_headers.length, written)
          /\ curr_headers.length # None => written <= curr_headers.length
          /\ curr_headers.length = None => close_connection
    /\ ~headers_sent => Ordered(out, current - 1, unlimited) /\ Complete(out)

\* While the client listens, the stream has the answers to the requests so far, and a
\* connection that goes on has them complete.
StreamOK ==
    /\ clientClosed \/ pc \in {"done", "closed"} => InOrder(out, unlimited)
    /\ ~clientClosed =>
          /\ exc # "oserror"
          /\ pc = "request" \/ (pc = "done" /\ ~close_connection)
                => Ordered(out, current, unlimited) /\ Complete(out)
          /\ pc \in {"app", "iterating", "closing", "except"} => AnswerOK
          /\ pc = "closing" /\ exc = "none" =>
                headers_sent /\ curr_headers.length \in {None, written}

OutputTypes ==
    /\ out \in Seq(Token)
    /\ pc \in {"request", "app", "iterating", "closing", "except", "done", "closed"}
    /\ current = 0 => pc \in {"request", "closed"}
    /\ curr_headers \in Headers \cup {None}
    /\ headers_sent => curr_headers # None
    /\ written \in 0..MaxChunk /\ (written > 0 => headers_sent)
    /\ exc \in {"none", "error", "oserror", "base"}
    /\ exc # "none" => pc \in {"closing", "except"}

Flags ==
    /\ protocol11 \in BOOLEAN /\ clientClosed \in BOOLEAN
    /\ close_connection \in BOOLEAN
    /\ headers_sent \in BOOLEAN /\ hooked \in BOOLEAN

ConnectionInv == InputOK /\ OutputTypes /\ Flags


-----------------------------------------------------------------------------
(* What is added to the stream and taken from it.                          *)

\* A head is sent after the whole body before it.
LEMMA NextHeadSent ==
    ASSUME NEW m \in Nat, NEW s \in [1..m -> Nat], NEW t \in [1..(m + 1) -> Nat],
           NEW n \in Nat, NEW c \in Nat, c <= n, NEW u \in Nat,
           NEW size \in [1..n -> Nat], NEW size2 \in [1..(n + 1) -> Nat],
           \A i \in 1..m : t[i] = s[i], t[m + 1] = n + 1,
           \A i \in 1..n : size2[i] = size[i],
           Layout(s, m, c, n, size, u, 0)
    PROVE  Layout(t, m + 1, c, n + 1, size2, u, size2[n + 1])
<1>1. Present(t, m + 1, c, n + 1)
  BY DEF Present, Layout
<1>2. Within(t, m + 1, c, n + 1)
  <2>1. ASSUME NEW i \in 1..(m + 1)
        PROVE  t[i] = 0 \/ (c < t[i] /\ t[i] <= n + 1)
    <3>1. CASE i = m + 1
      BY <3>1
    <3>2. CASE i # m + 1
      <4>1. i \in 1..m /\ t[i] = s[i] /\ s[i] \in Nat
        BY <3>2
      <4>2. s[i] = 0 \/ (c < s[i] /\ s[i] <= n)
        BY <4>1 DEF Layout, Within
      <4>3. QED
        BY <4>1, <4>2
    <3>3. QED
      BY <3>1, <3>2
  <2>2. QED
    BY <2>1 DEF Within
<1>3. Increasing(t, m + 1)
  <2>1. ASSUME NEW i \in 1..(m + 1), NEW j \in 1..(m + 1), i < j, t[i] > 0, t[j] > 0
        PROVE  t[i] < t[j]
    <3>1. i \in 1..m /\ t[i] = s[i] /\ s[i] \in Nat /\ s[i] > 0
      BY <2>1
    <3>2. CASE j = m + 1
      <4>1. s[i] <= n
        BY <3>1 DEF Layout, Within
      <4>2. QED
        BY <3>1, <3>2, <4>1
    <3>3. CASE j # m + 1
      BY <3>1, <3>3, <2>1 DEF Layout, Increasing
    <3>4. QED
      BY <3>2, <3>3
  <2>2. QED
    BY <2>1 DEF Increasing
<1>4. First(t, m + 1, c, u)
  <2>1. ASSUME NEW i \in 1..(m + 1), t[i] = c + 1
        PROVE  i = u + 1
    <3>1. CASE i = m + 1
      BY <3>1, <2>1 DEF Layout, End
    <3>2. CASE i # m + 1
      <4>1. i \in 1..m /\ s[i] = c + 1
        BY <2>1, <3>2
      <4>2. QED
        BY <4>1 DEF Layout, First
    <3>3. QED
      BY <3>1, <3>2
  <2>2. QED
    BY <2>1 DEF First
<1>5. Gaps(t, m + 1, size2)
  <2>1. ASSUME NEW i \in 1..(m + 1), NEW j \in 1..(m + 1), t[i] > 0, t[j] = t[i] + 1
        PROVE  j = i + size2[t[i]] + 1
    <3>1. i # m + 1
      <4>1. SUFFICES ASSUME i = m + 1 PROVE FALSE
        OBVIOUS
      <4>2. j \in 1..m /\ s[j] = n + 2
        BY <2>1, <4>1
      <4>3. s[j] = 0 \/ s[j] <= n
        BY <4>2 DEF Layout, Within
      <4>4. QED
        BY <4>2, <4>3
    <3>2. i \in 1..m /\ s[i] = t[i] /\ s[i] \in 1..n /\ size2[s[i]] = size[s[i]]
          /\ size[s[i]] \in Nat
      BY <2>1, <3>1 DEF Layout, Within
    <3>3. CASE j = m + 1
      <4>1. s[i] = n
        BY <2>1, <3>2, <3>3
      <4>2. c < s[i]
        BY <3>2 DEF Layout, Within
      <4>3. m = i + size[n] - 0
        BY <3>2, <4>1, <4>2 DEF Layout, End
      <4>4. QED
        BY <3>2, <3>3, <4>1, <4>3
    <3>4. CASE j # m + 1
      <4>1. j \in 1..m /\ s[j] = s[i] + 1
        BY <2>1, <3>2, <3>4
      <4>2. j = i + size[s[i]] + 1
        BY <2>1, <3>2, <4>1 DEF Layout, Gaps
      <4>3. QED
        BY <3>2, <4>2
    <3>5. QED
      BY <3>3, <3>4
  <2>2. QED
    BY <2>1 DEF Gaps
<1>6. End(t, m + 1, c, n + 1, size2, u, size2[n + 1])
  <2>1. ASSUME NEW i \in 1..(m + 1), t[i] = n + 1
        PROVE  m + 1 = i + size2[n + 1] - size2[n + 1]
    <3>1. i = m + 1
      BY <2>1 DEF Layout, Within
    <3>2. QED
      BY <3>1
  <2>2. QED
    BY <2>1 DEF End
<1>7. QED
  BY <1>1, <1>2, <1>3, <1>4, <1>5, <1>6 DEF Layout

\* A piece of the last body is sent.
LEMMA BodySent ==
    ASSUME NEW m \in Nat, NEW s \in [1..m -> Nat], NEW t \in [1..(m + 1) -> Nat],
           NEW n \in Nat, NEW c \in Nat, c <= n, NEW u \in Nat,
           NEW size \in [1..n -> Nat], NEW left \in Nat,
           \A i \in 1..m : t[i] = s[i], t[m + 1] = 0,
           Layout(s, m, c, n, size, u, left + 1)
    PROVE  Layout(t, m + 1, c, n, size, u, left)
<1>1. ASSUME NEW i \in 1..(m + 1), t[i] > 0
      PROVE  i \in 1..m /\ s[i] = t[i]
  BY <1>1
<1>2. Present(t, m + 1, c, n)
  BY DEF Present, Layout
<1>3. Within(t, m + 1, c, n)
  <2>1. ASSUME NEW i \in 1..(m + 1), t[i] # 0
        PROVE  c < t[i] /\ t[i] <= n
    BY <1>1, <2>1 DEF Layout, Within
  <2>2. QED
    BY <2>1 DEF Within
<1>4. Increasing(t, m + 1)
  BY <1>1 DEF Layout, Increasing
<1>5. First(t, m + 1, c, u)
  BY <1>1 DEF Layout, First
<1>6. Gaps(t, m + 1, size)
  <2>1. ASSUME NEW i \in 1..(m + 1), NEW j \in 1..(m + 1), t[i] > 0, t[j] = t[i] + 1
        PROVE  j = i + size[t[i]] + 1
    <3>1. i \in 1..m /\ s[i] = t[i] /\ j \in 1..m /\ s[j] = t[j]
      BY <1>1, <2>1
    <3>2. QED
      BY <2>1, <3>1 DEF Layout, Gaps
  <2>2. QED
    BY <2>1 DEF Gaps
<1>7. End(t, m + 1, c, n, size, u, left)
  <2>1. CASE c = n
    BY <2>1 DEF Layout, End
  <2>2. CASE c < n
    <3>1. PICK x \in Nat : x = size[n]
      BY <2>2
    <3>2. ASSUME NEW i \in 1..(m + 1), t[i] = n
          PROVE  m + 1 = i + size[n] - left
      <4>1. i \in 1..m /\ s[i] = n
        BY <1>1, <2>2, <3>2
      <4>2. m = i + x - (left + 1)
        BY <2>2, <3>1, <4>1 DEF Layout, End
      <4>3. m + 1 = i + x - left
        BY <4>1, <4>2
      <4>4. QED
        BY <3>1, <4>3
    <3>3. QED
      BY <2>2, <3>2 DEF End
  <2>3. QED
    BY <2>1, <2>2
<1>8. QED
  BY <1>2, <1>3, <1>4, <1>5, <1>6, <1>7 DEF Layout

\* Only the sizes of the bodies ahead matter.
LEMMA SizesAhead ==
    ASSUME NEW m \in Nat, NEW s \in [1..m -> Nat], NEW n \in Nat, NEW c \in Nat, c <= n,
           NEW u, NEW left, NEW size, NEW size2,
           \A i \in (c + 1)..n : size2[i] = size[i],
           Layout(s, m, c, n, size, u, left)
    PROVE  Layout(s, m, c, n, size2, u, left)
<1>1. Gaps(s, m, size2)
  <2>1. ASSUME NEW i \in 1..m, NEW j \in 1..m, s[i] > 0, s[j] = s[i] + 1
        PROVE  j = i + size2[s[i]] + 1
    <3>1. s[i] \in (c + 1)..n
      BY <2>1 DEF Layout, Within
    <3>2. j = i + size[s[i]] + 1
      BY <2>1 DEF Layout, Gaps
    <3>3. QED
      BY <3>1, <3>2
  <2>2. QED
    BY <2>1 DEF Gaps
<1>2. End(s, m, c, n, size2, u, left)
  <2>1. CASE c = n
    BY <2>1 DEF Layout, End
  <2>2. CASE c < n
    <3>1. size2[n] = size[n]
      BY <2>2
    <3>2. QED
      BY <2>2, <3>1 DEF Layout, End
  <2>3. QED
    BY <2>1, <2>2
<1>3. QED
  BY <1>1, <1>2 DEF Layout

\* A read takes no more than what is left of the body: every head stays.
LEMMA BodyRead ==
    ASSUME NEW m \in Nat, NEW k \in 0..m, NEW s \in [1..m -> Nat],
           NEW t \in [1..(m - k) -> Nat],
           NEW n \in Nat, NEW c \in Nat, c <= n, NEW u \in Nat, k <= u,
           NEW size \in [1..n -> Nat], NEW left \in Nat,
           \A i \in 1..(m - k) : t[i] = s[i + k],
           Layout(s, m, c, n, size, u, left)
    PROVE  Layout(t, m - k, c, n, size, u - k, left)
<1>1. ASSUME NEW i \in 1..m, s[i] > 0
      PROVE  i - k \in 1..(m - k) /\ t[i - k] = s[i]
  <2>1. c < s[i] /\ s[i] <= n
    BY <1>1 DEF Layout, Within
  <2>2. PICK j \in 1..m : s[j] = c + 1
    BY <2>1 DEF Layout, Present
  <2>3. j = u + 1
    BY <2>2 DEF Layout, First
  <2>4. j <= i
    <3>1. i < j => s[i] < s[j]
      BY <2>2, <1>1 DEF Layout, Increasing
    <3>2. QED
      BY <2>1, <2>2, <3>1
  <2>5. i - k \in 1..(m - k)
    BY <2>3, <2>4
  <2>6. QED
    BY <2>5
<1>2. ASSUME NEW i \in 1..(m - k)
      PROVE  i + k \in 1..m /\ t[i] = s[i + k]
  OBVIOUS
<1>3. Present(t, m - k, c, n)
  <2>1. ASSUME NEW h \in Nat, c < h, h <= n
        PROVE  \E i \in 1..(m - k) : t[i] = h
    <3>1. PICK i \in 1..m : s[i] = h
      BY <2>1 DEF Layout, Present
    <3>2. QED
      BY <1>1, <2>1, <3>1
  <2>2. QED
    BY <2>1 DEF Present
<1>4. Within(t, m - k, c, n)
  BY <1>2 DEF Layout, Within
<1>5. Increasing(t, m - k)
  <2>1. ASSUME NEW i \in 1..(m - k), NEW j \in 1..(m - k), i < j, t[i] > 0, t[j] > 0
        PROVE  t[i] < t[j]
    <3>1. i + k < j + k
      BY <2>1
    <3>2. QED
      BY <1>2, <2>1, <3>1 DEF Layout, Increasing
  <2>2. QED
    BY <2>1 DEF Increasing
<1>6. First(t, m - k, c, u - k)
  <2>1. ASSUME NEW i \in 1..(m - k), t[i] = c + 1
        PROVE  i = u - k + 1
    <3>1. i + k = u + 1
      BY <1>2, <2>1 DEF Layout, First
    <3>2. QED
      BY <3>1
  <2>2. QED
    BY <2>1 DEF First
<1>7. Gaps(t, m - k, size)
  <2>1. ASSUME NEW i \in 1..(m - k), NEW j \in 1..(m - k), t[i] > 0, t[j] = t[i] + 1
        PROVE  j = i + size[t[i]] + 1
    <3>1. /\ i + k \in 1..m /\ s[i + k] = t[i]
          /\ j + k \in 1..m /\ s[j + k] = t[j]
      BY <1>2
    <3>2. t[i] = 0 \/ t[i] <= n
      BY <3>1 DEF Layout, Within
    <3>3. PICK x \in Nat : x = size[t[i]]
      BY <2>1, <3>2
    <3>4. j + k = (i + k) + x + 1
      BY <2>1, <3>1, <3>3 DEF Layout, Gaps
    <3>5. j = i + x + 1
      BY <3>4
    <3>6. QED
      BY <3>3, <3>5
  <2>2. QED
    BY <2>1 DEF Gaps
<1>8. End(t, m - k, c, n, size, u - k, left)
  <2>1. CASE c = n
    BY <2>1 DEF Layout, End
  <2>2. CASE c < n
    <3>1. size[n] \in Nat
      BY <2>2
    <3>2. ASSUME NEW i \in 1..(m - k), t[i] = n
          PROVE  m - k = i + size[n] - left
      <4>1. m = (i + k) + size[n] - left
        BY <1>2, <2>2, <3>2 DEF Layout, End
      <4>2. QED
        BY <3>1, <4>1
    <3>3. QED
      BY <2>2, <3>2 DEF End
  <2>3. QED
    BY <2>1, <2>2
<1>9. QED
  BY <1>3, <1>4, <1>5, <1>6, <1>7, <1>8 DEF Layout

\* A head at the front of the stream is that of the next request, and its body is
\* what comes before the head after it.
LEMMA HeadRead ==
    ASSUME NEW m \in Nat, NEW s \in [1..(m + 1) -> Nat], NEW t \in [1..m -> Nat],
           NEW n \in Nat, NEW c \in Nat, c <= n, NEW u \in Nat,
           NEW size \in [1..n -> Nat], NEW left \in Nat,
           \A i \in 1..m : t[i] = s[i + 1], s[1] > 0,
           Layout(s, m + 1, c, n, size, u, left)
    PROVE  /\ s[1] = c + 1 /\ c < n
           /\ Layout(t, m, c + 1, n, size, size[c + 1], left)
<1>1. s[1] = c + 1 /\ c < n
  <2>1. 1 \in 1..(m + 1) /\ s[1] \in Nat
    OBVIOUS
  <2>2. c < s[1] /\ s[1] <= n
    BY <2>1 DEF Layout, Within
  <2>3. PICK i \in 1..(m + 1) : s[i] = c + 1
    BY <2>1, <2>2 DEF Layout, Present
  <2>4. ~(1 < i)
    <3>1. 1 < i => s[1] < s[i]
      BY <2>1, <2>2, <2>3 DEF Layout, Increasing
    <3>2. QED
      BY <2>1, <2>2, <2>3, <3>1
  <2>5. QED
    BY <2>1, <2>2, <2>3, <2>4
<1>2. ASSUME NEW i \in 1..m
      PROVE  i + 1 \in 1..(m + 1) /\ t[i] = s[i + 1]
  OBVIOUS
<1>3. Present(t, m, c + 1, n)
  <2>1. ASSUME NEW h \in Nat, c + 1 < h, h <= n
        PROVE  \E i \in 1..m : t[i] = h
    <3>1. PICK i \in 1..(m + 1) : s[i] = h
      BY <2>1 DEF Layout, Present
    <3>2. i - 1 \in 1..m /\ s[(i - 1) + 1] = h
      BY <1>1, <2>1, <3>1
    <3>3. QED
      BY <1>2, <3>2
  <2>2. QED
    BY <2>1 DEF Present
<1>4. Within(t, m, c + 1, n)
  <2>1. ASSUME NEW i \in 1..m, t[i] # 0
        PROVE  c + 1 < t[i] /\ t[i] <= n
    <3>1. i + 1 \in 1..(m + 1) /\ s[i + 1] = t[i] /\ 1 < i + 1 /\ 1 \in 1..(m + 1)
      BY <1>2
    <3>2. s[i + 1] <= n
      BY <2>1, <3>1 DEF Layout, Within
    <3>3. s[1] < s[i + 1]
      BY <2>1, <3>1 DEF Layout, Increasing
    <3>4. QED
      BY <1>1, <3>1, <3>2, <3>3
  <2>2. QED
    BY <2>1 DEF Within
<1>5. Increasing(t, m)
  <2>1. ASSUME NEW i \in 1..m, NEW j \in 1..m, i < j, t[i] > 0, t[j] > 0
        PROVE  t[i] < t[j]
    <3>1. i + 1 < j + 1
      BY <2>1
    <3>2. QED
      BY <1>2, <2>1, <3>1 DEF Layout, Increasing
  <2>2. QED
    BY <2>1 DEF Increasing
<1>6. First(t, m, c + 1, size[c + 1])
  <2>1. ASSUME NEW i \in 1..m, t[i] = c + 1 + 1
        PROVE  i = size[c + 1] + 1
    <3>1. i + 1 \in 1..(m + 1) /\ 1 \in 1..(m + 1) /\ s[i + 1] = s[1] + 1
      BY <1>1, <1>2, <2>1
    <3>2. i + 1 = 1 + size[s[1]] + 1
      BY <3>1 DEF Layout, Gaps
    <3>3. size[c + 1] \in Nat
      BY <1>1
    <3>4. QED
      BY <1>1, <3>2, <3>3
  <2>2. QED
    BY <2>1 DEF First
<1>7. Gaps(t, m, size)
  <2>1. ASSUME NEW i \in 1..m, NEW j \in 1..m, t[i] > 0, t[j] = t[i] + 1
        PROVE  j = i + size[t[i]] + 1
    <3>1. /\ i + 1 \in 1..(m + 1) /\ s[i + 1] = t[i]
          /\ j + 1 \in 1..(m + 1) /\ s[j + 1] = t[j]
      BY <1>2
    <3>2. t[i] = 0 \/ t[i] <= n
      BY <3>1 DEF Layout, Within
    <3>3. PICK x \in Nat : x = size[t[i]]
      <4>1. t[i] \in Nat
        OBVIOUS
      <4>2. \A x \in Nat : x > 0 /\ (x = 0 \/ x <= n) => x \in 1..n
        OBVIOUS
      <4>3. t[i] \in 1..n
        BY <2>1, <3>2, <4>1, <4>2, Zenon
      <4>4. QED
        BY <4>3
    <3>4. j + 1 = (i + 1) + x + 1
      BY <2>1, <3>1, <3>3 DEF Layout, Gaps
    <3>5. j = i + x + 1
      BY <3>4
    <3>6. QED
      BY <3>3, <3>5
  <2>2. QED
    BY <2>1 DEF Gaps
<1>8. End(t, m, c + 1, n, size, size[c + 1], left)
  <2>1. PICK x \in Nat : x = size[n]
    BY <1>1
  <2>2. CASE c + 1 = n
    <3>1. 1 \in 1..(m + 1) /\ s[1] = n
      BY <1>1, <2>2
    <3>2. m + 1 = 1 + size[n] - left
      BY <1>1, <3>1 DEF Layout, End
    <3>3. m = size[c + 1] - left
      BY <2>1, <2>2, <3>2
    <3>4. QED
      BY <2>2, <3>3 DEF End
  <2>3. CASE c + 1 < n
    <3>1. ASSUME NEW i \in 1..m, t[i] = n
          PROVE  m = i + size[n] - left
      <4>1. m + 1 = (i + 1) + x - left
        BY <1>1, <1>2, <2>1, <3>1 DEF Layout, End
      <4>2. m = i + x - left
        BY <4>1
      <4>3. QED
        BY <2>1, <4>2
    <3>2. QED
      BY <2>3, <3>1 DEF End
  <2>4. QED
    BY <1>1, <2>2, <2>3
<1>9. QED
  BY <1>1, <1>3, <1>4, <1>5, <1>6, <1>7, <1>8 DEF Layout

-----------------------------------------------------------------------------
(* Every step keeps the input in order.                                    *)

\* The types of the input, as the lemmas about streams need them.
LEMMA InputTypes ==
    ASSUME InputOK
    PROVE  /\ Len(asked) \in Nat /\ current \in Nat /\ current <= Len(asked)
           /\ Len(asked) <= MaxSent
           /\ unread \in Int /\ bodyLeft \in Nat
           /\ Len(incoming) \in Nat /\ incoming \in [1..Len(incoming) -> Nat]
           /\ Size \in [1..Len(asked) -> Nat]
           /\ \A n \in 1..Len(asked) : Size[n] = asked[n].body /\ Size[n] \in 0..MaxBody
<1>1. /\ Len(asked) \in Nat /\ current \in Nat /\ current <= Len(asked)
      /\ Len(asked) <= MaxSent /\ unread \in Int /\ bodyLeft \in Nat
  BY ConnectionAssumption DEF InputOK
<1>2. Len(incoming) \in Nat /\ incoming \in [1..Len(incoming) -> Nat]
  BY ConnectionAssumption DEF InputOK
<1>3. \A n \in 1..Len(asked) : asked[n].body \in 0..MaxBody
  <2>1. \A n \in 1..Len(asked) : asked[n] \in Request
    BY DEF InputOK
  <2>2. \A request \in Request : request.body \in 0..MaxBody
    BY DEF Request
  <2>3. QED
    BY <2>1, <2>2
<1>4. QED
  BY <1>1, <1>2, <1>3, ConnectionAssumption DEF Size

\* Types are kept by what changes none of them.
LEMMA InputTypesKept ==
    ASSUME InputOK,
           asked' \in Seq(Request), Len(asked') <= MaxSent, Len(asked) <= Len(asked'),
           bodyLeft' \in 0..MaxBody, incoming' \in Seq(0..MaxSent),
           \A i \in 1..Len(incoming') : incoming'[i] <= Len(asked'),
           current' \in 0..Len(asked'), unread' \in Int, unread' <= MaxBody,
           wanted' \in 0..MaxBody \cup {ToTheEnd, ToTheLineEnd, None},
           unlimited' \in BOOLEAN, unlimited' => current' # 0, ~unlimited' => InputInOrder'
    PROVE  InputOK'
  BY DEF InputOK

\* A request that is forgotten leaves the others as they are.
LEMMA ForgetFacts ==
    ASSUME NEW s \in Seq(Request), NEW n \in Nat
    PROVE  /\ Forget(s, n) \in Seq(Request) /\ Len(Forget(s, n)) = Len(s)
           /\ \A i \in 1..Len(s) : i # n => Forget(s, n)[i] = s[i]
<1>1. Past \in Request
  BY ConnectionAssumption DEF Past, Request
<1>2. \A i \in 1..Len(s) : s[i] \in Request
  OBVIOUS
<1>3. Forget(s, n) = [i \in 1..Len(s) |-> IF i = n THEN Past ELSE s[i]]
  BY DEF Forget
<1>4. Forget(s, n) \in [1..Len(s) -> Request]
  BY <1>1, <1>2, <1>3
<1>5. Len(s) \in Nat
  OBVIOUS
<1>6. Forget(s, n) \in Seq(Request) /\ Len(Forget(s, n)) = Len(s)
  BY <1>4, <1>5
<1>7. QED
  BY <1>3, <1>6

\* The client sends the head of a request.
LEMMA InputAfterHead ==
    ASSUME InputOK, NEW request \in Request, SendHead(request)
    PROVE  InputOK'
<1> DEFINE n == Len(asked)
           m == Len(incoming)
           past == Forget(asked, current)
           sizes == [i \in 1..n |-> past[i].body]
<1>1. /\ asked' = Append(past, request) /\ incoming' = Append(incoming, n + 1)
      /\ bodyLeft = 0 /\ bodyLeft' = request.body /\ n < MaxSent
      /\ UNCHANGED <<current, unread, wanted, unlimited>>
  BY DEF SendHead, inputVars
<1>2. asked \in Seq(Request) /\ incoming \in Seq(0..MaxSent)
      /\ request.body \in 0..MaxBody
      /\ MaxSent \in Nat /\ n + 1 \in 0..MaxSent /\ n \in Nat /\ m \in Nat
      /\ current \in 0..n
  BY <1>1, InputTypes, ConnectionAssumption DEF InputOK, Request
<1>3. /\ past \in Seq(Request) /\ Len(past) = n
      /\ \A i \in (current + 1)..n : past[i] = asked[i]
  BY <1>2, ForgetFacts
<1> HIDE DEF past
<1>4. /\ asked' \in Seq(Request) /\ Len(asked') = n + 1 /\ asked'[n + 1] = request
      /\ \A i \in 1..n : asked'[i] = past[i]
  BY <1>1, <1>2, <1>3
<1>5. /\ incoming' \in Seq(0..MaxSent) /\ Len(incoming') = m + 1
      /\ incoming'[m + 1] = n + 1
      /\ \A i \in 1..m : incoming'[i] = incoming[i]
  BY <1>1, <1>2
<1>6. incoming' \in [1..(m + 1) -> Nat]
  BY <1>2, <1>5
<1>7. \A i \in 1..(n + 1) : asked'[i].body \in Nat
  <2>1. \A i \in 1..(n + 1) : asked'[i] \in Request
    BY <1>2, <1>4
  <2>2. \A r \in Request : r.body \in Nat
    BY ConnectionAssumption DEF Request
  <2>3. QED
    BY <2>1, <2>2
<1>8. /\ Size' \in [1..(n + 1) -> Nat] /\ Size'[n + 1] = request.body
      /\ sizes \in [1..n -> Nat]
      /\ \A i \in 1..n : Size'[i] = sizes[i]
      /\ \A i \in (current + 1)..n : sizes[i] = Size[i]
  <2>1. Size' = [i \in 1..(n + 1) |-> asked'[i].body]
    BY <1>4 DEF Size
  <2>2. \A i \in 1..n : i \in 1..(n + 1) /\ past[i].body = asked'[i].body
    BY <1>2, <1>4
  <2>3. \A i \in (current + 1)..n : i \in 1..n /\ Size[i] = asked[i].body
    BY <1>2 DEF Size
  <2>4. QED
    BY <1>2, <1>3, <1>4, <1>7, <2>1, <2>2, <2>3
<1> HIDE DEF sizes
<1>9. ASSUME ~unlimited
      PROVE  InputInOrder'
  <2>1. Layout(incoming, m, current, n, Size, unread, 0) /\ InputInOrder /\ unread \in Nat
    BY <1>1, <1>9, ConnectionAssumption DEF InputOK, InputInOrder
  <2>2. Layout(incoming, m, current, n, sizes, unread, 0)
    BY <1>8, <2>1, InputTypes, SizesAhead
  <2>3. Layout(incoming', m + 1, current, n + 1, Size', unread, Size'[n + 1])
    BY <1>5, <1>6, <1>8, <2>1, <2>2, InputTypes, NextHeadSent
  <2>4. Layout(incoming', Len(incoming'), current', Len(asked'), Size', unread', bodyLeft')
    BY <1>1, <1>4, <1>5, <1>8, <2>3
  <2>5. QED
    BY <1>1, <2>1, <2>4 DEF InputInOrder
<1>10. \A i \in 1..Len(incoming') : incoming'[i] <= Len(asked')
  <2>1. ASSUME NEW i \in 1..(m + 1)
        PROVE  incoming'[i] <= n + 1
    <3>1. CASE i = m + 1
      BY <1>2, <1>5, <3>1
    <3>2. CASE i # m + 1
      <4>1. i \in 1..m /\ incoming[i] \in Nat
        BY <1>2, <3>2, InputTypes
      <4>2. incoming[i] <= n
        BY <4>1 DEF InputOK
      <4>3. QED
        BY <1>2, <1>5, <4>1, <4>2
    <3>3. QED
      BY <3>1, <3>2
  <2>2. QED
    BY <1>4, <1>5, <2>1
<1>11. /\ current' \in 0..Len(asked') /\ Len(asked') <= MaxSent
       /\ Len(asked) <= Len(asked') /\ bodyLeft' \in 0..MaxBody
  BY <1>1, <1>2, <1>4
<1>12. /\ unread' \in Int /\ unread' <= MaxBody /\ unlimited' \in BOOLEAN
       /\ wanted' \in 0..MaxBody \cup {ToTheEnd, ToTheLineEnd, None}
       /\ unlimited' => current' # 0
       /\ ~unlimited' => InputInOrder'
  BY <1>1, <1>9 DEF InputOK
<1>13. QED
  BY <1>4, <1>5, <1>10, <1>11, <1>12, InputTypesKept

\* The client sends a piece of a body.
LEMMA InputAfterBody ==
    ASSUME InputOK, SendBody
    PROVE  InputOK'
<1> DEFINE m == Len(incoming)
<1>1. /\ incoming' = Append(incoming, 0) /\ bodyLeft > 0 /\ bodyLeft' = bodyLeft - 1
      /\ UNCHANGED <<asked, current, unread, wanted, unlimited>>
  BY DEF SendBody, inputVars
<1>2. incoming \in Seq(0..MaxSent) /\ MaxSent \in Nat
  BY ConnectionAssumption DEF InputOK
<1>3. /\ incoming' \in Seq(0..MaxSent) /\ Len(incoming') = m + 1 /\ incoming'[m + 1] = 0
      /\ \A i \in 1..m : incoming'[i] = incoming[i]
  BY <1>1, <1>2
<1>4. incoming' \in [1..(m + 1) -> Nat]
  BY <1>2, <1>3
<1>5. bodyLeft' \in 0..MaxBody /\ bodyLeft = bodyLeft' + 1 /\ bodyLeft' \in Nat
  <2>1. bodyLeft \in 0..MaxBody /\ MaxBody \in Nat
    BY ConnectionAssumption DEF InputOK
  <2>2. QED
    BY <1>1, <2>1
<1>6. Size' = Size
  BY <1>1 DEF Size
<1>7. ASSUME ~unlimited
      PROVE  InputInOrder'
  <2>1. /\ Layout(incoming, m, current, Len(asked), Size, unread, bodyLeft' + 1)
        /\ InputInOrder /\ unread \in Nat
    BY <1>5, <1>7, ConnectionAssumption DEF InputOK, InputInOrder
  <2>2. Layout(incoming', m + 1, current, Len(asked), Size, unread, bodyLeft')
    BY <1>3, <1>4, <1>5, <2>1, InputTypes, BodySent
  <2>3. Layout(incoming', Len(incoming'), current', Len(asked'), Size', unread', bodyLeft')
    BY <1>1, <1>3, <1>6, <2>2
  <2>4. QED
    BY <1>1, <2>1, <2>3 DEF InputInOrder
<1>8. \A i \in 1..Len(incoming') : incoming'[i] <= Len(asked')
  <2>1. ASSUME NEW i \in 1..(m + 1)
        PROVE  incoming'[i] <= Len(asked)
    <3>1. CASE i = m + 1
      BY <1>3, <3>1, InputTypes
    <3>2. CASE i # m + 1
      <4>1. i \in 1..m
        BY <3>2, InputTypes
      <4>2. QED
        BY <1>3, <4>1 DEF InputOK
    <3>3. QED
      BY <3>1, <3>2
  <2>2. QED
    BY <1>1, <1>3, <2>1
<1>9. QED
  BY <1>1, <1>3, <1>5, <1>7, <1>8 DEF InputOK

\* The client goes.
LEMMA InputAfterClose ==
    ASSUME InputOK, ClientCloses
    PROVE  InputOK'
<1> DEFINE past == Forget(asked, current)
<1>1. /\ asked' = past
      /\ UNCHANGED <<bodyLeft, incoming, current, unread, wanted, unlimited>>
  BY DEF ClientCloses, inputVars
<1>2. asked \in Seq(Request) /\ current \in Nat /\ Len(asked) \in Nat
  BY InputTypes DEF InputOK
<1>3. /\ past \in Seq(Request) /\ Len(past) = Len(asked)
      /\ \A i \in (current + 1)..Len(asked) : past[i] = asked[i]
  BY <1>2, ForgetFacts
<1> HIDE DEF past
<1>4. \A i \in (current + 1)..Len(asked) : Size'[i] = Size[i]
  BY <1>1, <1>2, <1>3 DEF Size
<1>5. ASSUME ~unlimited
      PROVE  InputInOrder'
  <2>1. InputInOrder
    BY <1>5 DEF InputOK
  <2>2. Layout(incoming, Len(incoming), current, Len(asked), Size', unread, bodyLeft)
    BY <1>4, <2>1, InputTypes, SizesAhead DEF InputInOrder
  <2>3. QED
    BY <1>1, <1>3, <2>1, <2>2 DEF InputInOrder
<1>6. QED
  BY <1>1, <1>3, <1>5 DEF InputOK

\* The head that is read is that of the next request, if no application has read
\* without a limit.
LEMMA InputAfterReadHead ==
    ASSUME InputOK, ReadHead
    PROVE  /\ InputOK' /\ current' # 0 /\ current' \in 1..Len(asked)
           /\ incoming[1] \in 1..Len(asked)
           /\ ~unlimited => current' = current + 1
<1> DEFINE m == Len(incoming) - 1
           n == Len(asked)
<1>1. /\ incoming # <<>> /\ incoming[1] > 0 /\ incoming' = Tail(incoming)
      /\ current' = incoming[1] /\ unread' = asked[incoming[1]].body /\ wanted' = None
      /\ UNCHANGED <<bodyLeft, unlimited>>
      /\ asked' \in {asked, Forget(asked, incoming[1])}
  BY DEF ReadHead
<1>2. incoming \in Seq(0..MaxSent) /\ MaxSent \in Nat
  BY ConnectionAssumption DEF InputOK
<1>3. /\ m \in Nat /\ Len(incoming) = m + 1
      /\ incoming' \in Seq(0..MaxSent) /\ Len(incoming') = m
      /\ \A i \in 1..m : incoming'[i] = incoming[i + 1]
  BY <1>1, <1>2
<1> HIDE DEF m
<1>4. incoming' \in [1..m -> Nat] /\ incoming \in [1..(m + 1) -> Nat]
  BY <1>2, <1>3
<1>5. current' \in 1..n /\ incoming[1] = current'
  <2>1. 1 \in 1..Len(incoming)
    BY <1>3
  <2>2. incoming[1] <= n /\ incoming[1] \in Nat
    BY <1>4, <1>3, <2>1 DEF InputOK
  <2>3. QED
    BY <1>1, <2>2, InputTypes
<1>6. /\ unread' = Size[current'] /\ unread' \in 0..MaxBody
  BY <1>1, <1>5, InputTypes
<1>7. /\ asked' \in Seq(Request) /\ Len(asked') = n
      /\ \A i \in 1..n : i # current' => asked'[i] = asked[i]
  <2>1. asked \in Seq(Request) /\ current' \in Nat
    BY <1>5 DEF InputOK
  <2>2. CASE asked' = asked
    BY <2>1, <2>2
  <2>3. CASE asked' = Forget(asked, current')
    BY <2>1, <2>3, ForgetFacts
  <2>4. QED
    BY <1>1, <1>5, <2>2, <2>3
<1>8. ASSUME ~unlimited
      PROVE  InputInOrder' /\ current' = current + 1
  <2>1. Layout(incoming, m + 1, current, n, Size, unread, bodyLeft) /\ unread \in Nat
    BY <1>3, <1>8, ConnectionAssumption DEF InputOK, InputInOrder
  <2>2. /\ incoming[1] = current + 1 /\ current < n
        /\ Layout(incoming', m, current + 1, n, Size, Size[current + 1], bodyLeft)
    <3>1. /\ n \in Nat /\ current \in Nat /\ current <= n
          /\ Size \in [1..n -> Nat] /\ bodyLeft \in Nat
      BY InputTypes
    <3>2. incoming[1] > 0 /\ \A i \in 1..m : incoming'[i] = incoming[i + 1]
      BY <1>1, <1>3
    <3> HIDE DEF n
    <3>3. QED
      BY <1>3, <1>4, <2>1, <3>1, <3>2, HeadRead
  <2>3. \A i \in (current' + 1)..n : Size'[i] = Size[i]
    <3>1. Size' = [i \in 1..n |-> asked'[i].body] /\ Size = [i \in 1..n |-> asked[i].body]
      BY <1>7 DEF Size
    <3>2. /\ n \in Nat
          /\ \E c \in Nat : c = current'
      BY <1>5, InputTypes
    <3>3. \A c, l \in Nat : \A i \in (c + 1)..l : i \in 1..l /\ i # c
      OBVIOUS
    <3>4. QED
      BY <1>7, <3>1, <3>2, <3>3
  <2>4. current' = current + 1 /\ current' \in Nat /\ current' <= n /\ n \in Nat
    BY <1>5, <2>2, InputTypes
  <2>5. Layout(incoming', m, current', n, Size, unread', bodyLeft)
    BY <1>6, <2>2, <2>4
  <2>6. Layout(incoming', m, current', n, Size', unread', bodyLeft)
    BY <1>3, <1>4, <2>3, <2>4, <2>5, SizesAhead
  <2>7. Layout(incoming', Len(incoming'), current', Len(asked'), Size', unread', bodyLeft')
    BY <1>1, <1>3, <1>7, <2>6
  <2>8. QED
    BY <1>1, <1>5, <1>6, <2>4, <2>7 DEF InputInOrder
<1>9. \A i \in 1..Len(incoming') : incoming'[i] <= Len(asked')
  <2>1. ASSUME NEW i \in 1..m
        PROVE  incoming'[i] <= n
    <3>1. i + 1 \in 1..Len(incoming)
      BY <1>3
    <3>2. QED
      BY <1>3, <3>1 DEF InputOK
  <2>2. QED
    BY <1>3, <1>7, <2>1
<1>10. /\ current' \in 0..Len(asked') /\ Len(asked') <= MaxSent
       /\ unread' \in Int /\ unread' <= MaxBody /\ current' # 0
  BY <1>5, <1>6, <1>7, InputTypes, ConnectionAssumption
<1>11. InputOK'
  BY <1>1, <1>3, <1>7, <1>8, <1>9, <1>10 DEF InputOK
<1>12. QED
  BY <1>5, <1>8, <1>10, <1>11

\* What SubSeq leaves of a sequence without its first k elements.
LEMMA DropFacts ==
    ASSUME NEW S, NEW s \in Seq(S), NEW k \in 0..Len(s)
    PROVE  LET t == SubSeq(s, k + 1, Len(s))
           IN  /\ t \in Seq(S) /\ Len(t) = Len(s) - k
               /\ \A i \in 1..(Len(s) - k) : t[i] = s[i + k]
<1> DEFINE t == SubSeq(s, k + 1, Len(s))
<1>1. t \in Seq(S) /\ Len(t) = Len(s) - k
  OBVIOUS
<1>2. \A i \in 1..Len(t) : t[i] = s[i + k]
  BY <1>1
<1>3. QED
  BY <1>1, <1>2

\* A step that takes k pieces of the input keeps its types.
LEMMA TakesKeepsTypes ==
    ASSUME InputOK, NEW k \in Nat, NEW rest \in Seq(0..MaxSent), Takes(k, rest),
           \A i \in 1..Len(rest) : rest[i] <= Len(asked),
           ~unlimited => InputInOrder'
    PROVE  InputOK'
<1>1. /\ incoming' = rest /\ unread' = unread - k /\ wanted' = None
      /\ UNCHANGED <<asked, bodyLeft, current, unlimited>>
  BY DEF Takes, client
<1>2. unread' \in Int /\ unread' <= MaxBody
  BY <1>1, ConnectionAssumption DEF InputOK
<1>3. QED
  BY <1>1, <1>2 DEF InputOK

\* What is left of the input when k pieces are gone.
LEMMA RestFacts ==
    ASSUME InputOK, NEW k \in 0..Len(incoming)
    PROVE  /\ Rest(k) \in Seq(0..MaxSent) /\ Len(Rest(k)) = Len(incoming) - k
           /\ \A i \in 1..Len(Rest(k)) : /\ Rest(k)[i] = incoming[i + k]
                                         /\ Rest(k)[i] <= Len(asked)
<1>1. incoming \in Seq(0..MaxSent) /\ Len(incoming) \in Nat
  BY DEF InputOK
<1>2. /\ Rest(k) \in Seq(0..MaxSent) /\ Len(Rest(k)) = Len(incoming) - k
      /\ \A i \in 1..(Len(incoming) - k) : Rest(k)[i] = incoming[i + k]
  BY <1>1, DropFacts DEF Rest
<1>3. ASSUME NEW i \in 1..Len(Rest(k))
      PROVE  Rest(k)[i] = incoming[i + k] /\ Rest(k)[i] <= Len(asked)
  <2>1. i + k \in 1..Len(incoming) /\ i \in 1..(Len(incoming) - k)
    BY <1>1, <1>2
  <2>2. QED
    BY <1>2, <2>1 DEF InputOK
<1>4. QED
  BY <1>2, <1>3

\* A read, cut to what is left of the body, stays within it.
LEMMA InputAfterEndRead ==
    ASSUME InputOK, EndRead
    PROVE  InputOK'
<1> DEFINE k == Smaller(wanted, Len(incoming))
           m == Len(incoming)
<1>1. wanted \notin {None, ToTheEnd, ToTheLineEnd} /\ Takes(k, Rest(k))
  BY DEF EndRead
<1>2. wanted \in Nat /\ m \in Nat
  BY <1>1, InputTypes, ConnectionAssumption DEF InputOK
<1>3. k \in 0..m /\ k <= wanted
  BY <1>2 DEF Smaller
<1> HIDE DEF k
<1>4. /\ incoming' = Rest(k) /\ unread' = unread - k /\ wanted' = None
      /\ UNCHANGED <<asked, bodyLeft, current, unlimited>>
  BY <1>1 DEF Takes, client
<1>5. Rest(k) \in Seq(0..MaxSent) /\ Len(Rest(k)) = m - k
      /\ \A i \in 1..Len(Rest(k)) : Rest(k)[i] = incoming[i + k] /\ Rest(k)[i] <= Len(asked)
  BY <1>3, RestFacts
<1>6. ASSUME ~unlimited
      PROVE  InputInOrder'
  <2>1. InputInOrder /\ unread \in 0..MaxBody /\ wanted <= unread /\ MaxBody \in Nat
    BY <1>1, <1>6, ConnectionAssumption DEF InputOK, InputInOrder
  <2>2. k <= unread /\ unread \in Nat
    BY <1>2, <1>3, <2>1
  <2>3. /\ incoming' \in [1..(m - k) -> Nat]
        /\ \A i \in 1..(m - k) : incoming'[i] = incoming[i + k]
    BY <1>4, <1>5, ConnectionAssumption
  <2>4. Layout(incoming', m - k, current, Len(asked), Size, unread - k, bodyLeft)
    BY <1>3, <2>1, <2>2, <2>3, InputTypes, BodyRead DEF InputInOrder
  <2>5. Size' = Size
    BY <1>4 DEF Size
  <2>6. Layout(incoming', Len(incoming'), current', Len(asked'), Size', unread', bodyLeft')
    BY <1>4, <1>5, <2>4, <2>5
  <2>7. unread' \in 0..MaxBody /\ (unread = 0 => unread' = 0)
    BY <1>3, <1>4, <2>1, <2>2
  <2>8. QED
    BY <1>4, <2>1, <2>6, <2>7 DEF InputInOrder
<1>7. k \in Nat
  BY <1>3
<1>8. QED
  BY <1>1, <1>5, <1>6, <1>7, TakesKeepsTypes

\* Reads without a limit keep the types.
LEMMA InputAfterUnlimited ==
    ASSUME InputOK, EndReadAll \/ EndReadLine
    PROVE  InputOK'
<1>1. unlimited
  <2>1. wanted \in {ToTheEnd, ToTheLineEnd}
    BY DEF EndReadAll, EndReadLine
  <2>2. wanted \notin 0..MaxBody \cup {None}
    BY <2>1, ConnectionAssumption DEF ToTheEnd, ToTheLineEnd
  <2>3. QED
    BY <2>2 DEF InputOK, InputInOrder
<1>2. <<>> \in Seq(0..MaxSent) /\ \A i \in 1..Len(<<>>) : <<>>[i] <= Len(asked)
  OBVIOUS
<1>3. CASE EndReadAll
  <2>1. Takes(Len(incoming), <<>>) /\ Len(incoming) \in Nat
    BY <1>3, InputTypes DEF EndReadAll
  <2>2. QED
    BY <1>1, <1>2, <2>1, TakesKeepsTypes
<1>4. CASE EndReadLine /\ Takes(0, <<>>)
  BY <1>1, <1>2, <1>4, TakesKeepsTypes
<1>5. CASE EndReadLine /\ ~Takes(0, <<>>)
  <2>1. PICK k \in DOMAIN incoming :
           Takes(k, IF incoming[k] = 0 THEN Rest(k) ELSE <<0>> \o Rest(k))
    BY <1>5 DEF EndReadLine
  <2>2. k \in 0..Len(incoming) /\ k \in Nat
    BY <2>1, InputTypes DEF InputOK
  <2>3. PICK rest : rest = Rest(k)
    OBVIOUS
  <2>4. rest \in Seq(0..MaxSent) /\ \A i \in 1..Len(rest) : rest[i] <= Len(asked)
    BY <2>2, <2>3, RestFacts
  <2>5. <<0>> \o rest \in Seq(0..MaxSent)
        /\ \A i \in 1..Len(<<0>> \o rest) : (<<0>> \o rest)[i] <= Len(asked)
    <3>1. <<0>> \in Seq(0..MaxSent) /\ Len(<<0>>) = 1 /\ <<0>>[1] = 0
      BY ConnectionAssumption
    <3>2. /\ <<0>> \o rest \in Seq(0..MaxSent) /\ Len(<<0>> \o rest) = Len(rest) + 1
          /\ Len(rest) \in Nat
      BY <2>4, <3>1
    <3>3. ASSUME NEW i \in 1..(Len(rest) + 1)
          PROVE  (<<0>> \o rest)[i] <= Len(asked)
      <4>1. CASE i = 1
        <5>1. (<<0>> \o rest)[i] = 0
          BY <2>4, <3>1, <4>1
        <5>2. QED
          BY <5>1, InputTypes
      <4>2. CASE i # 1
        <5>1. i - 1 \in 1..Len(rest) /\ (<<0>> \o rest)[i] = rest[i - 1]
          BY <2>4, <3>1, <3>2, <4>2
        <5>2. QED
          BY <2>4, <5>1
      <4>3. QED
        BY <4>1, <4>2
    <3>4. QED
      BY <3>2, <3>3
  <2>6. Takes(k, rest) \/ Takes(k, <<0>> \o rest)
    BY <2>1, <2>3
  <2>7. QED
    BY <1>1, <2>2, <2>4, <2>5, <2>6, TakesKeepsTypes
<1>6. QED
  BY <1>3, <1>4, <1>5

LEMMA InputAfterBeginRead ==
    ASSUME InputOK, NEW size \in 0..MaxBody, BeginRead(size)
    PROVE  InputOK'
<1>1. /\ wanted' = IF size = 0 THEN None ELSE Smaller(size, unread)
      /\ unread > 0
      /\ UNCHANGED <<asked, bodyLeft, incoming, current, unread, unlimited>>
  BY DEF BeginRead, client
<1>2. /\ wanted' \in 0..MaxBody \cup {None}
      /\ wanted' # None => wanted' <= unread
  BY <1>1, InputTypes, ConnectionAssumption DEF Smaller, InputOK
<1>3. Size' = Size
  BY <1>1 DEF Size
<1>4. ~unlimited => InputInOrder'
  BY <1>1, <1>2, <1>3 DEF InputOK, InputInOrder
<1>5. QED
  BY <1>1, <1>2, <1>4 DEF InputOK

LEMMA InputAfterBeginUnlimited ==
    ASSUME InputOK, OutputTypes, NEW end \in {ToTheEnd, ToTheLineEnd}, BeginUnlimited(end)
    PROVE  InputOK'
<1>1. /\ wanted' = end /\ unlimited' = TRUE /\ current # 0
      /\ UNCHANGED <<asked, bodyLeft, incoming, current, unread>>
  BY DEF BeginUnlimited, client, Running, OutputTypes
<1>2. QED
  BY <1>1 DEF InputOK

\* Every step keeps the input in order.
LEMMA InputKept ==
    ASSUME InputOK, OutputTypes, [Next]_vars
    PROVE  InputOK'
<1>1. ASSUME UNCHANGED <<asked, bodyLeft, incoming, current, unread, wanted, unlimited>>
      PROVE  InputOK'
  <2>1. Size' = Size
    BY <1>1 DEF Size
  <2>2. InputInOrder => InputInOrder'
    BY <1>1, <2>1 DEF InputInOrder
  <2>3. QED
    BY <1>1, <2>2 DEF InputOK
<1>2. CASE AppStep
  <2>1. ASSUME NEW headers \in Headers, StartResponse(headers)
        PROVE  InputOK'
    BY <1>1, <2>1 DEF StartResponse, client, inputVars
  <2>2. ASSUME NEW n \in 0..1, Write(n)
        PROVE  InputOK'
    BY <1>1, <2>2 DEF Write, client, inputVars
  <2>3. ASSUME NEW kind \in AppExceptions, Raise(kind)
        PROVE  InputOK'
    BY <1>1, <2>3 DEF Raise, client, inputVars
  <2>4. CASE Return
    BY <1>1, <2>4 DEF Return, client, inputVars
  <2>5. CASE Stop
    BY <1>1, <2>5 DEF Stop, client, inputVars
  <2>6. QED
    BY <1>2, <2>1, <2>2, <2>3, <2>4, <2>5, InputAfterBeginRead, InputAfterBeginUnlimited
    DEF AppStep
<1>3. CASE ServerStep
  <2>1. CASE ReadLeftover \/ ReadEnd \/ Done \/ WriteFails
    BY <1>1, <2>1 DEF ReadLeftover, ReadEnd, Done, WriteFails, client, inputVars
  <2>2. CASE Close \/ ConnectionDrop \/ ServerError \/ PassBy
    BY <1>1, <2>2 DEF Close, ConnectionDrop, ServerError, PassBy, client, inputVars
  <2>3. QED
    BY <1>3, <2>1, <2>2, InputAfterReadHead, InputAfterEndRead, InputAfterUnlimited
    DEF ServerStep
<1>4. CASE ClientStep
  BY <1>4, InputAfterBody, InputAfterHead, InputAfterClose DEF ClientStep
<1>5. CASE UNCHANGED vars
  BY <1>1, <1>5 DEF vars, client, inputVars
<1>6. QED
  BY <1>2, <1>3, <1>4, <1>5 DEF Next

\* The stream is empty at first.
LEMMA InputInit == Init => InputOK
<1>1. SUFFICES ASSUME Init PROVE InputOK
  OBVIOUS
<1>2. Layout(<<>>, 0, 0, 0, Size, 0, 0)
  BY DEF Layout, Present, Within, Increasing, First, Gaps, End
<1>3. /\ incoming = <<>> /\ asked = <<>> /\ current = 0 /\ unread = 0 /\ bodyLeft = 0
      /\ wanted = None /\ unlimited = FALSE
  BY <1>1 DEF Init
<1>4. Len(incoming) = 0 /\ Len(asked) = 0 /\ asked \in Seq(Request)
      /\ incoming \in Seq(0..MaxSent)
  BY <1>3
<1>5. InputInOrder
  BY <1>2, <1>3, <1>4, ConnectionAssumption DEF InputInOrder
<1>6. /\ \A i \in 1..Len(incoming) : incoming[i] <= Len(asked)
      /\ 0 \in 0..MaxBody /\ 0 \in 0..Len(asked) /\ Len(asked) <= MaxSent
  BY <1>4, ConnectionAssumption
<1>7. unlimited \in BOOLEAN /\ ~unlimited
  BY <1>3, Zenon
<1>8. unread \in Int /\ unread <= MaxBody
  BY <1>3, ConnectionAssumption
<1>9. QED
  BY <1>3, <1>4, <1>5, <1>6, <1>7, <1>8, Zenon DEF InputOK

\* The heads in the stream are those of the requests after the current one.
LEMMA HeadsAhead == InputOK => NothingBeyondTheBody
<1>1. SUFFICES ASSUME InputOK, ~unlimited, InputInOrder PROVE NothingBeyondTheBody
  BY DEF InputOK, NothingBeyondTheBody
<1> DEFINE m == Len(incoming)
           heads == {i \in DOMAIN incoming : incoming[i] > 0}
<1>2. DOMAIN incoming = 1..m /\ m \in Nat /\ \A i \in 1..m : incoming[i] \in Nat
  BY <1>1, InputTypes
<1>3. {incoming[i] : i \in heads} \subseteq (current + 1)..Len(asked)
  <2>1. ASSUME NEW i \in heads
        PROVE  incoming[i] \in (current + 1)..Len(asked)
    <3>1. incoming[i] = 0 \/ (current < incoming[i] /\ incoming[i] <= Len(asked))
      BY <1>1, <1>2 DEF InputInOrder, Layout, Within
    <3>2. QED
      BY <3>1, <1>1, <1>2, InputTypes
  <2>2. QED
    BY <2>1
<1>4. (current + 1)..Len(asked) \subseteq {incoming[i] : i \in heads}
  <2>1. ASSUME NEW k \in (current + 1)..Len(asked)
        PROVE  \E i \in heads : incoming[i] = k
    <3>1. k \in Nat /\ current < k /\ k <= Len(asked) /\ k > 0
      BY <1>1, InputTypes
    <3>2. PICK i \in 1..m : incoming[i] = k
      BY <1>1, <3>1 DEF InputInOrder, Layout, Present
    <3>3. QED
      BY <1>2, <3>1, <3>2
  <2>2. QED
    BY <2>1
<1>5. \A i, j \in heads : i < j => incoming[i] < incoming[j]
  BY <1>1, <1>2 DEF InputInOrder, Layout, Increasing
<1>6. QED
  BY <1>3, <1>4, <1>5 DEF NothingBeyondTheBody

-----------------------------------------------------------------------------
(* What a token adds to the output.                                        *)

\* The positions of a sequence with one element more.
LEMMA AppendFacts ==
    ASSUME NEW S, NEW s \in Seq(S), NEW e \in S
    PROVE  LET t == Append(s, e)
           IN  /\ t \in Seq(S) /\ t[Len(s) + 1] = e /\ Len(s) \in Nat
               /\ DOMAIN t = DOMAIN s \cup {Len(s) + 1}
               /\ \A i \in DOMAIN s : t[i] = s[i] /\ i \in Nat /\ i < Len(s) + 1
  OBVIOUS

\* The sets that are counted are finite.
LEMMA FiniteParts ==
    ASSUME NEW S, NEW s \in Seq(S), NEW i
    PROVE  /\ IsFiniteSet(Heads(s)) /\ IsFiniteSet(UpTo(s, i))
           /\ IsFiniteSet(After(s, i))
           /\ Cardinality(Heads(s)) \in Nat /\ Cardinality(After(s, i)) \in Nat
<1>1. IsFiniteSet(DOMAIN s)
  BY FS_Interval
<1>2. Heads(s) \in SUBSET DOMAIN s /\ UpTo(s, i) \in SUBSET DOMAIN s
      /\ After(s, i) \in SUBSET DOMAIN s
  BY DEF Heads, UpTo, After
<1>3. IsFiniteSet(Heads(s)) /\ IsFiniteSet(UpTo(s, i)) /\ IsFiniteSet(After(s, i))
  BY <1>1, <1>2, FS_Subset
<1>4. QED
  BY <1>3, FS_CardinalityType

\* A token that is not a head leaves the heads alone; a chunk belongs to the last.
LEMMA TokenAdded ==
    ASSUME NEW s \in Seq(Token), NEW e \in Token, e.kind # "head",
           NEW t, t = Append(s, e)
    PROVE  /\ Heads(t) = Heads(s)
           /\ \A i \in Heads(s) :
                 /\ t[i] = s[i] /\ UpTo(t, i) = UpTo(s, i)
                 /\ IsLast(t, i) <=> IsLast(s, i)
                 /\ Cardinality(After(t, i)) =
                       IF e.kind = "chunk" /\ IsLast(s, i)
                          THEN Cardinality(After(s, i)) + 1
                          ELSE Cardinality(After(s, i))
<1> DEFINE N == Len(s) + 1
<1>1. /\ t \in Seq(Token) /\ t[N] = e /\ N \in Nat
      /\ DOMAIN t = DOMAIN s \cup {N} /\ N \notin DOMAIN s
      /\ \A i \in DOMAIN s : t[i] = s[i] /\ i \in Nat /\ i < N
  BY AppendFacts
<1> HIDE DEF N
<1>2. Heads(t) = Heads(s)
  BY <1>1 DEF Heads
<1>3. ASSUME NEW i \in Heads(s)
      PROVE  /\ t[i] = s[i] /\ UpTo(t, i) = UpTo(s, i)
             /\ (IsLast(t, i) <=> IsLast(s, i))
             /\ Cardinality(After(t, i)) = IF e.kind = "chunk" /\ IsLast(s, i)
                                              THEN Cardinality(After(s, i)) + 1
                                              ELSE Cardinality(After(s, i))
  <2>1. i \in DOMAIN s /\ i \in Nat /\ i < N
    BY <1>1 DEF Heads
  <2>2. N \notin After(s, i) /\ IsFiniteSet(After(s, i))
    BY <1>1, FiniteParts DEF After
  <2>3. CASE e.kind = "chunk" /\ IsLast(s, i)
    <3>1. After(t, i) = After(s, i) \cup {N}
      <4>1. ASSUME NEW j \in DOMAIN s
            PROVE  j \in After(t, i) <=> j \in After(s, i)
        BY <1>1, <1>2 DEF After
      <4>2. N \in After(t, i)
        BY <1>1, <1>2, <2>1, <2>3 DEF After, IsLast, Heads
      <4>3. After(t, i) \subseteq DOMAIN s \cup {N} /\ After(s, i) \subseteq DOMAIN s
        BY <1>1 DEF After
      <4>4. QED
        BY <4>1, <4>2, <4>3
    <3>2. QED
      BY <1>1, <1>2, <2>1, <2>2, <2>3, <3>1, FS_AddElement DEF UpTo, IsLast
  <2>4. CASE ~(e.kind = "chunk" /\ IsLast(s, i))
    <3>1. After(t, i) = After(s, i)
      <4>1. ASSUME NEW j \in DOMAIN s
            PROVE  j \in After(t, i) <=> j \in After(s, i)
        BY <1>1, <1>2 DEF After
      <4>2. N \notin After(t, i)
        <5>1. CASE e.kind # "chunk"
          BY <5>1, <1>1 DEF After
        <5>2. CASE ~IsLast(s, i)
          <6>1. PICK h \in Heads(s) : ~(h <= i)
            BY <5>2 DEF IsLast
          <6>2. h \in DOMAIN s /\ h \in Nat /\ h < N /\ i < h
            BY <1>1, <2>1, <6>1 DEF Heads
          <6>3. QED
            BY <1>2, <6>2 DEF After
        <5>3. QED
          BY <2>4, <5>1, <5>2
      <4>3. After(t, i) \subseteq DOMAIN s \cup {N} /\ After(s, i) \subseteq DOMAIN s
        BY <1>1 DEF After
      <4>4. QED
        BY <4>1, <4>2, <4>3
    <3>2. QED
      BY <1>1, <1>2, <2>1, <2>4, <3>1 DEF UpTo, IsLast
  <2>5. QED
    BY <2>3, <2>4
<1>4. QED
  BY <1>2, <1>3

\* t is s with the head e at N: the last one, and nothing follows it yet.
AddsHead(s, t, e, N) ==
    /\ Heads(t) = Heads(s) \cup {N} /\ N \notin Heads(s) /\ t[N] = e
    /\ Cardinality(Heads(t)) = Cardinality(Heads(s)) + 1
    /\ UpTo(t, N) = Heads(t) /\ IsLast(t, N) /\ Cardinality(After(t, N)) = 0
    /\ \A i \in Heads(s) : /\ t[i] = s[i] /\ UpTo(t, i) = UpTo(s, i)
                           /\ ~IsLast(t, i) /\ After(t, i) = After(s, i)

\* A head at the end of a stream.
LEMMA HeadAdded ==
    ASSUME NEW s \in Seq(Token), NEW e \in Token, e.kind = "head",
           NEW t, t = Append(s, e)
    PROVE  \E N : AddsHead(s, t, e, N)
<1> DEFINE N == Len(s) + 1
<1>1. /\ t \in Seq(Token) /\ t[N] = e /\ N \in Nat
      /\ DOMAIN t = DOMAIN s \cup {N} /\ N \notin DOMAIN s
      /\ \A i \in DOMAIN s : t[i] = s[i] /\ i \in Nat /\ i < N
  BY AppendFacts
<1> HIDE DEF N
<1>2. Heads(t) = Heads(s) \cup {N} /\ N \notin Heads(s)
  BY <1>1 DEF Heads
<1>3. Cardinality(Heads(t)) = Cardinality(Heads(s)) + 1
  BY <1>2, FiniteParts, FS_AddElement
<1>4. \A h \in Heads(t) : h \in Nat /\ h <= N
  BY <1>1, <1>2 DEF Heads
<1>5. UpTo(t, N) = Heads(t) /\ IsLast(t, N)
  BY <1>4 DEF UpTo, IsLast
<1>6. After(t, N) = {}
  BY <1>1 DEF After
<1>7. ASSUME NEW i \in Heads(s)
      PROVE  /\ t[i] = s[i] /\ UpTo(t, i) = UpTo(s, i)
             /\ ~IsLast(t, i) /\ After(t, i) = After(s, i)
  <2>1. i \in DOMAIN s /\ i \in Nat /\ i < N
    BY <1>1 DEF Heads
  <2>2. UpTo(t, i) = UpTo(s, i) /\ ~IsLast(t, i)
    BY <1>1, <1>2, <2>1 DEF UpTo, IsLast
  <2>3. ASSUME NEW j \in DOMAIN s
        PROVE  j \in After(t, i) <=> j \in After(s, i)
    <3>1. t[j] = s[j] /\ j \in Nat /\ j < N /\ j \in DOMAIN t
      BY <1>1
    <3>2. (\E h \in Heads(t) : i < h /\ h < j) <=> (\E h \in Heads(s) : i < h /\ h < j)
      BY <1>1, <1>2, <3>1
    <3>3. QED
      BY <3>1, <3>2 DEF After
  <2>4. N \notin After(t, i)
    BY <1>1 DEF After
  <2>5. After(t, i) \subseteq DOMAIN s \cup {N} /\ After(s, i) \subseteq DOMAIN s
    BY <1>1 DEF After
  <2>6. QED
    BY <1>1, <2>1, <2>2, <2>3, <2>4, <2>5
<1>8. Cardinality(After(t, N)) = 0
  BY <1>6, FS_EmptySet
<1>9. QED
  BY <1>1, <1>2, <1>3, <1>5, <1>7, <1>8 DEF AddsHead

\* An interim answer changes nothing of the others.
LEMMA ContinueSent ==
    ASSUME NEW s \in Seq(Token), NEW e \in Token, e.kind = "continue", NEW n, NEW l, NEW w,
           NEW u, NEW t, t = Append(s, e)
    PROVE  /\ Ordered(s, n, u) => Ordered(t, n, u)
           /\ Complete(s) => Complete(t)
           /\ LastIs(s, l, w) => LastIs(t, l, w)
<1>1. /\ Heads(t) = Heads(s)
      /\ \A i \in Heads(s) :
            /\ t[i] = s[i] /\ UpTo(t, i) = UpTo(s, i) /\ (IsLast(t, i) <=> IsLast(s, i))
            /\ Cardinality(After(t, i)) = Cardinality(After(s, i))
  BY TokenAdded
<1>2. Ordered(s, n, u) => Ordered(t, n, u)
  BY <1>1 DEF Ordered
<1>3. Complete(s) => Complete(t)
  BY <1>1 DEF Complete
<1>4. LastIs(s, l, w) => LastIs(t, l, w)
  BY <1>1 DEF LastIs
<1>5. QED
  BY <1>2, <1>3, <1>4

\* A chunk is one more of the last answer.
LEMMA ChunkSent ==
    ASSUME NEW s \in Seq(Token), NEW e \in Token, e.kind = "chunk", NEW n, NEW l, NEW w,
           NEW u, Ordered(s, n, u), LastIs(s, l, w), NEW t, t = Append(s, e)
    PROVE  Ordered(t, n, u) /\ LastIs(t, l, w + 1)
<1>1. /\ Heads(t) = Heads(s)
      /\ \A i \in Heads(s) :
            /\ t[i] = s[i] /\ UpTo(t, i) = UpTo(s, i) /\ (IsLast(t, i) <=> IsLast(s, i))
            /\ Cardinality(After(t, i)) = IF e.kind = "chunk" /\ IsLast(s, i)
                                           THEN Cardinality(After(s, i)) + 1
                                           ELSE Cardinality(After(s, i))
  BY TokenAdded
<1>2. Ordered(t, n, u)
  BY <1>1 DEF Ordered
<1>3. LastIs(t, l, w + 1)
  BY <1>1 DEF LastIs
<1>4. QED
  BY <1>2, <1>3

\* A head after answers that are complete begins the next one.
LEMMA AnswerBegun ==
    ASSUME NEW s \in Seq(Token), NEW e \in Token, e.kind = "head", NEW n, NEW u,
           Ordered(s, n, u), Complete(s), e.of = n + 1, NEW t, t = Append(s, e)
    PROVE  Ordered(t, n + 1, u) /\ LastIs(t, e.length, 0)
<1>1. PICK N : AddsHead(s, t, e, N)
  BY HeadAdded
<1>5. Ordered(t, n + 1, u)
  BY <1>1 DEF Ordered, Complete, AddsHead
<1>6. LastIs(t, e.length, 0)
  BY <1>1 DEF LastIs, AddsHead
<1>7. QED
  BY <1>5, <1>6

\* The server's last word.
LEMMA LastWordSent ==
    ASSUME NEW s \in Seq(Token), NEW e \in Token, e.kind = "head", e.of = 0, e.length = 0,
           NEW n, NEW u, Ordered(s, n, u), Complete(s), NEW t, t = Append(s, e)
    PROVE  InOrder(t, u)
<1>1. PICK N : AddsHead(s, t, e, N)
  BY HeadAdded
<1>2. \A i \in Heads(s) : Cardinality(After(s, i)) \in Nat
  BY FiniteParts
<1>3. \A c \in Nat : c <= c
  OBVIOUS
<1>4. \A i \in Heads(s) : /\ u \/ t[i].of = Cardinality(UpTo(t, i))
                          /\ Cardinality(After(t, i)) <= t[i].length
                          /\ Cardinality(After(t, i)) = t[i].length
  BY <1>1, <1>2, <1>3, Zenon DEF Ordered, Complete, AddsHead
<1>5. t[N].of = 0 /\ IsLast(t, N) /\ Cardinality(After(t, N)) <= t[N].length
  BY <1>1, <1>3 DEF AddsHead
<1>6. Heads(t) = Heads(s) \cup {N}
  BY <1>1 DEF AddsHead
<1>7. QED
  BY <1>4, <1>5, <1>6, Zenon DEF InOrder

\* A stream whose last answer is complete, or not too long, is in order.
LEMMA OrderedInOrder ==
    ASSUME NEW s \in Seq(Token), NEW n, NEW u, Ordered(s, n, u)
    PROVE  /\ Complete(s) => InOrder(s, u)
           /\ \A l, w : LastIs(s, l, w) /\ (l # None => w <= l) => InOrder(s, u)
<1>1. \A i \in Heads(s) : Cardinality(After(s, i)) \in Nat
  BY FiniteParts
<1>2. QED
  BY <1>1 DEF Ordered, Complete, LastIs, InOrder

\* A last answer as long as it says completes the stream.
LEMMA LastComplete ==
    ASSUME NEW s, NEW n, NEW l, NEW u, Ordered(s, n, u), LastIs(s, l, l)
    PROVE  Complete(s)
  BY DEF Ordered, LastIs, Complete

\* When an application has read without a limit the order of the answers is given up.
LEMMA OrderGivenUp ==
    ASSUME NEW s, NEW n, NEW u
    PROVE  /\ Ordered(s, n, u) => \A m : Ordered(s, m, TRUE)
           /\ InOrder(s, u) => InOrder(s, TRUE)
  BY DEF Ordered, InOrder

-----------------------------------------------------------------------------
(* Every step keeps the answers in order.                                  *)

Lengths == 0..MaxChunk \cup {None}

\* Tokens are tokens.
LEMMA TokenFacts ==
    ASSUME NEW n \in 0..MaxSent, NEW l \in Lengths
    PROVE  /\ Continue(n) \in Token /\ Continue(n).kind = "continue"
           /\ Chunk(n) \in Token /\ Chunk(n).kind = "chunk"
           /\ Answer(n, l) \in Token /\ Answer(n, l).kind = "head"
           /\ Answer(n, l).of = n /\ Answer(n, l).length = l
  BY DEF Continue, Chunk, Answer, Token, Lengths

LEMMA ContinueFacts ==
    ASSUME NEW n \in 0..MaxSent
    PROVE  Continue(n) \in Token /\ Continue(n).kind = "continue"
  BY DEF Continue, Token

\* What Send adds.
LEMMA Appends ==
    ASSUME NEW s \in Seq(Token), NEW a \in Token, NEW c \in Token
    PROVE  /\ s \o <<>> = s
           /\ s \o <<a>> = Append(s, a)
           /\ s \o <<a, c>> = Append(Append(s, a), c)
           /\ s \o (<<a>> \o <<c>>) = Append(Append(s, a), c)
<1>1. s \o <<>> = s /\ s \o <<a>> = Append(s, a)
      /\ s \o <<a, c>> = Append(Append(s, a), c)
  OBVIOUS
<1>2. s \o (<<a>> \o <<c>>) = Append(Append(s, a), c)
  OBVIOUS
<1>3. QED
  BY <1>1, <1>2

\* What ChunkWritten sends.
LEMMA ChunkTokens ==
    ASSUME NEW a \in Token, NEW c \in Token
    PROVE  /\ <<>> \o [i \in 1..0 |-> c] = <<>>
           /\ <<>> \o [i \in 1..1 |-> c] = <<c>>
           /\ <<a>> \o [i \in 1..0 |-> c] = <<a>>
           /\ <<a>> \o [i \in 1..1 |-> c] = <<a>> \o <<c>>
<1>1. [i \in 1..0 |-> c] = <<>>
  OBVIOUS
<1>2. [i \in 1..1 |-> c] = <<c>>
  OBVIOUS
<1>3. <<a>> \in Seq(Token) /\ <<c>> \in Seq(Token)
  OBVIOUS
<1>4. <<>> \o <<>> = <<>> /\ <<>> \o <<c>> = <<c>> /\ <<a>> \o <<>> = <<a>>
  BY <1>3
<1>5. QED
  BY <1>1, <1>2, <1>4

\* Headers are not None, and have a length.
LEMMA HeaderFacts ==
    ASSUME NEW headers \in Headers
    PROVE  headers.length \in Lengths /\ headers # None /\ headers.close \in BOOLEAN
  BY HeadersAssumption DEF Headers, Lengths

\* What ChunkWritten does to the output.
LEMMA Written ==
    ASSUME out \in Seq(Token), current \in 0..MaxSent, NEW headers \in Headers,
           NEW n \in 0..1, ChunkWritten(n, headers), ~clientClosed
    PROVE  /\ headers_sent => out' = IF n = 0 THEN out ELSE Append(out, Chunk(current))
           /\ ~headers_sent => LET first == Append(out, Answer(current, headers.length))
                               IN  out' = IF n = 0 THEN first
                                                   ELSE Append(first, Chunk(current))
<1> DEFINE a == Answer(current, headers.length)
           c == Chunk(current)
<1>1. a \in Token /\ c \in Token
  BY HeaderFacts, TokenFacts
<1>2. out' = out \o ((IF headers_sent THEN <<>> ELSE <<a>>) \o [i \in 1..n |-> c])
  BY DEF ChunkWritten, Send
<1> HIDE DEF a, c
<1>3. n = 0 \/ n = 1
  OBVIOUS
<1>4. CASE headers_sent
  <2>1. out' = out \o (<<>> \o [i \in 1..n |-> c])
    BY <1>2, <1>4
  <2>2. n = 0 => out' = out
    BY <2>1, <1>1, ChunkTokens, Appends
  <2>3. n = 1 => out' = Append(out, c)
    BY <2>1, <1>1, ChunkTokens, Appends
  <2>4. QED
    BY <1>3, <1>4, <2>2, <2>3 DEF c
<1>5. CASE ~headers_sent
  <2>1. out' = out \o (<<a>> \o [i \in 1..n |-> c])
    BY <1>2, <1>5
  <2>2. n = 0 => out' = Append(out, a)
    BY <2>1, <1>1, ChunkTokens, Appends
  <2>3. n = 1 => out' = Append(Append(out, a), c)
    BY <2>1, <1>1, ChunkTokens, Appends
  <2>4. QED
    BY <1>3, <1>5, <2>2, <2>3 DEF a, c
<1>6. QED
  BY <1>4, <1>5

\* The answer with a piece more is still one of the announced length.
LEMMA AnswerWritten ==
    ASSUME InputOK, OutputTypes, AnswerOK, ~clientClosed,
           curr_headers \in Headers, NEW n \in 0..1, ChunkWritten(n, curr_headers),
           curr_headers.length # None => written + n <= curr_headers.length,
           UNCHANGED <<current, curr_headers, unlimited>>
    PROVE  AnswerOK' /\ headers_sent' /\ written' = written + n
<1> DEFINE l == curr_headers.length
           c == Chunk(current)
           first == Append(out, Answer(current, l))
<1>1. /\ current \in 0..MaxSent /\ out \in Seq(Token) /\ l \in Lengths
      /\ written \in Nat
  BY InputTypes, HeaderFacts, ConnectionAssumption DEF InputOK, OutputTypes
<1>2. /\ c \in Token /\ c.kind = "chunk"
      /\ Answer(current, l) \in Token /\ Answer(current, l).kind = "head"
      /\ Answer(current, l).of = current /\ Answer(current, l).length = l
  BY <1>1, TokenFacts
<1>3. /\ headers_sent' /\ written' = written + n
      /\ close_connection' <=> \/ close_connection
                               \/ ~headers_sent /\ (l = None \/ curr_headers.close)
  BY Zenon DEF ChunkWritten
<1>4. l = None => close_connection'
  BY <1>3, Zenon DEF AnswerOK
<1>5. Ordered(out', current, unlimited) /\ LastIs(out', l, written + n)
  <2>1. CASE headers_sent
    <3>1. Ordered(out, current, unlimited) /\ LastIs(out, l, written)
      BY <2>1 DEF AnswerOK
    <3>2. CASE n = 0
      BY <1>1, <2>1, <3>1, <3>2, Written
    <3>3. CASE n = 1
      <4>1. out' = Append(out, c)
        BY <1>1, <2>1, <3>3, Written
      <4>2. QED
        BY <1>1, <1>2, <3>1, <3>3, <4>1, ChunkSent
    <3>4. QED
      BY <3>2, <3>3
  <2>2. CASE ~headers_sent
    <3>1. Ordered(out, current - 1, unlimited) /\ Complete(out) /\ written = 0
      BY <2>2, <1>1 DEF AnswerOK, OutputTypes
    <3>2. Answer(current, l).of = (current - 1) + 1 /\ (current - 1) + 1 = current
      BY <1>1, <1>2
    <3>3. Ordered(first, current, unlimited) /\ LastIs(first, l, 0)
      BY <1>1, <1>2, <3>1, <3>2, AnswerBegun
    <3>4. CASE n = 0
      <4>1. out' = first
        BY <1>1, <2>2, <3>4, Written
      <4>2. QED
        BY <3>1, <3>3, <3>4, <4>1
    <3>5. CASE n = 1
      <4>1. first \in Seq(Token) /\ out' = Append(first, c)
        BY <1>1, <1>2, <2>2, <3>5, Written
      <4>2. PICK s \in Seq(Token) : s = first
        BY <4>1
      <4>3. Ordered(s, current, unlimited) /\ LastIs(s, l, 0) /\ out' = Append(s, c)
        BY <3>3, <4>1, <4>2
      <4> HIDE DEF first, c, l
      <4>4. Ordered(out', current, unlimited) /\ LastIs(out', l, 0 + 1)
        BY <1>2, <4>2, <4>3, ChunkSent
      <4>5. QED
        BY <3>1, <3>5, <4>4
    <3>6. QED
      BY <3>4, <3>5
  <2>3. QED
    BY <2>1, <2>2
<1>6. QED
  BY <1>3, <1>4, <1>5 DEF AnswerOK

\* Whatever is sent of the current answer, the stream is in order.
LEMMA StreamInOrder ==
    ASSUME InputOK, OutputTypes, StreamOK
    PROVE  InOrder(out, unlimited)
<1>1. out \in Seq(Token)
  BY DEF OutputTypes
<1>2. CASE clientClosed \/ pc \in {"done", "closed"}
  BY <1>2 DEF StreamOK
<1>3. CASE ~clientClosed /\ pc = "request"
  BY <1>1, <1>3, OrderedInOrder DEF StreamOK
<1>4. CASE ~clientClosed /\ pc \in {"app", "iterating", "closing", "except"}
  <2>1. AnswerOK
    BY <1>4 DEF StreamOK
  <2>2. QED
    BY <1>1, <2>1, OrderedInOrder DEF AnswerOK
<1>5. QED
  BY <1>2, <1>3, <1>4 DEF OutputTypes

\* InOrder is what AnswersInOrder says.
LEMMA InOrderIsTheProperty == InOrder(out, unlimited) <=> AnswersInOrder
  BY DEF InOrder, AnswersInOrder, HeadsAt, Heads, UpTo, IsLast, After, ChunksAfter

\* Every step keeps the answers in order.
LEMMA StreamKept ==
    ASSUME "oserror" \notin AppExceptions, InputOK, InputOK', OutputTypes, Flags, StreamOK,
           [Next]_vars
    PROVE  StreamOK'
<1>1. InOrder(out, unlimited) /\ out \in Seq(Token) /\ current \in 0..MaxSent
  BY StreamInOrder, InputTypes, ConnectionAssumption DEF OutputTypes, InputOK
<1>2. ASSUME UNCHANGED <<out, clientClosed, close_connection, pc, current, curr_headers,
                         headers_sent, written, unlimited, exc>>
      PROVE  StreamOK'
  BY <1>2 DEF StreamOK, AnswerOK
<1>3. CASE clientClosed
  <2>1. CASE \E end \in {ToTheEnd, ToTheLineEnd} : BeginUnlimited(end)
    <3>1. out' = out /\ clientClosed' /\ unlimited' = TRUE
      BY <1>3, <2>1 DEF BeginUnlimited, Send, client
    <3>2. InOrder(out', unlimited')
      BY <1>1, <3>1, OrderGivenUp
    <3>3. QED
      BY <3>1, <3>2 DEF StreamOK
  <2>2. CASE ~ \E end \in {ToTheEnd, ToTheLineEnd} : BeginUnlimited(end)
    <3>1. out' = out /\ clientClosed' /\ unlimited' = unlimited
      BY <1>3, <2>2 DEF Next, AppStep, ServerStep, ClientStep, vars, client, response,
         inputVars, StartResponse, BeginRead, Write, Raise, Return, Stop, ReadHead,
         ReadLeftover, ReadEnd, Done, EndRead, EndReadAll, EndReadLine, Takes, WriteFails,
         Close, ConnectionDrop, ServerError, PassBy, SendHead, SendBody, ClientCloses,
         ChunkWritten, Send
    <3>2. QED
      BY <1>1, <3>1 DEF StreamOK
  <2>3. QED
    BY <2>1, <2>2
<1>4. ASSUME NEW headers \in Headers, StartResponse(headers), ~clientClosed
      PROVE  StreamOK'
  BY <1>4 DEF StreamOK, AnswerOK, StartResponse, Running, client, inputVars
<1>5. ASSUME out' = out \o (IF hooked THEN <<Continue(current)>> ELSE <<>>),
             ~clientClosed, Running, unlimited' \in {unlimited, TRUE},
             UNCHANGED <<clientClosed, pc, current, close_connection, curr_headers,
                         headers_sent, written, exc>>
      PROVE  StreamOK'
  <2>1. pc \in {"app", "iterating"} /\ exc = "none" /\ AnswerOK
    BY <1>5 DEF Running, StreamOK, OutputTypes
  <2>2. out' = out \/ out' = Append(out, Continue(current))
    BY <1>1, <1>5, TokenFacts, Appends
  <2>3. /\ \A n : Ordered(out, n, unlimited) => Ordered(out', n, unlimited)
        /\ Complete(out) => Complete(out')
        /\ \A l, w : LastIs(out, l, w) => LastIs(out', l, w)
    <3>1. Continue(current) \in Token /\ Continue(current).kind = "continue"
      BY <1>1, ContinueFacts
    <3>2. QED
      BY <1>1, <2>2, <3>1, ContinueSent
  <2>4. \A n : Ordered(out, n, unlimited) => Ordered(out', n, unlimited')
    BY <1>5, <2>3, OrderGivenUp
  <2>5. AnswerOK'
    BY <1>5, <2>1, <2>3, <2>4 DEF AnswerOK
  <2>6. QED
    BY <1>5, <2>1, <2>5 DEF StreamOK
<1>6. ASSUME NEW n \in 0..1, Write(n), ~clientClosed
      PROVE  StreamOK'
  <2>1. /\ pc \in {"app", "iterating"} /\ exc = "none" /\ AnswerOK
        /\ curr_headers \in Headers /\ ChunkWritten(n, curr_headers)
        /\ curr_headers.length # None => written + n <= curr_headers.length
        /\ UNCHANGED <<clientClosed, pc, current, curr_headers, unlimited, exc>>
    BY <1>6 DEF Write, Running, client, inputVars, StreamOK, OutputTypes, Allowed
  <2>2. AnswerOK'
    BY <1>6, <2>1, AnswerWritten
  <2>3. QED
    BY <2>1, <2>2, <1>6 DEF StreamOK
<1>7. ASSUME NEW kind \in AppExceptions, Raise(kind), ~clientClosed
      PROVE  StreamOK'
  BY <1>7, ConnectionAssumption DEF StreamOK, AnswerOK, Raise, Running, client, response,
     inputVars
<1>8. CASE Return /\ ~clientClosed
  BY <1>8 DEF StreamOK, AnswerOK, Return, client, response, inputVars
<1>9. CASE Stop /\ ~clientClosed
  <2>1. /\ pc = "iterating" /\ pc' = "closing" /\ AnswerOK /\ exc = "none"
        /\ UNCHANGED <<clientClosed, current, unlimited>>
        /\ curr_headers # None => curr_headers.length \in {None, written}
    BY <1>9 DEF Stop, client, inputVars, StreamOK, OutputTypes
  <2>2. CASE headers_sent \/ curr_headers = None
    BY <1>9, <2>1, <2>2 DEF Stop, StreamOK, AnswerOK, response, OutputTypes
  <2>3. CASE ~headers_sent /\ curr_headers # None
    <3>1. curr_headers \in Headers /\ ChunkWritten(0, curr_headers)
          /\ UNCHANGED <<curr_headers, exc>> /\ written \in Nat
      BY <1>9, <2>3, ConnectionAssumption DEF Stop, OutputTypes
    <3>2. curr_headers.length # None => written + 0 <= curr_headers.length
      BY <2>1, <2>3, <3>1
    <3>3. AnswerOK' /\ headers_sent' /\ written' = written
      BY <1>9, <2>1, <3>1, <3>2, AnswerWritten
    <3>4. QED
      BY <1>9, <2>1, <2>3, <3>1, <3>3 DEF StreamOK
  <2>4. QED
    BY <2>2, <2>3
<1>10. CASE ReadHead /\ ~clientClosed
  <2>1. /\ Ordered(out, current, unlimited) /\ Complete(out) /\ exc = "none" /\ pc' = "app"
        /\ ~headers_sent' /\ UNCHANGED <<clientClosed, unlimited, exc>>
    BY <1>10 DEF ReadHead, StreamOK, client, OutputTypes
  <2>2. current' \in 1..MaxSent /\ (~unlimited => current' = current + 1)
    BY <1>10, InputAfterReadHead, InputTypes, ConnectionAssumption DEF InputOK
  <2>3. out' = out \/ out' = Append(out, Continue(current'))
    <3>1. Continue(current') \in Token
      BY <2>2, ContinueFacts
    <3>2. out' = out \o <<Continue(current')>> \/ out' = out \o <<>>
      BY <1>10 DEF ReadHead, Send
    <3>3. QED
      BY <1>1, <3>1, <3>2, Appends
  <2>4. Ordered(out', current, unlimited) /\ Complete(out')
    <3>1. Continue(current') \in Token /\ Continue(current').kind = "continue"
      BY <2>2, ContinueFacts
    <3>2. QED
      BY <1>1, <2>1, <2>3, <3>1, ContinueSent
  <2>5. Ordered(out', current' - 1, unlimited')
    <3>1. CASE ~unlimited
      <4>1. current' - 1 = current
        BY <1>1, <2>2, <3>1
      <4>2. QED
        BY <2>1, <2>4, <4>1
    <3>2. CASE unlimited
      BY <2>1, <2>4, <3>2 DEF Ordered
    <3>3. QED
      BY <3>1, <3>2
  <2>6. AnswerOK'
    BY <2>1, <2>4, <2>5 DEF AnswerOK
  <2>7. QED
    BY <1>10, <2>1, <2>6 DEF StreamOK
<1>11. CASE ReadLeftover /\ ~clientClosed
  <2>1. /\ Ordered(out, current, unlimited) /\ Complete(out) /\ pc' = "done"
        /\ close_connection' /\ out' = out \o <<Answer(0, 0)>> /\ UNCHANGED <<clientClosed, unlimited, exc>>
        /\ exc # "oserror"
    BY <1>11 DEF ReadLeftover, StreamOK, client, inputVars, Send
  <2>2. /\ Answer(0, 0) \in Token /\ Answer(0, 0).kind = "head"
        /\ Answer(0, 0).of = 0 /\ Answer(0, 0).length = 0
    BY TokenFacts, ConnectionAssumption DEF Lengths
  <2>3. InOrder(out', unlimited)
    BY <1>1, <2>1, <2>2, Appends, LastWordSent
  <2>4. QED
    BY <2>1, <2>3, <1>11 DEF StreamOK
<1>12. CASE ReadEnd /\ ~clientClosed
  BY <1>12 DEF ReadEnd
<1>13. CASE Done /\ ~clientClosed
  BY <1>1, <1>13 DEF Done, StreamOK, client, response, inputVars
<1>14. CASE EndRead \/ EndReadAll \/ EndReadLine
  BY <1>2, <1>14 DEF EndRead, EndReadAll, EndReadLine, Takes, client, response
<1>15. CASE WriteFails /\ ~clientClosed
  BY <1>15 DEF WriteFails
<1>16. CASE Close /\ ~clientClosed
  <2>1. /\ pc = "closing" /\ AnswerOK /\ exc \in {"none", "error", "base"}
        /\ exc' \in {exc} \cup AppExceptions
        /\ pc' = IF exc' = "none" THEN "done" ELSE "except"
        /\ exc = "none" => headers_sent /\ curr_headers.length \in {None, written}
        /\ UNCHANGED <<clientClosed, out, current, close_connection, curr_headers,
                       headers_sent, written, unlimited>>
    BY <1>16 DEF Close, StreamOK, client, response, inputVars, OutputTypes
  <2>2. CASE exc' = "none"
    <3>1. exc = "none"
      BY <2>1, <2>2, ConnectionAssumption
    <3>2. /\ Ordered(out, current, unlimited) /\ LastIs(out, curr_headers.length, written)
          /\ curr_headers.length = None => close_connection
      BY <2>1, <3>1 DEF AnswerOK
    <3>3. ~close_connection => Complete(out)
      BY <2>1, <3>1, <3>2, LastComplete
    <3>4. QED
      BY <1>1, <1>16, <2>1, <2>2, <3>2, <3>3 DEF StreamOK
  <2>3. CASE exc' # "none"
    <3>1. exc' # "oserror"
      BY <2>1
    <3>2. AnswerOK'
      BY <2>1 DEF AnswerOK
    <3>3. QED
      BY <1>16, <2>1, <2>3, <3>1, <3>2 DEF StreamOK
  <2>4. QED
    BY <2>2, <2>3
<1>17. CASE ConnectionDrop /\ ~clientClosed
  BY <1>17 DEF ConnectionDrop, StreamOK
<1>18. CASE ServerError /\ ~clientClosed
  <2>1. /\ AnswerOK /\ pc' = "closed" /\ exc' = "none"
        /\ UNCHANGED <<clientClosed, current, unlimited>>
    BY <1>18 DEF ServerError, StreamOK, client, inputVars
  <2>2. CASE headers_sent
    BY <1>1, <1>18, <2>1, <2>2 DEF ServerError, StreamOK
  <2>3. CASE ~headers_sent
    <3>1. Ordered(out, current - 1, unlimited) /\ Complete(out)
          /\ out' = out \o <<Answer(current, 1), Chunk(current)>>
      BY <1>18, <2>1, <2>3 DEF ServerError, Send, AnswerOK
    <3>2. /\ Answer(current, 1) \in Token /\ Answer(current, 1).kind = "head"
          /\ Answer(current, 1).of = current /\ Answer(current, 1).length = 1
          /\ Chunk(current) \in Token /\ Chunk(current).kind = "chunk"
      <4>1. 1 \in Lengths
        BY ConnectionAssumption DEF Lengths
      <4>2. QED
        BY <1>1, <4>1, TokenFacts
    <3>3. PICK n : n = current - 1 /\ n + 1 = current
      BY <1>1
    <3>4. PICK first : first = Append(out, Answer(current, 1))
      OBVIOUS
    <3>5. Ordered(first, current, unlimited) /\ LastIs(first, 1, 0)
      BY <1>1, <3>1, <3>2, <3>3, <3>4, AnswerBegun
    <3>6. first \in Seq(Token)
      BY <1>1, <3>2, <3>4
    <3>7. out' = Append(first, Chunk(current))
      BY <1>1, <3>1, <3>2, <3>4, Appends
    <3>8. Ordered(out', current, unlimited) /\ LastIs(out', 1, 0 + 1)
      BY <3>2, <3>5, <3>6, <3>7, ChunkSent
    <3>9. out' \in Seq(Token)
      BY <3>2, <3>6, <3>7
    <3>10. InOrder(out', unlimited)
      BY <3>8, <3>9, OrderedInOrder
    <3>11. QED
      BY <2>1, <3>10 DEF StreamOK
  <2>4. QED
    BY <2>2, <2>3
<1>19. CASE PassBy /\ ~clientClosed
  BY <1>1, <1>19 DEF PassBy, StreamOK, client, response, inputVars
<1>20. CASE ClientStep
  <2>1. ASSUME NEW request \in Request, SendHead(request)
        PROVE  StreamOK'
    BY <1>2, <2>1 DEF SendHead, response, inputVars
  <2>2. CASE SendBody
    BY <1>2, <2>2 DEF SendBody, response, inputVars
  <2>3. CASE ClientCloses
    BY <1>1, <2>3 DEF ClientCloses, StreamOK, inputVars
  <2>4. QED
    BY <1>20, <2>1, <2>2, <2>3 DEF ClientStep
<1>21. CASE UNCHANGED vars
  BY <1>2, <1>21 DEF vars, client, response, inputVars
<1>22. ASSUME NEW size \in 0..MaxBody, BeginRead(size), ~clientClosed
       PROVE  StreamOK'
  BY <1>5, <1>22 DEF BeginRead, Send, client, response
<1>23. ASSUME NEW end \in {ToTheEnd, ToTheLineEnd}, BeginUnlimited(end), ~clientClosed
       PROVE  StreamOK'
  BY <1>5, <1>23 DEF BeginUnlimited, Send, client, response
<1>24. QED
  BY <1>3, <1>4, <1>6, <1>7, <1>8, <1>9, <1>10, <1>11, <1>12, <1>13, <1>14, <1>15, <1>16,
     <1>17, <1>18, <1>19, <1>20, <1>21, <1>22, <1>23 DEF Next, AppStep, ServerStep

-----------------------------------------------------------------------------
(* The types of the output.                                                *)

LEMMA FlagsKept ==
    ASSUME Flags, InputOK, [Next]_vars
    PROVE  Flags'
<1> USE DEF Flags
<1>1. CASE AppStep
  <2>1. ASSUME NEW n \in 0..1, Write(n)
        PROVE  Flags'
    BY <2>1, Zenon DEF Write, ChunkWritten, client, inputVars
  <2>2. CASE Stop
    BY <2>2, Zenon DEF Stop, ChunkWritten, client, inputVars, response
  <2>3. QED
    BY <1>1, <2>1, <2>2, Zenon DEF AppStep, StartResponse, BeginRead, BeginUnlimited,
       Raise, Return, client, inputVars, response
<1>2. CASE ReadHead
  <2>1. /\ UNCHANGED <<protocol11, clientClosed>> /\ headers_sent' = FALSE
        /\ close_connection' = ~(protocol11 /\ asked[incoming[1]].keep)
        /\ hooked' = asked[incoming[1]].expect
    BY <1>2, Zenon DEF ReadHead, client
  <2>2. asked[incoming[1]] \in Request
    <3>1. incoming[1] \in 1..Len(asked) /\ asked \in Seq(Request)
      BY <1>2, InputAfterReadHead DEF InputOK
    <3>2. QED
      BY <3>1
  <2>3. asked[incoming[1]].expect \in BOOLEAN
    BY <2>2 DEF Request
  <2>4. QED
    BY <2>1, <2>3, Zenon
<1>3. CASE ReadLeftover \/ ReadEnd \/ Done \/ EndRead \/ EndReadAll \/ EndReadLine
  BY <1>3, Zenon DEF ReadLeftover, ReadEnd, Done, EndRead, EndReadAll, EndReadLine, Takes,
     client, inputVars, response
<1>4. CASE WriteFails \/ Close \/ ConnectionDrop \/ ServerError \/ PassBy
  BY <1>4, Zenon DEF WriteFails, Close, ConnectionDrop, ServerError, PassBy, client,
     inputVars, response
<1>5. CASE ClientStep
  BY <1>5, Zenon DEF ClientStep, SendHead, SendBody, ClientCloses, inputVars, response
<1>6. CASE UNCHANGED vars
  BY <1>6, Zenon DEF vars, client, inputVars, response
<1>7. QED
  BY <1>1, <1>2, <1>3, <1>4, <1>5, <1>6 DEF Next, ServerStep

LEMMA OutputTypesKept ==
    ASSUME InputOK, OutputTypes, [Next]_vars
    PROVE  OutputTypes'
<1>1. current \in 0..MaxSent /\ out \in Seq(Token) /\ written \in Nat /\ MaxChunk >= 1
  BY InputTypes, ConnectionAssumption DEF InputOK, OutputTypes
<1>2. /\ \A tokens \in Seq(Token) : Send(tokens) => out' \in Seq(Token)
      /\ <<Continue(current)>> \in Seq(Token) /\ <<Chunk(current)>> \in Seq(Token)
      /\ <<Answer(0, 0)>> \in Seq(Token)
      /\ <<Answer(current, 1), Chunk(current)>> \in Seq(Token)
      /\ <<>> \in Seq(Token)
  <2>1. /\ Continue(current) \in Token /\ Chunk(current) \in Token
        /\ Answer(0, 0) \in Token /\ Answer(current, 1) \in Token
    <3>1. 0 \in Lengths /\ 1 \in Lengths /\ 0 \in 0..MaxSent
      BY ConnectionAssumption DEF Lengths
    <3>2. QED
      BY <1>1, <3>1, TokenFacts, ContinueFacts
  <2>2. \A tokens \in Seq(Token) : Send(tokens) => out' \in Seq(Token)
    BY <1>1 DEF Send
  <2>3. QED
    BY <2>1, <2>2
<1>3. ASSUME NEW n \in 0..1, NEW headers \in Headers, ChunkWritten(n, headers)
      PROVE  out' \in Seq(Token)
  <2>1. CASE clientClosed
    BY <1>1, <1>3, <2>1 DEF ChunkWritten, Send
  <2>2. CASE ~clientClosed
    <3>1. Answer(current, headers.length) \in Token /\ Chunk(current) \in Token
      BY <1>1, TokenFacts, HeaderFacts
    <3>2. CASE headers_sent
      <4>1. out' = out \/ out' = Append(out, Chunk(current))
        BY <1>1, <1>3, <2>2, <3>2, Written
      <4>2. QED
        BY <1>1, <3>1, <4>1
    <3>3. CASE ~headers_sent
      <4>1. PICK first : first = Append(out, Answer(current, headers.length))
        OBVIOUS
      <4>2. out' = first \/ out' = Append(first, Chunk(current))
        BY <1>1, <1>3, <2>2, <3>3, <4>1, Written
      <4>3. first \in Seq(Token)
        BY <1>1, <3>1, <4>1
      <4>4. QED
        BY <3>1, <4>2, <4>3
    <3>4. QED
      BY <3>2, <3>3
  <2>3. QED
    BY <2>1, <2>2
<1>4. ASSUME NEW headers \in Headers, StartResponse(headers)
      PROVE  OutputTypes'
  BY <1>4 DEF OutputTypes, StartResponse, client, inputVars
<1>5. ASSUME Send(IF hooked THEN <<Continue(current)>> ELSE <<>>),
             UNCHANGED <<pc, current, curr_headers, headers_sent, written, exc>>
      PROVE  OutputTypes'
  <2>1. out' \in Seq(Token)
    BY <1>2, <1>5
  <2>2. QED
    BY <1>5, <2>1 DEF OutputTypes
<1>6. ASSUME NEW n \in 0..1, Write(n)
      PROVE  OutputTypes'
  <2>1. curr_headers \in Headers /\ ChunkWritten(n, curr_headers)
        /\ UNCHANGED <<pc, current, curr_headers, exc>>
    BY <1>6 DEF Write, OutputTypes, client, inputVars
  <2>2. written + n <= MaxChunk
    BY <1>1, <1>6, <2>1, HeaderFacts, ConnectionAssumption DEF Write, Allowed, Lengths
  <2>3. written' = written + n /\ headers_sent'
    BY <2>1, Zenon DEF ChunkWritten
  <2>4. written' \in 0..MaxChunk
    BY <1>1, <2>2, <2>3, ConnectionAssumption
  <2>5. out' \in Seq(Token)
    BY <1>3, <2>1
  <2>6. QED
    BY <2>1, <2>3, <2>4, <2>5, HeaderFacts DEF OutputTypes
<1>7. ASSUME NEW kind \in AppExceptions, Raise(kind)
      PROVE  OutputTypes'
  BY <1>7, ConnectionAssumption DEF OutputTypes, Raise, Running, client, response, inputVars
<1>8. CASE Return
  BY <1>8 DEF OutputTypes, Return, Running, client, response, inputVars
<1>9. CASE Stop
  <2>1. CASE headers_sent \/ curr_headers = None
    BY <1>9, <2>1 DEF OutputTypes, Stop, client, response, inputVars
  <2>2. CASE ~headers_sent /\ curr_headers # None
    <3>1. curr_headers \in Headers /\ ChunkWritten(0, curr_headers) /\ pc' = "closing"
          /\ pc = "iterating" /\ UNCHANGED <<current, curr_headers, exc>>
      BY <1>9, <2>2 DEF Stop, OutputTypes
    <3>2. written' = written + 0 /\ headers_sent'
      BY <3>1, Zenon DEF ChunkWritten
    <3>3. out' \in Seq(Token)
      BY <1>3, <3>1
    <3>4. QED
      BY <1>1, <2>2, <3>1, <3>2, <3>3 DEF OutputTypes
  <2>3. QED
    BY <2>1, <2>2
<1>10. CASE ReadHead
  <2>1. current' \in 0..MaxSent
    BY <1>10, InputAfterReadHead, InputTypes, ConnectionAssumption DEF InputOK
  <2>2. current' # 0
    BY <1>10, InputAfterReadHead
  <2>3. <<Continue(current')>> \in Seq(Token)
    BY <2>1, ContinueFacts
  <2>4. out' \in Seq(Token)
    BY <1>2, <1>10, <2>3 DEF ReadHead
  <2>5. QED
    BY <1>10, <2>2, <2>4, ConnectionAssumption DEF OutputTypes, ReadHead, client
<1>11. CASE ReadLeftover
  <2>1. out' \in Seq(Token)
    BY <1>2, <1>11 DEF ReadLeftover
  <2>2. current # 0
    <3>1. SUFFICES ASSUME current = 0, InputInOrder PROVE FALSE
      BY DEF InputOK
    <3>2. Len(incoming) >= 1 /\ incoming[1] = 0 /\ unread = 0 /\ Len(incoming) \in Nat
      BY <1>11, <3>1, InputTypes DEF ReadLeftover, InputInOrder
    <3>3. CASE Len(asked) = 0
      BY <3>1, <3>2, <3>3, InputTypes DEF InputInOrder, Layout, End
    <3>4. CASE Len(asked) > 0
      <4>1. 1 \in (current + 1)..Len(asked)
        BY <3>1, <3>4, InputTypes
      <4>2. Present(incoming, Len(incoming), current, Len(asked))
        BY <3>1 DEF InputInOrder, Layout
      <4>3. PICK i \in 1..Len(incoming) : incoming[i] = 1
        BY <4>1, <4>2 DEF Present
      <4>4. i = 1
        BY <3>1, <3>2, <4>3 DEF InputInOrder, Layout, First
      <4>5. QED
        BY <3>2, <4>3, <4>4
    <3>5. QED
      BY <3>3, <3>4, InputTypes
  <2>3. QED
    BY <1>11, <2>1, <2>2 DEF OutputTypes, ReadLeftover, client, inputVars
<1>12. CASE ReadEnd \/ Done \/ EndRead \/ EndReadAll \/ EndReadLine
  BY <1>12 DEF OutputTypes, ReadEnd, Done, EndRead, EndReadAll, EndReadLine, Takes, client,
     response, inputVars
<1>13. CASE WriteFails
  BY <1>13 DEF OutputTypes, WriteFails, Running, client, inputVars
<1>14. CASE Close
  BY <1>14, ConnectionAssumption DEF OutputTypes, Close, client, response, inputVars
<1>15. CASE ConnectionDrop \/ PassBy
  BY <1>15 DEF OutputTypes, ConnectionDrop, PassBy, client, response, inputVars
<1>16. CASE ServerError
  <2>1. CASE headers_sent
    BY <1>16, <2>1 DEF OutputTypes, ServerError, client, inputVars, response
  <2>2. CASE ~headers_sent
    <3>1. out' \in Seq(Token)
      BY <1>2, <1>16, <2>2 DEF ServerError
    <3>2. ServerErrorHeaders \in Headers
      BY ConnectionAssumption DEF ServerErrorHeaders, Headers
    <3>3. ServerErrorHeaders # None
      BY <3>2, HeaderFacts
    <3>4. QED
      BY <1>1, <1>16, <2>2, <3>1, <3>2, <3>3 DEF OutputTypes, ServerError, client, inputVars
  <2>3. QED
    BY <2>1, <2>2
<1>17. CASE ClientStep
  BY <1>17 DEF OutputTypes, ClientStep, SendHead, SendBody, ClientCloses, response
<1>18. CASE UNCHANGED vars
  BY <1>18 DEF OutputTypes, vars, client, response
<1>19. ASSUME NEW size \in 0..MaxBody, BeginRead(size)
       PROVE  OutputTypes'
  BY <1>5, <1>19 DEF BeginRead, client, response
<1>20. ASSUME NEW end \in {ToTheEnd, ToTheLineEnd}, BeginUnlimited(end)
       PROVE  OutputTypes'
  BY <1>5, <1>20 DEF BeginUnlimited, client, response
<1>21. QED
  BY <1>4, <1>6, <1>7, <1>8, <1>9, <1>10, <1>11, <1>12, <1>13, <1>14, <1>15, <1>16,
     <1>17, <1>18, <1>19, <1>20 DEF Next, AppStep, ServerStep

-----------------------------------------------------------------------------

LEMMA InvInit == Init => ConnectionInv
<1>1. SUFFICES ASSUME Init PROVE ConnectionInv
  OBVIOUS
<1>2. InputOK
  BY <1>1, InputInit
<1>3. OutputTypes
  BY <1>1, ConnectionAssumption DEF Init, OutputTypes
<1>4. Flags
  BY <1>1, Zenon DEF Init, Flags
<1>5. QED
  BY <1>2, <1>3, <1>4 DEF ConnectionInv

LEMMA InvKept == ConnectionInv /\ [Next]_vars => ConnectionInv'
  BY InputKept, OutputTypesKept, FlagsKept DEF ConnectionInv

LEMMA StreamInit == Init => StreamOK
<1>1. SUFFICES ASSUME Init PROVE StreamOK
  OBVIOUS
<1>2. Heads(<<>>) = {}
  BY DEF Heads
<1>3. Ordered(<<>>, 0, unlimited) /\ Complete(<<>>)
  BY <1>2, FS_EmptySet DEF Ordered, Complete
<1>4. out = <<>> /\ current = 0 /\ pc = "request" /\ ~clientClosed /\ exc = "none"
  BY <1>1 DEF Init
<1>5. QED
  BY <1>3, <1>4 DEF StreamOK

\* A connection stays in the states of the invariant.
THEOREM ConnectionStays == Spec => []ConnectionInv
  BY InvInit, InvKept, PTL DEF Spec

\* The state of a connection, its stream and its request stays within its type.
THEOREM ConnectionTypes == Spec => []TypeOK
<1>1. ConnectionInv => TypeOK
  <2>1. SUFFICES ASSUME ConnectionInv PROVE TypeOK
    OBVIOUS
  <2>2. InputOK /\ OutputTypes /\ Flags
    BY <2>1 DEF ConnectionInv
  <2>3. out \in Seq([kind : {"continue", "head", "chunk"}, of : 0..MaxSent,
                     length : 0..MaxChunk \cup {None}])
    BY <2>2 DEF OutputTypes, Token
  <2>4. unread < 0 => unlimited
    BY <2>2, ConnectionAssumption DEF InputOK, InputInOrder
  <2>5. QED
    BY <2>2, <2>3, <2>4, Zenon DEF TypeOK, InputOK, OutputTypes, Flags
<1>2. QED
  BY <1>1, ConnectionStays, PTL

\* However the limited calls of read and readline follow each other, a request's body is
\* never read beyond its end.  With a call that nothing limits, a negative size or
\* readlines, the application may take what comes after it.
THEOREM ConnectionReadsItsOwn == Spec => []NothingBeyondTheBody
<1>1. ConnectionInv => NothingBeyondTheBody
  BY HeadsAhead DEF ConnectionInv
<1>2. QED
  BY <1>1, ConnectionStays, PTL

\* When no exception of the application is a socket.error, each answer is as long as it
\* says, and the answers come in the order of the requests unless an application has
\* read without a limit.
THEOREM ConnectionAnswersInOrder ==
    ASSUME "oserror" \notin AppExceptions
    PROVE  Spec => []AnswersInOrder
<1>1. Init => ConnectionInv /\ StreamOK
  BY InvInit, StreamInit
<1>2. ConnectionInv /\ StreamOK /\ [Next]_vars => (ConnectionInv /\ StreamOK)'
  BY InvKept, StreamKept DEF ConnectionInv
<1>3. ConnectionInv /\ StreamOK => AnswersInOrder
  BY StreamInOrder, InOrderIsTheProperty DEF ConnectionInv
<1>4. QED
  BY <1>1, <1>2, <1>3, PTL DEF Spec
=======
