---------------------------- MODULE ServicesProofs ----------------------------
(***************************************************************************)
(* Theorems about the components that answer a request, each from an          *)
(* inductive invariant of the component.  What they have in common comes      *)
(* first: sequences, and the elements of a sequence at some of its positions. *)
(***************************************************************************)
EXTENDS Services, FiniteSetTheorems, SequenceTheorems, TLAPS

LEMMA ElementsNone == ASSUME NEW s PROVE ElementsAt(s, {}) = <<>>
<1>1. Cardinality({}) = 0
  BY FS_EmptySet
<1>2. QED
  BY <1>1 DEF ElementsAt

LEMMA ElementsOne == ASSUME NEW s, NEW i \in Int PROVE ElementsAt(s, {i}) = <<s[i]>>
<1>1. Cardinality({i}) = 1
  BY FS_Singleton
<1>2. {j \in {i} : j <= i} = {i}
  OBVIOUS
<1>3. WithRank({i}, 1) = {i}
  BY <1>1, <1>2 DEF WithRank, Rank
<1>4. Nth({i}, 1) = i
  BY <1>3 DEF Nth, Pick
<1>5. ElementsAt(s, {i}) = [k \in 1 .. 1 |-> s[Nth({i}, k)]]
  BY <1>1 DEF ElementsAt
<1>6. QED
  BY <1>4, <1>5

LEMMA RankGrows ==
    ASSUME NEW P, IsFiniteSet(P), P \subseteq Nat, NEW u \in P, NEW v \in P, u < v
    PROVE  Rank(P, u) # Rank(P, v)
<1> DEFINE Upto == {j \in P : j <= u}
           V == {j \in P : j <= v}
<1>1. v \in V /\ v \notin Upto
  OBVIOUS
<1>2. \A j \in Upto : j \in V
  OBVIOUS
<1>3. V \subseteq P
  OBVIOUS
<1> HIDE DEF Upto, V
<1>4. Upto \subseteq V /\ Upto # V
  BY <1>1, <1>2
<1>5. IsFiniteSet(V)
  BY <1>3, FS_Subset
<1>6. Cardinality(Upto) # Cardinality(V)
  BY <1>4, <1>5, FS_Subset
<1>7. QED
  BY <1>6 DEF Rank, Upto, V

LEMMA SomeRank ==
    ASSUME NEW P, IsFiniteSet(P), P \subseteq Nat, NEW k \in 1 .. Cardinality(P),
           \A i \in P : Rank(P, i) \in 1 .. Cardinality(P)
    PROVE  \E i \in P : Rank(P, i) = k
<1>1. SUFFICES ASSUME \A i \in P : Rank(P, i) # k PROVE FALSE
  OBVIOUS
<1>2. Cardinality(P) \in Nat
  BY FS_CardinalityType
<1>3. PICK T : T = (1 .. Cardinality(P)) \ {k}
  OBVIOUS
<1>4. IsFiniteSet(T) /\ Cardinality(T) < Cardinality(P)
  <2>1. IsFiniteSet(1 .. Cardinality(P)) /\ Cardinality(1 .. Cardinality(P)) = Cardinality(P)
    BY <1>2, FS_Interval
  <2>2. IsFiniteSet(T) /\ Cardinality(T) = Cardinality(P) - 1
    BY <1>3, <2>1, FS_RemoveElement
  <2>3. QED
    BY <1>2, <2>2
<1>5. PICK f : f = [i \in P |-> Rank(P, i)]
  OBVIOUS
<1>6. f \in [P -> T]
  BY <1>1, <1>3, <1>5
<1>7. \E x, y \in P : x # y /\ f[x] = f[y]
  BY <1>4, <1>6, FS_PigeonHole
<1>8. \A x, y \in P : x # y => f[x] # f[y]
  <2>1. \A x, y \in P : x # y => x < y \/ y < x
    OBVIOUS
  <2>2. QED
    BY <2>1, <1>5, RankGrows
<1>9. QED
  BY <1>7, <1>8

IsSeq(s) == \E S : s \in Seq(S)

LEMMA AppendIsSeq == ASSUME NEW s, NEW x, IsSeq(s)
    PROVE /\ IsSeq(Append(s, x)) /\ Len(s) \in Nat /\ DOMAIN s = 1 .. Len(s)
          /\ DOMAIN Append(s, x) = 1 .. Len(s) + 1
          /\ Append(s, x)[Len(s) + 1] = x
          /\ \A n \in 1 .. Len(s) : Append(s, x)[n] = s[n]
<1>1. PICK S : s \in Seq(S)
  BY DEF IsSeq
<1>2. s \in Seq(S \cup {x})
  BY <1>1
<1>3. Append(s, x) \in Seq(S \cup {x})
  BY <1>2
<1>4. QED
  BY <1>1, <1>2, <1>3 DEF IsSeq

\* Positions of a sequence, and those of it with one more.
LEMMA RankIn ==
    ASSUME NEW P, IsFiniteSet(P), P \subseteq Nat, NEW i \in P
    PROVE  Rank(P, i) \in 1 .. Cardinality(P)
<1> DEFINE Upto == {j \in P : j <= i}
<1>1. Upto \subseteq P /\ i \in Upto
  OBVIOUS
<1>2. IsFiniteSet(Upto) /\ Cardinality(Upto) <= Cardinality(P)
  BY <1>1, FS_Subset
<1>3. Cardinality(Upto) # 0
  BY <1>1, <1>2, FS_EmptySet
<1>4. Cardinality(Upto) \in Nat /\ Cardinality(P) \in Nat
  BY <1>2, FS_CardinalityType
<1>5. QED
  BY <1>2, <1>3, <1>4 DEF Rank

LEMMA NthIn ==
    ASSUME NEW P, IsFiniteSet(P), P \subseteq Nat, NEW k \in 1 .. Cardinality(P)
    PROVE  Nth(P, k) \in P
<1>1. \E i \in P : Rank(P, i) = k
  BY RankIn, SomeRank
<1>2. WithRank(P, k) # {}
  BY <1>1 DEF WithRank
<1>3. Nth(P, k) \in WithRank(P, k)
  BY <1>2 DEF Nth, Pick
<1>4. QED
  BY <1>3 DEF WithRank

LEMMA PositionsFinite ==
    ASSUME NEW s, IsSeq(s), NEW P, P \in SUBSET DOMAIN s
    PROVE  IsFiniteSet(P) /\ P \subseteq Nat /\ Cardinality(P) \in Nat
<1>1. Len(s) \in Nat /\ P \subseteq 1 .. Len(s)
  BY AppendIsSeq
<1>2. IsFiniteSet(1 .. Len(s))
  BY <1>1, FS_Interval
<1>3. QED
  BY <1>1, <1>2, FS_Subset, FS_CardinalityType

LEMMA ElementsOld ==
    ASSUME NEW s, IsSeq(s), NEW x, NEW P, P \in SUBSET DOMAIN s
    PROVE  ElementsAt(Append(s, x), P) = ElementsAt(s, P)
<1>1. \A k \in 1 .. Cardinality(P) : Nth(P, k) \in P
  BY NthIn, PositionsFinite
<1>2. \A k \in 1 .. Cardinality(P) : Append(s, x)[Nth(P, k)] = s[Nth(P, k)]
  BY <1>1, AppendIsSeq
<1>3. QED
  BY <1>2 DEF ElementsAt

\* The ranks of positions, when one more comes behind them.
Grown(P, m, Q) ==
    IsFiniteSet(P) /\ P \subseteq Nat /\ m \in Nat /\ (\A i \in P : i < m) /\ Q = P \cup {m}

LEMMA CountMore ==
    ASSUME NEW P, NEW m, NEW Q, Grown(P, m, Q)
    PROVE  Cardinality(Q) = Cardinality(P) + 1 /\ Cardinality(P) \in Nat
<1>1. m \notin P
  BY DEF Grown
<1>2. QED
  BY <1>1, FS_AddElement, FS_CardinalityType DEF Grown

LEMMA RankSame ==
    ASSUME NEW P, NEW m, NEW Q, Grown(P, m, Q), NEW i \in P
    PROVE  Rank(Q, i) = Rank(P, i)
<1>1. {j \in Q : j <= i} = {j \in P : j <= i}
  BY DEF Grown
<1>2. QED
  BY <1>1 DEF Rank

LEMMA RankLast ==
    ASSUME NEW P, NEW m, NEW Q, Grown(P, m, Q)
    PROVE  Rank(Q, m) = Cardinality(P) + 1
<1>1. \A j \in Q : j <= m
  BY DEF Grown
<1>2. {j \in Q : j <= m} = Q
  BY <1>1
<1>3. QED
  BY <1>2, CountMore DEF Rank, Grown

LEMMA NthSame ==
    ASSUME NEW P, NEW m, NEW Q, Grown(P, m, Q),
           NEW k \in 1 .. Cardinality(P)
    PROVE  Nth(Q, k) = Nth(P, k)
<1>1. Rank(Q, m) = Cardinality(P) + 1 /\ Cardinality(P) \in Nat
  BY RankLast, CountMore
<1>2. \A i \in P : Rank(Q, i) = Rank(P, i)
  BY RankSame
<1>3. Rank(Q, m) # k
  BY <1>1
<1>4. Q = P \cup {m}
  BY DEF Grown
<1>5. WithRank(Q, k) = WithRank(P, k)
  BY <1>2, <1>3, <1>4 DEF WithRank
<1>6. QED
  BY <1>5 DEF Nth

LEMMA NthLast ==
    ASSUME NEW P, NEW m, NEW Q, Grown(P, m, Q)
    PROVE  Nth(Q, Cardinality(P) + 1) = m
<1>1. ASSUME NEW i \in P PROVE Rank(Q, i) # Cardinality(P) + 1
  <2>1. Rank(Q, i) = Rank(P, i)
    BY RankSame
  <2>2. Rank(P, i) \in 1 .. Cardinality(P)
    BY RankIn DEF Grown
  <2>3. QED
    BY <2>1, <2>2, CountMore
<1>2. WithRank(Q, Cardinality(P) + 1) = {m}
  BY <1>1, RankLast DEF WithRank, Grown
<1>3. QED
  BY <1>2 DEF Nth, Pick

\* v is s and x behind it, and Q the positions P and that of x.
OneMore(s, x, v, P, Q) ==
    IsSeq(s) /\ v = Append(s, x) /\ P \in SUBSET DOMAIN s /\ Q = P \cup {Len(s) + 1}

LEMMA ElementsNew ==
    ASSUME NEW s, NEW x, NEW v, NEW P, NEW Q, OneMore(s, x, v, P, Q)
    PROVE  ElementsAt(v, Q) = Append(ElementsAt(s, P), x)
<1> PICK m : m = Len(s) + 1
  OBVIOUS
<1> USE DEF OneMore
<1>1. /\ Len(s) \in Nat /\ m \in Nat /\ v[m] = x /\ P \subseteq 1 .. Len(s)
      /\ \A i \in P : v[i] = s[i] /\ i < m
  BY AppendIsSeq
<1>2. PICK c : c = Cardinality(P)
  OBVIOUS
<1>3. c \in Nat /\ IsFiniteSet(P) /\ P \subseteq Nat
  BY <1>2, PositionsFinite
<1>4. Cardinality(Q) = c + 1 /\ Nth(Q, c + 1) = m /\ \A k \in 1 .. c : Nth(Q, k) = Nth(P, k)
  <2>1. Grown(P, m, Q)
    BY <1>1, <1>3 DEF Grown
  <2>2. Cardinality(Q) = Cardinality(P) + 1
    BY <1>1, <1>3, <2>1, CountMore
  <2>3. Nth(Q, Cardinality(P) + 1) = m
    BY <1>1, <1>3, <2>1, NthLast
  <2>4. ASSUME NEW k \in 1 .. Cardinality(P) PROVE Nth(Q, k) = Nth(P, k)
    BY <1>1, <1>3, <2>1, <2>4, NthSame
  <2>5. QED
    BY <1>2, <2>2, <2>3, <2>4
<1>5. \A k \in 1 .. c : Nth(P, k) \in P
  BY <1>2, <1>3, NthIn
<1>6. PICK a, b : a = ElementsAt(s, P) /\ b = ElementsAt(v, Q)
  OBVIOUS
<1>7. a = [k \in 1 .. c |-> s[Nth(P, k)]]
  BY <1>2, <1>6 DEF ElementsAt
<1>8. b = [k \in 1 .. c + 1 |-> v[Nth(Q, k)]]
  BY <1>4, <1>6 DEF ElementsAt
<1>9. IsSeq(a) /\ Len(a) = c
  <2>1. PICK T : T = {s[Nth(P, k)] : k \in 1 .. c}
    OBVIOUS
  <2>2. \A k \in 1 .. c : s[Nth(P, k)] \in T
    BY <2>1
  <2>3. a \in Seq(T) /\ Len(a) = c
    BY <1>3, <1>7, <2>2
  <2>4. QED
    BY <2>3 DEF IsSeq
<1>10. \A k \in 1 .. c : k \in 1 .. c + 1 /\ b[k] = a[k]
  <2>1. \A k \in 1 .. c : k \in 1 .. c + 1
    BY <1>3
  <2>2. ASSUME NEW k \in 1 .. c PROVE b[k] = a[k]
    <3>1. b[k] = v[Nth(Q, k)] /\ a[k] = s[Nth(P, k)]
      BY <1>7, <1>8, <2>1
    <3>2. QED
      BY <1>1, <1>4, <1>5, <3>1
  <2>3. QED
    BY <2>1, <2>2
<1>11. b[c + 1] = x /\ b = [k \in 1 .. c + 1 |-> b[k]]
  <2>1. c + 1 \in 1 .. c + 1
    BY <1>3
  <2>2. b[c + 1] = v[m]
    BY <1>4, <1>8, <2>1
  <2>3. QED
    BY <1>1, <1>8, <2>2
<1>12. PICK w : w = Append(a, x)
  OBVIOUS
<1>13. DOMAIN w = 1 .. c + 1 /\ w[c + 1] = x /\ \A k \in 1 .. c : w[k] = a[k]
  BY <1>9, <1>12, AppendIsSeq
<1>14. \A k \in 1 .. c + 1 : w[k] = v[Nth(Q, k)]
  <2>1. \A k \in 1 .. c + 1 : k \in 1 .. c \/ k = c + 1
    BY <1>3
  <2>2. \A k \in 1 .. c + 1 : b[k] = w[k]
    BY <1>10, <1>11, <1>13, <2>1
  <2>3. QED
    BY <1>8, <2>2
<1>15. w = [k \in 1 .. c + 1 |-> w[k]]
  <2>1. PICK T : w \in Seq(T)
    BY <1>9, <1>12, AppendIsSeq DEF IsSeq
  <2>2. w = [k \in 1 .. Len(w) |-> w[k]] /\ Len(w) \in Nat /\ DOMAIN w = 1 .. Len(w)
    BY <2>1
  <2>3. QED
    BY <1>13, <2>2
<1>16. w = b
  BY <1>8, <1>14, <1>15
<1>17. QED
  BY <1>6, <1>12, <1>16

\* The elements at some positions are a list, with one for each position.
LEMMA ElementsIsSeq ==
    ASSUME NEW s, NEW P, Cardinality(P) \in Nat
    PROVE  IsSeq(ElementsAt(s, P)) /\ Len(ElementsAt(s, P)) = Cardinality(P)
<1>1. PICK a, c : a = ElementsAt(s, P) /\ c = Cardinality(P)
  OBVIOUS
<1>2. PICK T : T = {s[Nth(P, k)] : k \in 1 .. c}
  OBVIOUS
<1>3. \A k \in 1 .. c : s[Nth(P, k)] \in T
  BY <1>2
<1>4. a = [k \in 1 .. c |-> s[Nth(P, k)]]
  BY <1>1 DEF ElementsAt
<1>5. a \in Seq(T) /\ Len(a) = c
  BY <1>1, <1>3, <1>4
<1>6. QED
  BY <1>1, <1>5 DEF IsSeq

\* Each of them is one of s, at one of these positions.
LEMMA ElementsFrom ==
    ASSUME NEW s, IsSeq(s), NEW P, P \in SUBSET DOMAIN s
    PROVE  /\ IsSeq(ElementsAt(s, P)) /\ DOMAIN ElementsAt(s, P) = 1 .. Cardinality(P)
           /\ \A k \in DOMAIN ElementsAt(s, P) : \E i \in P : ElementsAt(s, P)[k] = s[i]
<1>1. \A k \in 1 .. Cardinality(P) : Nth(P, k) \in P
  BY NthIn, PositionsFinite
<1>2. Cardinality(P) \in Nat
  BY PositionsFinite
<1>3. QED
  BY <1>1, <1>2, ElementsIsSeq DEF ElementsAt

\* The element at the highest position is the last.
LEMMA HighestIsLast ==
    ASSUME NEW s, IsSeq(s), NEW P, P \in SUBSET DOMAIN s, NEW m \in P, \A i \in P : i <= m
    PROVE  ElementsAt(s, P)[Cardinality(P)] = s[m] /\ Cardinality(P) \in 1 .. Cardinality(P)
<1>1. IsFiniteSet(P) /\ P \subseteq Nat /\ Cardinality(P) \in Nat
  BY PositionsFinite
<1>2. {j \in P : j <= m} = P
  OBVIOUS
<1>3. Rank(P, m) = Cardinality(P)
  BY <1>2 DEF Rank
<1>4. Cardinality(P) \in 1 .. Cardinality(P)
  BY <1>1, <1>3, RankIn
<1>5. \A i \in P : i # m => Rank(P, i) # Rank(P, m)
  <2>1. \A i \in P : i # m => i < m
    BY <1>1
  <2>2. QED
    BY <1>1, <2>1, RankGrows
<1>6. WithRank(P, Cardinality(P)) = {m}
  BY <1>3, <1>5 DEF WithRank
<1>7. Nth(P, Cardinality(P)) = m
  BY <1>6 DEF Nth, Pick
<1>8. QED
  BY <1>4, <1>7 DEF ElementsAt

LEMMA NthRank ==
    ASSUME NEW P, IsFiniteSet(P), P \subseteq Nat, NEW k \in 1 .. Cardinality(P)
    PROVE  Rank(P, Nth(P, k)) = k
<1>1. \E i \in P : Rank(P, i) = k
  BY RankIn, SomeRank
<1>2. WithRank(P, k) # {}
  BY <1>1 DEF WithRank
<1>3. Nth(P, k) \in WithRank(P, k)
  BY <1>2 DEF Nth, Pick
<1>4. QED
  BY <1>3 DEF WithRank

DifferAt(s, P) == \A i, j \in P : s[i] = s[j] => i = j

\* No element is twice among them that is not twice in s.
LEMMA ElementsDiffer ==
    ASSUME NEW s, IsSeq(s), NEW P, P \in SUBSET DOMAIN s, NEW k \in 1 .. Cardinality(P), NEW l \in 1 .. Cardinality(P),
           DifferAt(s, P), ElementsAt(s, P)[k] = ElementsAt(s, P)[l]
    PROVE  k = l
<1>1. IsFiniteSet(P) /\ P \subseteq Nat
  BY PositionsFinite
<1>2. Nth(P, k) \in P /\ Nth(P, l) \in P
  BY <1>1, NthIn
<1>3. Nth(P, k) = Nth(P, l)
  BY <1>2 DEF ElementsAt, DifferAt
<1>4. Rank(P, Nth(P, k)) = k /\ Rank(P, Nth(P, l)) = l
  BY <1>1, NthRank
<1>5. QED
  BY <1>3, <1>4

LEMMA ListIsSeq == ASSUME NEW s, IsTuple(s) PROVE IsSeq(s) /\ DOMAIN s = 1 .. Len(s) /\ Len(s) \in Nat
<1>1. PICK T : T = {s[i] : i \in 1 .. Len(s)}
  OBVIOUS
<1>2. PICK n : n = Len(s)
  OBVIOUS
<1>3. n \in Nat /\ s = [i \in 1 .. n |-> s[i]]
  BY <1>2 DEF IsTuple
<1>4. s \in Seq(T)
  BY <1>1, <1>2, <1>3
<1>5. QED
  BY <1>2, <1>3, <1>4 DEF IsSeq

\* What the components call by these names is what is called so here.
LEMMA SameElements ==
    \A s, P : /\ B!ElementsAt(s, P) = ElementsAt(s, P)
             /\ E!ElementsAt(s, P) = ElementsAt(s, P)
             /\ X!ElementsAt(s, P) = ElementsAt(s, P)
<1>1. \A s, P : B!ElementsAt(s, P) = ElementsAt(s, P)
  BY DEF ElementsAt, Nth, WithRank, Rank, Pick, Cardinality,
         B!ElementsAt, B!Nth, B!WithRank, B!Rank, B!Pick, B!Cardinality
<1>2. \A s, P : E!ElementsAt(s, P) = ElementsAt(s, P)
  BY DEF ElementsAt, Nth, WithRank, Rank, Pick, Cardinality,
         E!ElementsAt, E!Nth, E!WithRank, E!Rank, E!Pick, E!Cardinality
<1>3. \A s, P : X!ElementsAt(s, P) = ElementsAt(s, P)
  BY DEF ElementsAt, Nth, WithRank, Rank, Pick, Cardinality,
         X!ElementsAt, X!Nth, X!WithRank, X!Rank, X!Pick, X!Cardinality
<1>4. QED
  BY <1>1, <1>2, <1>3
LEMMA SamePick == \A S : X!Pick(S) = Pick(S)
  BY DEF Pick, X!Pick

-----------------------------------------------------------------------------
(* FileApp: threads that share an object, which each of them fills in several *)
(* steps, during which the file changes, and which steps that fail leave half *)
(* filled.  What is told of an old copy is right unless a thread was disturbed. *)

Files == [version : Nat, size : Nat]

-----------------------------------------------------------------------------
(* What the file, the shared objects and the client's copy are.              *)

FileOK ==
    /\ versions \in Nat \ {0}
    /\ file # None => file \in Files /\ file.version = versions
    /\ store = "archive" => file # None

Apps == [last_modified : Nat, content : {None} \cup Files, content_length : {None} \cup Nat,
         header : {None} \cup Nat]

\* What an answer of this object says is not younger than what it sends.
Sound(a) ==
    /\ a.content # None => a.content.version >= a.last_modified
    /\ a.header = a.last_modified

AppOK(a) == a \in Apps /\ a.last_modified <= versions

\* An object for the member of an archive.
Filled(a) == Sound(a) /\ a.content # None /\ a.last_modified = versions

CopyOK(c) ==
    c # None /\ ~c.marred =>
        /\ c.version \in Nat /\ c.etag[1] \in Nat /\ c.modified \in {None} \cup Nat
        /\ c.version >= c.etag[1] /\ (c.modified # None => c.version >= c.modified)

-----------------------------------------------------------------------------
(* A request.                                                                *)

FileAsked == {"at", "mine", "seen"}

\* What the client asked; the file is not older than when it did.
AskedOK(r) ==
    /\ FileAsked \subseteq DOMAIN r
    /\ CopyOK(r.mine)
    /\ r.seen \in Nat /\ r.seen <= versions + 1
    /\ file # None => versions >= r.seen

\* While update assigns, whoever disturbs it.
Assignments ==
    ({"last_modified"} \X Nat) \cup ({"content"} \X ({None} \cup Files))
    \cup ({"content_length"} \X Nat) \cup ({"header"} \X Nat)

Assigns(r) ==
    /\ {"stat", "todo"} \subseteq DOMAIN r
    /\ r.stat # None => r.stat \in Files /\ r.stat.version <= versions
    /\ r.todo \in Seq(Assignments)
    /\ \A i \in DOMAIN r.todo : r.todo[i][1] = "last_modified" => r.todo[i][2] <= versions

\* What is left to assign makes the object sound, at any point of the list.
Completes(todo, a) ==
    /\ todo \in Seq(Assignments)
    /\ \A i \in DOMAIN todo :
          /\ todo[i][1] \in {"last_modified", "header"} => todo[i][2] = a.last_modified
          /\ todo[i][1] = "content" /\ todo[i][2] # None => todo[i][2].version >= a.last_modified
    /\ \/ \E i \in DOMAIN todo : todo[i][1] = "content"
       \/ a.content # None => a.content.version >= a.last_modified
    /\ \/ \E i \in DOMAIN todo : todo[i][1] = "header"
       \/ a.header = a.last_modified

\* While it assigns alone: first the time, then the rest.
AssignOK(r, a) ==
    \/ /\ r.stat # None /\ r.stat.version >= r.seen
       /\ \/ r.todo = <<<<"last_modified", r.stat.version>>>>
          \/ r.todo = <<>> /\ a.last_modified = r.stat.version
    \/ r.stat = None /\ Completes(r.todo, a) /\ a.last_modified >= r.seen

\* The body comes from memory or from a file that was opened after its time was looked at.
SourceOK(r, a) ==
    \/ a.content # None
    \/ "file" \in DOMAIN r /\ r.file \in Files /\ r.file.version >= a.last_modified

\* From FileApp.get on, undisturbed.
AnswerOK(r, a) ==
    /\ Sound(a) /\ a.last_modified >= r.seen
    /\ r.at # "open" /\ r.at # "notfound" => SourceOK(r, a)
    /\ r.at \in {"etag", "condition", "body"} =>
          "modified" \in DOMAIN r /\ r.modified = a.last_modified
    /\ r.at \in {"condition", "body"} =>
          "etag" \in DOMAIN r /\ r.etag = <<a.last_modified, a.content_length>>
    /\ r.at = "kept" => r.mine.marred \/ r.mine.version >= r.seen

Answering == {"open", "notfound", "modified", "etag", "condition", "body", "kept"}
Using == {"assign"} \cup Answering
Chosen == {"method", "stat"} \cup Using      \* there is an application
Unlooked == {"idle", "lookup", "make", "method", "stat"}

Filling(t, a) == thread[t].at = "assign" /\ thread[t].app = a

ThreadOK(t, r) ==
    /\ r.at \in Unlooked \cup Using
    /\ r.at # "idle" => AskedOK(r)
    /\ r.at \in Chosen => /\ "app" \in DOMAIN r /\ r.app \in FileThread /\ cached # None
                          /\ store = "archive" => Filled(app[r.app])
    /\ r.at \in {"stat", "assign"} => store # "archive"
    /\ r.at = "assign" => Assigns(r) /\ (t \notin torn => AssignOK(r, app[r.app]))
    /\ r.at \in Answering /\ t \notin torn /\ r.app \notin mixed => AnswerOK(r, app[r.app])

\* An object that seems up to date is sound; one that was left half filled does not.
WholeOK(a) ==
    a \notin mixed /\ (\A t \in FileThread : ~Filling(t, a)) /\ file # None
    /\ app[a].last_modified = versions => Sound(app[a])

\* Who makes an object has none that somebody uses.
MakesOK ==
    \A t, u \in FileThread :
        thread[t].at = "make" => cached # t /\ ~(thread[u].at \in Chosen /\ thread[u].app = t)

\* Who uses an object that another thread fills is torn, and what a torn one fills is mixed.
HistoryOK ==
    /\ \A t, u \in FileThread :
          t # u /\ thread[t].at \in Using /\ Filling(u, thread[t].app) => t \in torn
    /\ \A t \in FileThread \cap torn : thread[t].at = "assign" => thread[t].app \in mixed

FileAppInv ==
    /\ FileOK /\ CopyOK(copy) /\ cached \in {None} \cup FileThread
    /\ store = "archive" /\ cached # None => Filled(app[cached])
    /\ DOMAIN thread = FileThread /\ DOMAIN app = FileThread
    /\ MakesOK /\ HistoryOK
    /\ \A t \in FileThread : AppOK(app[t]) /\ WholeOK(t) /\ ThreadOK(t, thread[t])

-----------------------------------------------------------------------------
(* Records that get fields.                                                  *)

LEMMA Merged ==
    ASSUME NEW f, NEW r
    PROVE  /\ DOMAIN F!With(r, f) = DOMAIN f \cup DOMAIN r
           /\ \A k \in DOMAIN f : F!With(r, f)[k] = f[k]
           /\ \A k \in DOMAIN r \ DOMAIN f : F!With(r, f)[k] = r[k]
  BY DEF F!With

LEMMA StillAsked ==
    ASSUME NEW f, NEW r, AskedOK(r), DOMAIN f \cap FileAsked \subseteq {"at"}
    PROVE  /\ AskedOK(F!With(r, f))
           /\ F!With(r, f).seen = r.seen /\ F!With(r, f).mine = r.mine
<1>1. {"mine", "seen"} \subseteq DOMAIN r \ DOMAIN f
  BY DEF AskedOK, FileAsked
<1>2. FileAsked \subseteq DOMAIN F!With(r, f)
  BY Merged, ZenonT(60) DEF AskedOK
<1>3. F!With(r, f).seen = r.seen /\ F!With(r, f).mine = r.mine
  BY <1>1 DEF F!With
<1>4. QED
  BY <1>2, <1>3 DEF AskedOK

\* What a step keeps of a request that has an application.
LEMMA Carried ==
    ASSUME NEW f, NEW r, AskedOK(r), "app" \in DOMAIN r,
           DOMAIN f \cap (FileAsked \cup {"app"}) \subseteq {"at"}
    PROVE  LET s == F!With(r, f) IN
           /\ AskedOK(s) /\ "app" \in DOMAIN s /\ s.app = r.app
           /\ s.seen = r.seen /\ s.mine = r.mine
           /\ s.at = IF "at" \in DOMAIN f THEN f.at ELSE r.at
<1>1. AskedOK(F!With(r, f)) /\ F!With(r, f).seen = r.seen /\ F!With(r, f).mine = r.mine
  BY StillAsked
<1>2. "app" \in DOMAIN F!With(r, f) /\ F!With(r, f).app = r.app
  BY DEF F!With
<1>3. F!With(r, f).at = IF "at" \in DOMAIN f THEN f.at ELSE r.at
  BY DEF F!With, AskedOK, FileAsked
<1>4. QED
  BY <1>1, <1>2, <1>3

-----------------------------------------------------------------------------
(* What a step keeps of the other threads, and of the objects nobody fills.  *)

\* The history of a step: who was torn stays it while it uses its object, and only who
\* fills an object alone makes it whole.
LEMMA Overlapped ==
    ASSUME F!Overlaps
    PROVE  /\ HistoryOK'
           /\ \A t \in FileThread : thread'[t].at \in Using /\ t \in torn => t \in torn'
           /\ \A a \in mixed : a \notin mixed' =>
                 \E u \in FileThread \ torn : Filling(u, a) /\ thread'[u].at = "open"
<1>1. /\ torn' = {t \in FileThread : F!Uses(t)' /\ (t \in torn \/ F!Disturbed(t)')}
      /\ mixed' = (mixed \ {thread[t].app : t \in {u \in FileThread \ torn : F!At(u, "assign") /\ F!At(u, "open")'}})
                  \cup {thread'[t].app : t \in {u \in torn' : F!At(u, "assign")'}}
  BY DEF F!Overlaps
<1>2. \A t \in FileThread : F!Uses(t)' <=> thread'[t].at \in Using
  BY DEF F!Uses, Using, Answering
<1>3. \A t \in FileThread : thread'[t].at \in Using /\ t \in torn => t \in torn'
  BY <1>1, <1>2
<1>4. ASSUME NEW t \in FileThread, NEW u \in FileThread, t # u, thread'[t].at \in Using,
             Filling(u, thread[t].app)'
      PROVE  t \in torn'
  <2>1. F!Disturbed(t)'
    BY <1>4 DEF F!Disturbed, F!At, Filling
  <2>2. QED
    BY <1>1, <1>2, <1>4, <2>1
<1>5. ASSUME NEW t \in FileThread, t \in torn', thread'[t].at = "assign" PROVE thread'[t].app \in mixed'
  BY <1>1, <1>5 DEF F!At
<1>6. ASSUME NEW a \in mixed, a \notin mixed'
      PROVE  \E u \in FileThread \ torn : Filling(u, a) /\ thread'[u].at = "open"
  BY <1>1, <1>6 DEF F!At, Filling
<1>7. QED
  BY <1>3, <1>4, <1>5, <1>6 DEF HistoryOK

\* The file stays, or changes when it is not in an archive.
TimePasses ==
    /\ FileOK' /\ store' = store
    /\ \/ file' = file /\ versions' = versions
       \/ store # "archive" /\ versions' >= versions /\ (file' # None => versions' > versions)

LEMMA NoTimePasses == ASSUME FileAppInv, UNCHANGED <<store, file, versions>> PROVE TimePasses
  BY DEF TimePasses, FileAppInv, FileOK

\* Another thread than the one that takes the step, if one does: an object that changes
\* belongs to nobody else, or to threads that are torn.
LEMMA OthersStay ==
    ASSUME FileAppAssumed, FileAppInv, F!Overlaps, TimePasses, NEW t, NEW u \in FileThread \ {t}, NEW c,
           \A v \in FileThread \ {t} : thread'[v] = thread[v],
           \A b \in FileThread \ {c} : app'[b] = app[b],
           thread[u].at \in Chosen /\ thread[u].app = c =>
               app'[c] = app[c] \/ (store # "archive" /\ (thread[u].at \in Using => u \in torn)),
           cached # None => cached' # None
    PROVE  ThreadOK(u, thread[u])'
<1>1. thread'[u] = thread[u] /\ ThreadOK(u, thread[u]) /\ FileOK
  BY DEF FileAppInv
<1>2. thread[u].at # "idle" => AskedOK(thread[u])'
  BY <1>1 DEF ThreadOK, AskedOK, CopyOK, TimePasses, FileOK
<1>3. thread[u].at \in Chosen =>
          /\ "app" \in DOMAIN thread[u] /\ thread[u].app \in FileThread /\ cached' # None
          /\ store' = "archive" => Filled(app[thread[u].app])'
  BY <1>1 DEF ThreadOK, Filled, Sound, TimePasses
<1>4. thread[u].at \in {"stat", "assign"} => store' # "archive"
  BY <1>1 DEF ThreadOK, TimePasses
<1>5. ASSUME thread[u].at \in Using, u \notin torn' PROVE u \notin torn /\ app'[thread[u].app] = app[thread[u].app]
  BY <1>1, <1>3, <1>5, Overlapped DEF Chosen
<1>6. thread[u].at = "assign" => Assigns(thread[u])' /\ (u \notin torn' => AssignOK(thread[u], app[thread[u].app])')
  <2>1. ASSUME thread[u].at = "assign" PROVE Assigns(thread[u])'
    <3>1. Assigns(thread[u]) /\ versions <= versions'
      BY <1>1, <2>1 DEF ThreadOK, TimePasses, FileOK
    <3>2. \A n \in Nat : n <= versions => n <= versions'
      BY <1>1, <3>1 DEF FileOK, TimePasses
    <3>3. ASSUME NEW i \in DOMAIN thread[u].todo, thread[u].todo[i][1] = "last_modified"
          PROVE  thread[u].todo[i][2] <= versions'
      <4>1. thread[u].todo[i] \in Assignments /\ thread[u].todo[i][2] <= versions
        BY <3>1, <3>3, ElementOfSeq, LenProperties DEF Assigns
      <4>2. thread[u].todo[i][2] \in Nat
        BY <3>3, <4>1 DEF Assignments
      <4>3. QED
        BY <3>2, <4>1, <4>2
    <3>4. QED
      BY <1>1, <3>1, <3>2, <3>3 DEF Assigns, Files
  <2>2. ASSUME thread[u].at = "assign", u \notin torn' PROVE AssignOK(thread[u], app[thread[u].app])'
    BY <1>1, <1>5, <2>2 DEF ThreadOK, AssignOK, Using
  <2>3. QED
    BY <2>1, <2>2
<1>7. ASSUME thread[u].at \in Answering, u \notin torn', thread[u].app \notin mixed'
      PROVE  AnswerOK(thread[u], app[thread[u].app])'
  <2>1. u \notin torn /\ app'[thread[u].app] = app[thread[u].app]
    BY <1>5, <1>7 DEF Using
  <2>2. thread[u].app \notin mixed
    <3>1. SUFFICES ASSUME thread[u].app \in mixed PROVE FALSE
      OBVIOUS
    <3>2. PICK w \in FileThread \ torn : Filling(w, thread[u].app) /\ thread'[w].at = "open"
      BY <1>7, <3>1, Overlapped
    <3>3. w # u
      BY <1>7, <3>2 DEF Filling, Answering
    <3>4. QED
      BY <1>7, <2>1, <3>2, <3>3 DEF FileAppInv, HistoryOK, Using
  <2>3. QED
    BY <1>1, <1>7, <2>1, <2>2 DEF ThreadOK, AnswerOK, Sound, SourceOK
<1>8. QED
  BY <1>1, <1>2, <1>3, <1>4, <1>6, <1>7 DEF ThreadOK

\* An object that the step leaves alone: if it ends its filling, it is whole.
LEMMA WholeStays ==
    ASSUME FileAppInv, F!Overlaps, TimePasses, NEW t, NEW a \in FileThread, app'[a] = app[a],
           \A v \in FileThread \ {t} : thread'[v] = thread[v],
           t \in FileThread /\ Filling(t, a) /\ ~Filling(t, a)' /\ t \notin torn => file = None \/ Sound(app[a])
    PROVE  WholeOK(a)'
<1> SUFFICES ASSUME a \notin mixed', \A u \in FileThread : ~Filling(u, a)', file' # None,
                    app'[a].last_modified = versions'
             PROVE  Sound(app[a])'
  BY DEF WholeOK
<1>1. file' = file /\ versions' = versions
  BY DEF TimePasses, FileAppInv, AppOK, Apps, FileOK
<1>2. Sound(app[a]) => Sound(app[a])'
  BY DEF Sound
<1>3. CASE t \in FileThread /\ Filling(t, a)
  <2>1. CASE t \notin torn
    BY <1>1, <1>2, <1>3, <2>1
  <2>2. CASE t \in torn
    <3>1. a \in mixed
      BY <1>3, <2>2 DEF FileAppInv, HistoryOK, Filling
    <3>2. PICK w \in FileThread \ torn : Filling(w, a) /\ thread'[w].at = "open"
      BY <3>1, Overlapped
    <3>3. w \in FileThread \ {t} /\ thread'[w] = thread[w]
      BY <2>2, <3>2
    <3>4. QED
      BY <3>2, <3>3 DEF Filling
  <2>3. QED
    BY <2>1, <2>2
<1>4. CASE ~(t \in FileThread /\ Filling(t, a))
  <2>1. \A u \in FileThread : ~Filling(u, a)
    BY <1>4 DEF Filling
  <2>2. a \notin mixed
    BY <2>1, Overlapped
  <2>3. QED
    BY <1>1, <1>2, <2>1, <2>2 DEF FileAppInv, WholeOK
<1>5. QED
  BY <1>3, <1>4

\* A step of a thread that leaves the objects alone.
LEMMA Moves ==
    ASSUME FileAppAssumed, FileAppInv, F!Overlaps, NEW t \in FileThread, NEW r,
           UNCHANGED <<store, file, versions, app, cached>>, CopyOK(copy)',
           thread' = [thread EXCEPT ![t] = r],
           r.at \in Unlooked \cup Using,
           r.at # "idle" => AskedOK(r),
           r.at = "make" => cached = None,
           r.at \in Chosen => /\ "app" \in DOMAIN r /\ r.app \in FileThread /\ cached # None
                              /\ store = "archive" => Filled(app[r.app])
                              /\ r.app = cached \/ (thread[t].at \in Chosen /\ r.app = thread[t].app),
           r.at \in {"stat", "assign"} => store # "archive",
           r.at = "assign" => Assigns(r) /\ (t \notin torn => AssignOK(r, app[r.app])),
           r.at \in Answering /\ t \notin torn' /\ r.app \notin mixed' => AnswerOK(r, app[r.app]),
           thread[t].at = "assign" /\ t \notin torn =>
               \/ r.at = "assign" /\ r.app = thread[t].app
               \/ file = None \/ Sound(app[thread[t].app])
    PROVE  FileAppInv'
<1>1. /\ DOMAIN thread' = FileThread /\ thread'[t] = r /\ TimePasses
      /\ \A v \in FileThread \ {t} : thread'[v] = thread[v]
  BY NoTimePasses DEF FileAppInv
<1>2. ThreadOK(t, thread[t])'
  <2>1. r.at # "idle" => AskedOK(thread[t])'
    BY <1>1 DEF AskedOK, CopyOK
  <2>2. r.at = "assign" => Assigns(thread[t])' /\ (t \notin torn' => AssignOK(thread[t], app[thread[t].app])')
    BY <1>1, Overlapped DEF Assigns, AssignOK, Using
  <2>3. r.at \in Answering /\ t \notin torn' /\ r.app \notin mixed' => AnswerOK(thread[t], app[thread[t].app])'
    BY <1>1 DEF AnswerOK
  <2>4. r.at \in Chosen => /\ "app" \in DOMAIN r /\ r.app \in FileThread /\ cached' # None
                           /\ store' = "archive" => Filled(app[thread[t].app])'
    BY <1>1 DEF Filled
  <2>5. QED
    BY <1>1, <2>1, <2>2, <2>3, <2>4 DEF ThreadOK
<1>3. ASSUME NEW u \in FileThread PROVE ThreadOK(u, thread[u])'
  <2>1. CASE u = t
    BY <1>2, <2>1
  <2>2. CASE u # t
    BY <1>1, <2>2, OthersStay
  <2>3. QED
    BY <2>1, <2>2
<1>4. ASSUME NEW a \in FileThread PROVE AppOK(app[a])' /\ WholeOK(a)'
  <2>1. Filling(t, a) /\ ~Filling(t, a)' /\ t \notin torn => file = None \/ Sound(app[a])
    BY <1>1 DEF Filling
  <2>2. WholeOK(a)'
    BY <1>1, <2>1, WholeStays
  <2>3. QED
    BY <2>2 DEF FileAppInv, AppOK
<1>5. MakesOK'
  <2>1. \A u \in FileThread : thread[u].at \in Chosen => cached # None
    BY DEF FileAppInv, ThreadOK
  <2>2. ASSUME NEW u \in FileThread, NEW v \in FileThread, thread'[u].at = "make"
        PROVE  cached' # u /\ ~(thread'[v].at \in Chosen /\ thread'[v].app = u)
    BY <1>1, <2>1, <2>2 DEF FileAppInv, MakesOK, FileAppAssumed, Chosen, Using, Answering
  <2>3. QED
    BY <2>2 DEF MakesOK
<1>6. QED
  BY <1>1, <1>3, <1>4, <1>5, Overlapped DEF FileAppInv, FileOK, Filled

-----------------------------------------------------------------------------
(* The file and its requests.                                                *)

LEMMA FileInitHolds == ASSUME FileAppAssumed, F!FileInit PROVE FileAppInv
  BY DEF FileAppAssumed, F!FileInit, FileAppInv, FileOK, CopyOK, AppOK, ThreadOK, F!NewApp, F!Idle,
     Apps, Files, Unlooked, Using, Chosen, Answering, Sound, WholeOK, MakesOK, HistoryOK

LEMMA FileStep ==
    ASSUME FileAppAssumed, FileAppInv, F!Overlaps, F!FileChanges \/ F!FileRemoved PROVE FileAppInv'
<1>1. /\ UNCHANGED <<store, app, cached, thread, copy>> /\ store = "directory"
      /\ TimePasses
  <2>1. versions \in Nat \ {0}
    BY DEF FileAppInv, FileOK
  <2>2. CASE F!FileChanges
    <3>1. PICK size \in Sizes : file' = [version |-> versions + 1, size |-> size]
      BY <2>2 DEF F!FileChanges
    <3>2. versions + 1 \in Nat /\ size \in Nat
      BY <2>1 DEF FileAppAssumed
    <3>3. file' \in Files /\ file'.version = versions + 1
      BY <3>1, <3>2 DEF Files
    <3>4. QED
      BY <2>1, <2>2, <3>3 DEF F!FileChanges, FileOK, TimePasses
  <2>3. CASE F!FileRemoved
    BY <2>1, <2>3 DEF F!FileRemoved, FileOK, TimePasses
  <2>4. QED
    BY <2>2, <2>3
<1>2. None \notin FileThread
  BY DEF FileAppAssumed
<1>3. ASSUME NEW u \in FileThread PROVE ThreadOK(u, thread[u])'
  BY <1>1, <1>2, OthersStay
<1>4. ASSUME NEW a \in FileThread PROVE AppOK(app[a])' /\ WholeOK(a)'
  <2>1. WholeOK(a)'
    BY <1>1, <1>2, WholeStays
  <2>2. AppOK(app[a])'
    BY <1>1 DEF FileAppInv, AppOK, Apps, TimePasses, FileOK
  <2>3. QED
    BY <2>1, <2>2
<1>5. QED
  BY <1>1, <1>3, <1>4, Overlapped DEF FileAppInv, MakesOK, TimePasses, CopyOK

LEMMA Asks ==
    ASSUME FileAppAssumed, FileAppInv, F!Overlaps, NEW t \in FileThread, F!Ask(t) PROVE FileAppInv'
<1> DEFINE viewed == IF file = None THEN versions + 1 ELSE file.version
           r == [at |-> "lookup", mine |-> copy, seen |-> viewed]
<1>1. thread' = [thread EXCEPT ![t] = r] /\ UNCHANGED <<store, file, versions, app, cached, copy>>
      /\ thread[t].at = "idle"
  BY DEF F!Ask, F!At
<1>2. viewed \in Nat /\ viewed <= versions + 1 /\ (file # None => versions >= viewed)
  BY DEF FileAppInv, FileOK
<1>3. AskedOK(r)
  BY <1>2 DEF AskedOK, FileAsked, FileAppInv, CopyOK
<1>4. CopyOK(copy)'
  BY <1>1 DEF FileAppInv, CopyOK
<1>5. r.at = "lookup"
  OBVIOUS
<1> HIDE DEF r
<1>6. QED
  BY <1>1, <1>3, <1>4, <1>5, Moves DEF Unlooked, Using, Chosen, Answering

\* A request is over.
LEMMA Replies ==
    ASSUME FileAppAssumed, FileAppInv, F!Overlaps, NEW t \in FileThread,
           thread' = [thread EXCEPT ![t] = F!Idle],
           UNCHANGED <<store, file, versions, app, cached>>, CopyOK(copy)',
           thread[t].at # "assign" \/ file = None
    PROVE  FileAppInv'
<1>1. F!Idle.at = "idle"
  BY DEF F!Idle
<1> DEFINE r == F!Idle
<1> HIDE DEF r
<1>2. r.at = "idle" /\ thread' = [thread EXCEPT ![t] = r]
  BY <1>1 DEF r
<1>3. QED
  BY <1>2, Moves DEF Unlooked, Using, Chosen, Answering

LEMMA LookedUp ==
    ASSUME FileAppAssumed, FileAppInv, F!Overlaps, NEW t \in FileThread, F!Lookup(t) PROVE FileAppInv'
<1>1. /\ ThreadOK(t, thread[t]) /\ thread[t].at = "lookup"
      /\ UNCHANGED <<store, file, versions, app, cached, copy>>
  BY DEF FileAppInv, F!Lookup, F!At
<1>2. AskedOK(thread[t]) /\ CopyOK(copy)'
  BY <1>1 DEF ThreadOK, FileAppInv, CopyOK
<1>3. CASE cached = None
  <2> DEFINE f == [at |-> "make"]
             r == F!With(thread[t], f)
  <2>1. AskedOK(r) /\ r.at = "make"
    BY <1>2, StillAsked, Merged, ZenonT(60)
  <2>2. thread' = [thread EXCEPT ![t] = r]
    BY <1>3 DEF F!Lookup, F!Goto, F!Become
  <2> HIDE DEF r
  <2>3. QED
    BY <1>1, <1>2, <1>3, <2>1, <2>2, Moves DEF Unlooked, Using, Chosen, Answering
<1>4. CASE cached # None
  <2> DEFINE f == [at |-> "method", app |-> cached]
             r == F!With(thread[t], f)
  <2>1. cached \in FileThread /\ (store = "archive" => Filled(app[cached]))
    BY <1>4 DEF FileAppInv
  <2>2. AskedOK(r)
    BY <1>2, StillAsked DEF FileAsked
  <2>3. r.at = "method" /\ r.app = cached /\ "app" \in DOMAIN r
    BY Merged, ZenonT(60)
  <2>4. thread' = [thread EXCEPT ![t] = r]
    BY <1>4 DEF F!Lookup, F!Become
  <2> HIDE DEF r
  <2>5. QED
    BY <1>1, <1>2, <1>4, <2>1, <2>2, <2>3, <2>4, Moves DEF Unlooked, Using, Chosen, Answering
<1>5. QED
  BY <1>3, <1>4

LEMMA FileMade ==
    ASSUME FileAppAssumed, FileAppInv, F!Overlaps, NEW t \in FileThread, F!Make(t) PROVE FileAppInv'
<1> DEFINE f == [at |-> "method", app |-> t]
           r == F!With(thread[t], f)
           a == IF store = "directory" THEN F!NewApp
                ELSE [last_modified |-> file.version, content |-> file,
                      content_length |-> file.size, header |-> file.version]
<1>1. ThreadOK(t, thread[t]) /\ thread[t].at = "make"
  BY DEF FileAppInv, F!Make, F!At
<1>2. /\ file \in Files /\ file.version = versions /\ versions \in Nat \ {0}
      /\ DOMAIN app = FileThread /\ DOMAIN thread = FileThread
  BY DEF FileAppInv, FileOK, F!Make
<1>3. /\ app' = [app EXCEPT ![t] = a] /\ cached' = t /\ thread' = [thread EXCEPT ![t] = r]
      /\ UNCHANGED <<store, file, versions, copy>> /\ TimePasses
  BY NoTimePasses DEF F!Make, F!Become
<1>4. AskedOK(r)
  BY <1>1, StillAsked DEF ThreadOK, FileAsked
<1>5. r.at = "method" /\ r.app = t /\ "app" \in DOMAIN r
  BY Merged
<1>6. /\ a \in Apps /\ a.last_modified <= versions
      /\ a.last_modified = versions => Sound(a)
      /\ store = "archive" => Sound(a) /\ a.content # None /\ a.last_modified = versions
  BY <1>2 DEF F!NewApp, Apps, Sound, Files, F!Make, FileAppAssumed
<1> HIDE DEF a, r
<1>7. /\ app'[t] = a /\ thread'[t] = r /\ t # None
      /\ \A v \in FileThread \ {t} : thread'[v] = thread[v] /\ app'[v] = app[v]
  BY <1>2, <1>3 DEF FileAppAssumed
<1>8. Filled(app[t])' \/ store' # "archive"
  BY <1>3, <1>6, <1>7 DEF Filled, Sound
<1>9. ASSUME NEW u \in FileThread PROVE ThreadOK(u, thread[u])'
  <2>1. CASE u = t
    <3>1. AskedOK(thread[u])'
      BY <1>3, <1>4, <1>7, <2>1 DEF AskedOK, CopyOK
    <3>2. QED
      BY <1>3, <1>5, <1>7, <1>8, <2>1, <3>1 DEF ThreadOK, Unlooked, Using, Chosen, Answering
  <2>2. CASE u # t
    <3>1. ~(thread[u].at \in Chosen /\ thread[u].app = t)
      BY <1>1 DEF FileAppInv, MakesOK
    <3>2. QED
      BY <1>3, <1>7, <2>2, <3>1, OthersStay
  <2>3. QED
    BY <2>1, <2>2
<1>10. ASSUME NEW b \in FileThread PROVE AppOK(app[b])' /\ WholeOK(b)'
  <2>1. CASE b = t
    BY <1>3, <1>6, <1>7, <2>1 DEF AppOK, WholeOK, Sound
  <2>2. CASE b # t
    <3>1. ~Filling(t, b)
      BY <1>1 DEF Filling
    <3>2. WholeOK(b)'
      BY <1>3, <1>7, <2>2, <3>1, WholeStays
    <3>3. QED
      BY <1>3, <1>7, <2>2, <3>2 DEF FileAppInv, AppOK
  <2>3. QED
    BY <2>1, <2>2
<1>11. MakesOK'
  <2>1. ASSUME NEW u \in FileThread, NEW v \in FileThread, thread'[u].at = "make"
        PROVE  cached' # u /\ ~(thread'[v].at \in Chosen /\ thread'[v].app = u)
    BY <1>3, <1>5, <1>7, <2>1 DEF FileAppInv, MakesOK
  <2>2. QED
    BY <2>1 DEF MakesOK
<1>12. QED
  BY <1>2, <1>3, <1>8, <1>9, <1>10, <1>11, Overlapped DEF FileAppInv, FileOK, CopyOK

-----------------------------------------------------------------------------
(* Requests that have an application.                                        *)

Alone(t) == \A u \in FileThread \ {t} : ~Filling(u, thread[t].app)

\* A step of such a request that leaves the objects alone.
LEMMA Continues ==
    ASSUME FileAppAssumed, FileAppInv, F!Overlaps, NEW t \in FileThread, NEW f,
           UNCHANGED <<store, file, versions, app, cached, copy>>,
           thread[t].at \in Chosen, F!Become(t, f),
           DOMAIN f \cap (FileAsked \cup {"app"}) \subseteq {"at"},
           NEW r, r = F!With(thread[t], f), r.at \in Chosen \ {"method"},
           r.at \in {"stat", "assign"} => store # "archive",
           r.at = "assign" => Assigns(r) /\ (t \notin torn => AssignOK(r, app[thread[t].app])),
           r.at \in Answering /\ t \notin torn /\ Alone(t)
             /\ (thread[t].at # "assign" => thread[t].app \notin mixed) => AnswerOK(r, app[thread[t].app]),
           thread[t].at = "assign" /\ t \notin torn /\ r.at # "assign" => Sound(app[thread[t].app])
    PROVE  FileAppInv'
<1>1. /\ ThreadOK(t, thread[t]) /\ thread' = [thread EXCEPT ![t] = r] /\ CopyOK(copy)'
      /\ DOMAIN thread = FileThread
  BY DEF FileAppInv, F!Become, CopyOK
<1>2. /\ AskedOK(thread[t]) /\ "app" \in DOMAIN thread[t] /\ thread[t].app \in FileThread /\ cached # None
      /\ store = "archive" => Filled(app[thread[t].app])
  BY <1>1 DEF ThreadOK, Chosen, Using, Answering
<1>3. AskedOK(r) /\ "app" \in DOMAIN r /\ r.app = thread[t].app
  BY <1>2, Carried
<1>4. ASSUME r.at \in Answering, t \notin torn', r.app \notin mixed' PROVE AnswerOK(r, app[r.app])
  <2>1. thread'[t] = r /\ \A v \in FileThread \ {t} : thread'[v] = thread[v]
    BY <1>1
  <2>2. t \notin torn
    BY <1>4, <2>1, Overlapped DEF Using
  <2>3. Alone(t)
    <3>1. SUFFICES ASSUME NEW u \in FileThread \ {t}, Filling(u, thread[t].app) PROVE FALSE
      BY DEF Alone
    <3>2. Filling(u, thread[t].app)'
      BY <1>3, <2>1, <3>1 DEF Filling
    <3>3. QED
      BY <1>4, <2>1, <3>1, <3>2, Overlapped DEF HistoryOK, Using
  <2>4. thread[t].at # "assign" => thread[t].app \notin mixed
    <3>1. SUFFICES ASSUME thread[t].at # "assign", thread[t].app \in mixed PROVE FALSE
      OBVIOUS
    <3>2. PICK w \in FileThread \ torn : Filling(w, thread[t].app) /\ thread'[w].at = "open"
      BY <1>3, <1>4, <3>1, Overlapped
    <3>3. QED
      BY <2>1, <3>1, <3>2 DEF Filling
  <2>5. QED
    BY <1>3, <1>4, <2>2, <2>3, <2>4
<1>5. thread[t].at = "assign" /\ t \notin torn =>
          \/ r.at = "assign" /\ r.app = thread[t].app
          \/ file = None \/ Sound(app[thread[t].app])
  BY <1>3
<1>6. r.at \in Unlooked \cup Using /\ r.at \notin {"idle", "make"}
  BY DEF Chosen, Using, Unlooked, Answering
<1>7. /\ "app" \in DOMAIN r /\ r.app \in FileThread /\ cached # None
      /\ store = "archive" => Filled(app[r.app])
      /\ thread[t].at \in Chosen /\ r.app = thread[t].app
      /\ r.at = "assign" => Assigns(r) /\ (t \notin torn => AssignOK(r, app[r.app]))
  BY <1>2, <1>3
<1>8. QED
  BY <1>1, <1>3, <1>4, <1>5, <1>6, <1>7, Moves

LEMMA MethodChosen ==
    ASSUME FileAppAssumed, FileAppInv, F!Overlaps, NEW t \in FileThread, F!Method(t) PROVE FileAppInv'
<1>1. ThreadOK(t, thread[t]) /\ thread[t].at = "method"
  BY DEF FileAppInv, F!Method, F!At
<1>2. PICK method \in FileMethods :
          \/ /\ F!Become(t, [at |-> F!Begin, method |-> method])
             /\ UNCHANGED <<store, file, versions, app, cached, copy>>
          \/ F!Answer(t, 405)
  BY DEF F!Method
<1>3. CASE F!Answer(t, 405)
  BY <1>1, <1>3, Replies DEF F!Answer, FileAppInv, CopyOK
<1>4. CASE /\ F!Become(t, [at |-> F!Begin, method |-> method])
           /\ UNCHANGED <<store, file, versions, app, cached, copy>>
  <2> DEFINE f == [at |-> F!Begin, method |-> method]
             r == F!With(thread[t], f)
             a == app[thread[t].app]
  <2>1. /\ AskedOK(thread[t]) /\ "app" \in DOMAIN thread[t]
        /\ store = "archive" => Filled(a) /\ file # None
    BY <1>1 DEF ThreadOK, Chosen, FileAppInv, FileOK
  <2>2. r.seen = thread[t].seen /\ r.at = F!Begin
    BY <2>1, Carried DEF FileAsked
  <2>3. CASE store = "archive"
    <3>1. r.at = "modified"
      BY <2>2, <2>3 DEF F!Begin
    <3>2. AnswerOK(r, a)
      BY <2>1, <2>2, <2>3, <3>1 DEF AnswerOK, SourceOK, Filled, AskedOK
    <3> HIDE DEF r
    <3>3. r = F!With(thread[t], f) /\ DOMAIN f \cap (FileAsked \cup {"app"}) \subseteq {"at"}
      BY DEF r, FileAsked
    <3>4. QED
      BY <1>1, <1>4, <3>1, <3>2, <3>3, Continues DEF Chosen, Using, Answering
  <2>4. CASE store # "archive"
    <3>1. r.at = "stat"
      BY <2>2, <2>4 DEF F!Begin
    <3> HIDE DEF r
    <3>2. r = F!With(thread[t], f) /\ DOMAIN f \cap (FileAsked \cup {"app"}) \subseteq {"at"}
      BY DEF r, FileAsked
    <3>3. QED
      BY <1>1, <1>4, <2>4, <3>1, <3>2, Continues DEF Chosen, Using, Answering
  <2>5. QED
    BY <2>3, <2>4
<1>5. QED
  BY <1>2, <1>3, <1>4

LEMMA StatDone ==
    ASSUME FileAppAssumed, FileAppInv, F!Overlaps, NEW t \in FileThread, F!Stat(t) PROVE FileAppInv'
<1> DEFINE a == app[thread[t].app]
<1>1. ThreadOK(t, thread[t]) /\ thread[t].at = "stat"
  BY DEF FileAppInv, F!Stat, F!At
<1>2. CASE file = None
  BY <1>1, <1>2, Replies DEF F!Stat, F!Answer, FileAppInv, CopyOK
<1>3. CASE file # None
  <2>1. /\ AskedOK(thread[t]) /\ "app" \in DOMAIN thread[t] /\ thread[t].app \in FileThread
        /\ store # "archive" /\ versions >= thread[t].seen
        /\ file \in Files /\ file.version = versions /\ versions \in Nat
    BY <1>1, <1>3 DEF ThreadOK, Chosen, AskedOK, FileAppInv, FileOK
  <2>2. ASSUME F!UpToDate(t), F!Goto(t, "open"), UNCHANGED <<store, file, versions, app, cached, copy>>
        PROVE  FileAppInv'
    <3> DEFINE f == [at |-> "open"]
               r == F!With(thread[t], f)
    <3>1. r.seen = thread[t].seen /\ r.at = "open"
      BY <2>1, Carried DEF FileAsked
    <3>2. a.last_modified = versions
      BY <2>1, <2>2 DEF F!UpToDate, F!My
    <3>3. Alone(t) => \A u \in FileThread : ~Filling(u, thread[t].app)
      BY <1>1 DEF Alone, Filling
    <3>4. Alone(t) /\ thread[t].app \notin mixed => Sound(a)
      BY <1>3, <2>1, <3>2, <3>3 DEF FileAppInv, WholeOK
    <3>5. Alone(t) /\ thread[t].app \notin mixed => AnswerOK(r, a)
      BY <2>1, <3>1, <3>2, <3>4 DEF AnswerOK
    <3> HIDE DEF r
    <3>6. r = F!With(thread[t], f) /\ DOMAIN f \cap (FileAsked \cup {"app"}) \subseteq {"at"}
      BY DEF r, FileAsked
    <3>7. QED
      BY <1>1, <2>2, <3>1, <3>5, <3>6, Continues DEF Chosen, Using, Answering, F!Goto
  <2>3. ASSUME F!Become(t, [at |-> "assign", stat |-> file, todo |-> <<<<"last_modified", file.version>>>>]),
               UNCHANGED <<store, file, versions, app, cached, copy>>
        PROVE  FileAppInv'
    <3> DEFINE left == <<<<"last_modified", file.version>>>>
               f == [at |-> "assign", stat |-> file, todo |-> left]
               r == F!With(thread[t], f)
    <3>1. r.seen = thread[t].seen /\ r.at = "assign"
      BY <2>1, Carried DEF FileAsked
    <3>2. {"stat", "todo"} \subseteq DOMAIN r /\ r.stat = file /\ r.todo = left
      BY DEF F!With
    <3>3. left \in Seq(Assignments) /\ DOMAIN left = {1} /\ left[1] = <<"last_modified", versions>>
      <4>1. <<"last_modified", file.version>> \in Assignments
        BY <2>1 DEF Assignments
      <4>2. QED
        BY <2>1, <4>1
    <3>4. Assigns(r)
      <4> HIDE DEF r, left
      <4>1. QED
        BY <2>1, <3>2, <3>3 DEF Assigns
    <3>5. AssignOK(r, a)
      BY <1>3, <2>1, <3>1, <3>2 DEF AssignOK
    <3> HIDE DEF r
    <3>6. r = F!With(thread[t], f) /\ DOMAIN f \cap (FileAsked \cup {"app"}) \subseteq {"at"}
      BY DEF r, FileAsked
    <3>7. QED
      BY <1>1, <2>1, <2>3, <3>1, <3>4, <3>5, <3>6, Continues DEF Chosen, Using, Answering
  <2>4. QED
    BY <1>3, <2>2, <2>3 DEF F!Stat
<1>4. QED
  BY <1>2, <1>3

\* One assignment less to do, and the object that much further.
LEMMA OneLess ==
    ASSUME NEW a \in Apps, NEW todo, Completes(todo, a), todo # <<>>
    PROVE  LET b == [a EXCEPT ![Head(todo)[1]] = Head(todo)[2]] IN
           b \in Apps /\ b.last_modified = a.last_modified /\ Completes(Tail(todo), b)
<1> DEFINE x == Head(todo)
           b == [a EXCEPT ![x[1]] = x[2]]
<1>1. /\ todo \in Seq(Assignments) /\ Len(todo) \in Nat /\ DOMAIN todo = 1..Len(todo)
      /\ Len(todo) > 0 /\ x = todo[1] /\ x \in Assignments
  BY LenProperties, EmptySeq, ElementOfSeq, HeadTailProperties DEF Completes
<1>2. /\ Tail(todo) \in Seq(Assignments) /\ DOMAIN Tail(todo) = 1..(Len(todo) - 1)
      /\ \A i \in 1..(Len(todo) - 1) : Tail(todo)[i] = todo[i + 1]
  <2>1. /\ Tail(todo) \in Seq(Assignments) /\ Len(Tail(todo)) = Len(todo) - 1
        /\ \A i \in 1..Len(Tail(todo)) : Tail(todo)[i] = todo[i + 1]
    BY <1>1, HeadTailProperties DEF Completes
  <2>2. QED
    BY <2>1, LenProperties
<1>3. /\ x[1] \in {"last_modified", "header"} => x[2] = a.last_modified
      /\ x[1] = "content" /\ x[2] # None => x[2].version >= a.last_modified
  BY <1>1 DEF Completes
<1>4. b \in Apps /\ b.last_modified = a.last_modified
  <2>1. CASE x[1] = "last_modified" /\ x[2] \in Nat
    BY <1>3, <2>1 DEF Apps
  <2>2. CASE x[1] = "content" /\ x[2] \in {None} \cup Files
    BY <2>2 DEF Apps
  <2>3. CASE x[1] \in {"content_length", "header"} /\ x[2] \in Nat
    BY <2>3 DEF Apps
  <2>4. QED
    BY <1>1, <2>1, <2>2, <2>3 DEF Assignments
<1>5. /\ b.content = IF x[1] = "content" THEN x[2] ELSE a.content
      /\ b.header = IF x[1] = "header" THEN x[2] ELSE a.header
  BY DEF Apps
<1> HIDE DEF b, x
<1>6. ASSUME NEW name, NEW i \in DOMAIN todo, todo[i][1] = name, x[1] # name
      PROVE  \E j \in DOMAIN Tail(todo) : Tail(todo)[j][1] = name
  <2>1. i # 1
    BY <1>1, <1>6
  <2>2. i - 1 \in 1..(Len(todo) - 1) /\ (i - 1) + 1 = i
    BY <1>1, <2>1
  <2>3. QED
    BY <1>2, <1>6, <2>2
<1>7. ASSUME NEW j \in DOMAIN Tail(todo) PROVE j + 1 \in DOMAIN todo /\ Tail(todo)[j] = todo[j + 1]
  BY <1>1, <1>2
<1>8. /\ \/ \E j \in DOMAIN Tail(todo) : Tail(todo)[j][1] = "content"
         \/ b.content # None => b.content.version >= b.last_modified
      /\ \/ \E j \in DOMAIN Tail(todo) : Tail(todo)[j][1] = "header"
         \/ b.header = b.last_modified
  BY <1>3, <1>4, <1>5, <1>6 DEF Completes
<1>9. \A j \in DOMAIN Tail(todo) :
          /\ Tail(todo)[j][1] \in {"last_modified", "header"} => Tail(todo)[j][2] = b.last_modified
          /\ Tail(todo)[j][1] = "content" /\ Tail(todo)[j][2] # None =>
                 Tail(todo)[j][2].version >= b.last_modified
  BY <1>4, <1>7 DEF Completes
<1>10. Completes(Tail(todo), b)
  BY <1>2, <1>8, <1>9 DEF Completes
<1>11. QED
  BY <1>4, <1>10 DEF b, x

\* Lists of things to assign that complete an object with this time.
LEMMA ListsComplete ==
    ASSUME FileAppAssumed, NEW a, NEW content \in {None} \cup Files, NEW length \in Nat, a.last_modified \in Nat,
           content # None => content.version >= a.last_modified
    PROVE  /\ Completes(<<<<"content", content>>, <<"content_length", length>>,
                          <<"header", a.last_modified>>>>, a)
           /\ Completes(<<<<"last_modified", a.last_modified>>, <<"content", content>>,
                          <<"content_length", length>>, <<"header", a.last_modified>>>>, a)
<1> DEFINE time == a.last_modified
           short == <<<<"content", content>>, <<"content_length", length>>, <<"header", time>>>>
           long == <<<<"last_modified", time>>, <<"content", content>>,
                     <<"content_length", length>>, <<"header", time>>>>
<1>1. /\ <<"last_modified", time>> \in Assignments /\ <<"content", content>> \in Assignments
      /\ <<"content_length", length>> \in Assignments /\ <<"header", time>> \in Assignments
  BY DEF Assignments
<1>2. short \in Seq(Assignments) /\ long \in Seq(Assignments)
  BY <1>1
<1>3. DOMAIN short = 1..3 /\ DOMAIN long = 1..4
  OBVIOUS
<1>4. short[1][1] = "content" /\ short[3][1] = "header" /\ long[2][1] = "content" /\ long[4][1] = "header"
  OBVIOUS
<1>5. ASSUME NEW todo \in {short, long}, NEW i \in DOMAIN todo
      PROVE  /\ todo[i][1] \in {"last_modified", "header"} => todo[i][2] = time
             /\ todo[i][1] = "content" /\ todo[i][2] # None => todo[i][2].version >= time
  <2>1. todo[i] \in {<<"last_modified", time>>, <<"content", content>>,
                     <<"content_length", length>>, <<"header", time>>}
    BY <1>3
  <2>2. QED
    BY <2>1
<1>6. Completes(short, a)
  <2>1. 1 \in DOMAIN short /\ 3 \in DOMAIN short
    BY <1>3
  <2> HIDE DEF short
  <2>2. QED
    BY <1>2, <1>4, <1>5, <2>1 DEF Completes
<1>7. Completes(long, a)
  <2>1. 2 \in DOMAIN long /\ 4 \in DOMAIN long
    BY <1>3
  <2> HIDE DEF long
  <2>2. QED
    BY <1>2, <1>4, <1>5, <2>1 DEF Completes
<1>8. QED
  BY <1>6, <1>7

\* They are assignments, of times that there were.
LEMMA ListsTyped ==
    ASSUME NEW content \in {None} \cup Files, NEW length \in Nat, NEW time \in Nat, time <= versions
    PROVE  \A todo \in {<<<<"content", content>>, <<"content_length", length>>, <<"header", time>>>>,
                        <<<<"last_modified", time>>, <<"content", content>>,
                          <<"content_length", length>>, <<"header", time>>>>} :
               /\ todo \in Seq(Assignments)
               /\ \A i \in DOMAIN todo : todo[i][1] = "last_modified" => todo[i][2] <= versions
<1> DEFINE short == <<<<"content", content>>, <<"content_length", length>>, <<"header", time>>>>
           long == <<<<"last_modified", time>>, <<"content", content>>,
                     <<"content_length", length>>, <<"header", time>>>>
<1>1. /\ <<"last_modified", time>> \in Assignments /\ <<"content", content>> \in Assignments
      /\ <<"content_length", length>> \in Assignments /\ <<"header", time>> \in Assignments
  BY DEF Assignments
<1>2. short \in Seq(Assignments) /\ long \in Seq(Assignments)
  BY <1>1
<1>3. DOMAIN short = 1..3 /\ DOMAIN long = 1..4
  OBVIOUS
<1>4. ASSUME NEW todo \in {short, long}, NEW i \in DOMAIN todo, todo[i][1] = "last_modified"
      PROVE  todo[i][2] <= versions
  <2>1. todo[i] \in {<<"last_modified", time>>, <<"content", content>>,
                     <<"content_length", length>>, <<"header", time>>}
    BY <1>3
  <2>2. QED
    BY <1>4, <2>1
<1> HIDE DEF short, long
<1>5. \A todo \in {short, long} :
          /\ todo \in Seq(Assignments)
          /\ \A i \in DOMAIN todo : todo[i][1] = "last_modified" => todo[i][2] <= versions
  BY <1>2, <1>4
<1>6. QED
  BY <1>5 DEF short, long

-----------------------------------------------------------------------------
(* Filling the object.                                                       *)

\* An assignment keeps what the object is.
LEMMA StillApp ==
    ASSUME NEW a \in Apps, NEW x \in Assignments
    PROVE  LET b == [a EXCEPT ![x[1]] = x[2]] IN
           /\ b \in Apps
           /\ b.last_modified = IF x[1] = "last_modified" THEN x[2] ELSE a.last_modified
<1>1. CASE x[1] = "last_modified" /\ x[2] \in Nat
  BY <1>1 DEF Apps
<1>2. CASE x[1] = "content" /\ x[2] \in {None} \cup Files
  BY <1>2 DEF Apps
<1>3. CASE x[1] \in {"content_length", "header"} /\ x[2] \in Nat
  BY <1>3 DEF Apps
<1>4. QED
  BY <1>1, <1>2, <1>3 DEF Assignments

LEMMA AssignStep ==
    ASSUME FileAppAssumed, FileAppInv, F!Overlaps, NEW t \in FileThread, F!Assign(t) PROVE FileAppInv'
<1> DEFINE c == thread[t].app
           a == app[c]
           todo == thread[t].todo
           x == Head(todo)
           b == [a EXCEPT ![x[1]] = x[2]]
           f == [todo |-> Tail(todo)]
           r == F!With(thread[t], f)
<1>1. /\ ThreadOK(t, thread[t]) /\ thread[t].at = "assign" /\ todo # <<>>
      /\ DOMAIN app = FileThread /\ DOMAIN thread = FileThread
  BY DEF FileAppInv, F!Assign, F!At
<1>2. /\ AskedOK(thread[t]) /\ "app" \in DOMAIN thread[t] /\ c \in FileThread /\ cached # None
      /\ store # "archive" /\ Assigns(thread[t]) /\ AppOK(a) /\ a \in Apps
      /\ t \notin torn => AssignOK(thread[t], a)
  BY <1>1 DEF ThreadOK, Chosen, Using, FileAppInv, AppOK
<1>3. /\ AskedOK(r) /\ "app" \in DOMAIN r /\ r.app = c /\ r.seen = thread[t].seen
      /\ r.at = "assign"
  BY <1>1, <1>2, Carried DEF FileAsked
<1>4. {"stat", "todo"} \subseteq DOMAIN r /\ r.stat = thread[t].stat /\ r.todo = Tail(todo)
  BY <1>2 DEF F!With, Assigns
<1>5. /\ app' = [app EXCEPT ![c] = b] /\ thread' = [thread EXCEPT ![t] = r]
      /\ UNCHANGED <<store, file, versions, cached, copy>>
  <2>1. app' = [app EXCEPT ![c][x[1]] = x[2]]
    BY DEF F!Assign
  <2>2. app' = [app EXCEPT ![c] = b]
    BY <2>1
  <2>3. QED
    BY <2>2 DEF F!Assign, F!Become
<1>6. /\ todo \in Seq(Assignments) /\ Len(todo) \in Nat /\ Len(todo) > 0 /\ DOMAIN todo = 1..Len(todo)
      /\ x = todo[1] /\ x \in Assignments
  BY <1>1, <1>2, LenProperties, EmptySeq, ElementOfSeq, HeadTailProperties DEF Assigns
<1>7. b \in Apps /\ b.last_modified = IF x[1] = "last_modified" THEN x[2] ELSE a.last_modified
  BY <1>2, <1>6, StillApp
<1>8. b.last_modified <= versions
  <2>1. x[1] = "last_modified" => x[2] <= versions
    BY <1>2, <1>6 DEF Assigns
  <2>2. QED
    BY <1>2, <1>7, <2>1 DEF AppOK
<1>9. Assigns(r)
  <2>1. /\ Tail(todo) \in Seq(Assignments) /\ Len(Tail(todo)) = Len(todo) - 1
        /\ \A i \in 1..Len(Tail(todo)) : Tail(todo)[i] = todo[i + 1]
    BY <1>1, <1>6, HeadTailProperties
  <2>2. ASSUME NEW i \in DOMAIN Tail(todo) PROVE i + 1 \in DOMAIN todo /\ Tail(todo)[i] = todo[i + 1]
    <3>1. i \in 1..(Len(todo) - 1)
      BY <2>1, LenProperties
    <3>2. QED
      BY <1>6, <2>1, <3>1
  <2>3. QED
    BY <1>2, <1>4, <2>1, <2>2 DEF Assigns
<1>10. ASSUME t \notin torn PROVE AssignOK(r, b)
  <2>1. CASE /\ thread[t].stat # None /\ thread[t].stat.version >= thread[t].seen
             /\ todo = <<<<"last_modified", thread[t].stat.version>>>>
    <3>1. x = <<"last_modified", thread[t].stat.version>> /\ Tail(todo) = <<>>
      BY <2>1
    <3>2. b.last_modified = thread[t].stat.version
      BY <1>7, <3>1
    <3>3. QED
      BY <1>3, <1>4, <2>1, <3>1, <3>2 DEF AssignOK
  <2>2. CASE /\ thread[t].stat = None /\ Completes(todo, a)
             /\ a.last_modified >= thread[t].seen
    <3>1. b.last_modified = a.last_modified /\ Completes(Tail(todo), b)
      BY <1>1, <1>2, <2>2, OneLess
    <3>2. QED
      BY <1>3, <1>4, <2>2, <3>1 DEF AssignOK
  <2>3. QED
    BY <1>1, <1>2, <1>10, <2>1, <2>2 DEF AssignOK
<1> HIDE DEF b, r, c
<1>11. /\ app'[c] = b /\ thread'[t] = r /\ TimePasses
       /\ \A v \in FileThread \ {t} : thread'[v] = thread[v]
       /\ \A v \in FileThread \ {c} : app'[v] = app[v]
  BY <1>1, <1>2, <1>5, NoTimePasses
<1>12. ASSUME NEW u \in FileThread PROVE ThreadOK(u, thread[u])'
  <2>1. CASE u = t
    <3>1. AskedOK(thread[u])' /\ Assigns(thread[u])' /\ (t \notin torn' => AssignOK(thread[u], app[thread[u].app])')
      BY <1>3, <1>5, <1>9, <1>10, <1>11, <2>1, Overlapped DEF AskedOK, CopyOK, Assigns, AssignOK, Using
    <3>2. QED
      BY <1>2, <1>3, <1>5, <1>11, <2>1, <3>1 DEF ThreadOK, Unlooked, Using, Chosen, Answering
  <2>2. CASE u # t
    <3>1. thread[u].at \in Using /\ thread[u].app = c => u \in torn
      BY <1>1, <2>2 DEF FileAppInv, HistoryOK, Filling, c
    <3>2. QED
      BY <1>2, <1>5, <1>11, <2>2, <3>1, OthersStay
  <2>3. QED
    BY <2>1, <2>2
<1>13. ASSUME NEW v \in FileThread PROVE AppOK(app[v])' /\ WholeOK(v)'
  <2>1. CASE v = c
    <3>1. Filling(t, v)'
      BY <1>3, <1>11, <2>1 DEF Filling
    <3>2. QED
      BY <1>5, <1>7, <1>8, <1>11, <2>1, <3>1 DEF AppOK, WholeOK
  <2>2. CASE v # c
    <3>1. ~Filling(t, v)
      BY <2>2 DEF Filling, c
    <3>2. WholeOK(v)'
      BY <1>11, <2>2, <3>1, WholeStays
    <3>3. QED
      BY <1>5, <1>11, <2>2, <3>2 DEF FileAppInv, AppOK
  <2>3. QED
    BY <2>1, <2>2
<1>14. MakesOK'
  <2>1. ASSUME NEW u \in FileThread, NEW v \in FileThread, thread'[u].at = "make"
        PROVE  cached' # u /\ ~(thread'[v].at \in Chosen /\ thread'[v].app = u)
    <3>1. thread[u].at = "make"
      BY <1>3, <1>11, <2>1
    <3>2. thread'[v].app = thread[v].app /\ thread'[v].at = thread[v].at
      BY <1>1, <1>3, <1>11 DEF c
    <3>3. QED
      BY <1>5, <3>1, <3>2 DEF FileAppInv, MakesOK
  <2>2. QED
    BY <2>1 DEF MakesOK
<1>15. QED
  BY <1>1, <1>2, <1>5, <1>12, <1>13, <1>14, Overlapped DEF FileAppInv, FileOK, CopyOK

LEMMA AssignedDone ==
    ASSUME FileAppAssumed, FileAppInv, F!Overlaps, NEW t \in FileThread, F!Assigned(t) PROVE FileAppInv'
<1> DEFINE a == app[thread[t].app]
           stat == thread[t].stat
<1>1. /\ ThreadOK(t, thread[t]) /\ thread[t].at = "assign" /\ thread[t].todo = <<>>
      /\ UNCHANGED <<store, file, versions, app, cached, copy>>
  BY DEF FileAppInv, F!Assigned, F!At
<1>2. /\ AskedOK(thread[t]) /\ "app" \in DOMAIN thread[t] /\ thread[t].app \in FileThread
      /\ store # "archive" /\ Assigns(thread[t]) /\ a \in Apps
      /\ t \notin torn => AssignOK(thread[t], a)
  BY <1>1 DEF ThreadOK, Chosen, Using, FileAppInv, AppOK
<1>3. CASE stat = None
  <2> DEFINE f == [at |-> "open"]
             r == F!With(thread[t], f)
  <2>1. t \notin torn => Completes(<<>>, a) /\ a.last_modified >= thread[t].seen
    BY <1>1, <1>2, <1>3 DEF AssignOK
  <2>2. t \notin torn => Sound(a)
    BY <2>1 DEF Completes, Sound
  <2>3. r.seen = thread[t].seen /\ r.at = "open"
    BY <1>2, Carried DEF FileAsked
  <2>4. t \notin torn => AnswerOK(r, a)
    BY <2>1, <2>2, <2>3 DEF AnswerOK
  <2>5. F!Become(t, f)
    BY <1>3 DEF F!Assigned, F!Goto
  <2> HIDE DEF r
  <2>6. r = F!With(thread[t], f) /\ DOMAIN f \cap (FileAsked \cup {"app"}) \subseteq {"at"}
    BY DEF r, FileAsked
  <2>7. QED
    BY <1>1, <2>2, <2>3, <2>4, <2>5, <2>6, Continues DEF Chosen, Using, Answering
<1>4. CASE stat # None
  <2>1. /\ stat \in Files /\ stat.version <= versions
        /\ t \notin torn => stat.version >= thread[t].seen /\ a.last_modified = stat.version
    BY <1>1, <1>2, <1>4 DEF AssignOK, Assigns
  <2>2. stat.version \in Nat /\ stat.size \in Nat
    BY <2>1 DEF Files
  <2>3. ASSUME NEW left, left \in Seq(Assignments),
               \A i \in DOMAIN left : left[i][1] = "last_modified" => left[i][2] <= versions,
               a.last_modified = stat.version => Completes(left, a),
               F!Become(t, [stat |-> None, todo |-> left])
        PROVE  FileAppInv'
    <3> DEFINE f == [stat |-> None, todo |-> left]
               r == F!With(thread[t], f)
    <3>1. r.seen = thread[t].seen /\ r.at = "assign"
      BY <1>1, <1>2, Carried DEF FileAsked
    <3>2. {"stat", "todo"} \subseteq DOMAIN r /\ r.stat = None /\ r.todo = left
      BY DEF F!With
    <3>3. Assigns(r)
      BY <2>3, <3>2 DEF Assigns
    <3>4. t \notin torn => AssignOK(r, a)
      BY <2>1, <2>3, <3>1, <3>2 DEF AssignOK
    <3> HIDE DEF r
    <3>5. r = F!With(thread[t], f) /\ DOMAIN f \cap (FileAsked \cup {"app"}) \subseteq {"at"}
      BY DEF r, FileAsked
    <3>6. QED
      BY <1>1, <1>2, <2>3, <3>1, <3>3, <3>4, <3>5, Continues DEF Chosen, Using, Answering
  <2>4. CASE stat.size >= CacheSize
    <3> DEFINE left == <<<<"content", None>>, <<"content_length", stat.size>>, <<"header", stat.version>>>>
    <3>1. a.last_modified = stat.version => Completes(left, a)
      BY <1>2, <2>1, <2>2, ListsComplete
    <3>2. /\ left \in Seq(Assignments)
          /\ \A i \in DOMAIN left : left[i][1] = "last_modified" => left[i][2] <= versions
      BY <2>1, <2>2, ListsTyped
    <3>3. F!Become(t, [stat |-> None, todo |-> left])
      BY <1>4, <2>4 DEF F!Assigned
    <3> HIDE DEF left
    <3>4. QED
      BY <2>3, <3>1, <3>2, <3>3
  <2>5. CASE ~(stat.size >= CacheSize) /\ file # None
    <3> DEFINE left == F!SetContent(file, stat.version)
    <3>1. file \in Files /\ file.size \in Nat /\ file.version = versions
      BY <2>5 DEF FileAppInv, FileOK, Files
    <3>2. a.last_modified = stat.version => Completes(left, a)
      BY <1>2, <2>1, <2>2, <2>5, <3>1, ListsComplete DEF F!SetContent
    <3>3. /\ left \in Seq(Assignments)
          /\ \A i \in DOMAIN left : left[i][1] = "last_modified" => left[i][2] <= versions
      BY <2>1, <2>2, <3>1, ListsTyped DEF F!SetContent
    <3>4. F!Become(t, [stat |-> None, todo |-> left])
      BY <1>4, <2>5 DEF F!Assigned
    <3> HIDE DEF left
    <3>5. QED
      BY <2>3, <3>2, <3>3, <3>4
  <2>6. CASE ~(stat.size >= CacheSize) /\ file = None
    BY <1>1, <1>4, <2>6, Replies DEF F!Assigned, FileAppInv, CopyOK
  <2>7. QED
    BY <2>4, <2>5, <2>6
<1>5. QED
  BY <1>3, <1>4

-----------------------------------------------------------------------------
(* Answering.                                                                *)

Undisturbed(t) == t \notin torn /\ thread[t].app \notin mixed

\* What is known when the request answers from its object.
LEMMA WhenAnswering ==
    ASSUME FileAppInv, NEW t \in FileThread, thread[t].at \in Answering
    PROVE  /\ AskedOK(thread[t]) /\ "app" \in DOMAIN thread[t] /\ thread[t].app \in FileThread
           /\ app[thread[t].app] \in Apps
           /\ Undisturbed(t) => AnswerOK(thread[t], app[thread[t].app])
  BY DEF FileAppInv, ThreadOK, AppOK, Answering, Using, Chosen, Undisturbed

\* A step of the answer that only notes something.
LEMMA Noted ==
    ASSUME FileAppAssumed, FileAppInv, F!Overlaps, NEW t \in FileThread, thread[t].at \in Answering,
           UNCHANGED <<store, file, versions, app, cached, copy>>,
           NEW f, "at" \in DOMAIN f, f.at \in Answering,
           DOMAIN f \cap (FileAsked \cup {"app"}) \subseteq {"at"},
           F!Become(t, f), Undisturbed(t) => AnswerOK(F!With(thread[t], f), app[thread[t].app])
    PROVE  FileAppInv'
<1> DEFINE r == F!With(thread[t], f)
<1>1. r.at = f.at
  BY WhenAnswering, Carried
<1> HIDE DEF r
<1>2. r = F!With(thread[t], f) /\ (Undisturbed(t) => AnswerOK(r, app[thread[t].app]))
  BY DEF r
<1>3. thread[t].at # "assign" /\ r.at \notin {"stat", "assign", "method"} /\ r.at \in Chosen /\ thread[t].at \in Chosen
  BY <1>1 DEF Answering, Chosen, Using
<1>4. QED
  BY <1>2, <1>3, Continues DEF Undisturbed

LEMMA Opened ==
    ASSUME FileAppAssumed, FileAppInv, F!Overlaps, NEW t \in FileThread, F!Open(t) PROVE FileAppInv'
<1> DEFINE a == app[thread[t].app]
<1>1. thread[t].at = "open" /\ UNCHANGED <<store, file, versions, app, cached, copy>>
  BY DEF F!Open, F!At
<1>2. /\ AskedOK(thread[t]) /\ "app" \in DOMAIN thread[t] /\ a \in Apps
      /\ a.last_modified <= versions
      /\ Undisturbed(t) => Sound(a) /\ a.last_modified >= thread[t].seen
  BY <1>1, WhenAnswering DEF Answering, AnswerOK, FileAppInv, AppOK
<1>3. CASE F!InMemory(t)
  <2> DEFINE f == [at |-> "modified", file |-> None]
             r == F!With(thread[t], f)
  <2>1. r.seen = thread[t].seen /\ r.at = "modified"
    BY <1>2, Carried DEF FileAsked
  <2>2. Undisturbed(t) => AnswerOK(r, a)
    BY <1>2, <1>3, <2>1 DEF AnswerOK, SourceOK, F!InMemory, F!My
  <2>3. F!Become(t, f)
    BY <1>3 DEF F!Open
  <2>4. QED
    BY <1>1, <2>2, <2>3, Noted DEF Answering, FileAsked
<1>4. CASE ~F!InMemory(t) /\ file = None
  <2> DEFINE f == [at |-> "notfound"]
             r == F!With(thread[t], f)
  <2>1. r.seen = thread[t].seen /\ r.at = "notfound"
    BY <1>2, Carried DEF FileAsked
  <2>2. Undisturbed(t) => AnswerOK(r, a)
    BY <1>2, <2>1 DEF AnswerOK
  <2>3. F!Become(t, f)
    BY <1>4 DEF F!Open, F!Goto
  <2>4. QED
    BY <1>1, <2>2, <2>3, Noted DEF Answering, FileAsked
<1>5. CASE ~F!InMemory(t) /\ file # None
  <2> DEFINE f == [at |-> "modified", file |-> file]
             r == F!With(thread[t], f)
  <2>1. r.seen = thread[t].seen /\ r.at = "modified"
    BY <1>2, Carried DEF FileAsked
  <2>2. "file" \in DOMAIN r /\ r.file = file
    BY DEF F!With
  <2>3. file \in Files /\ file.version >= a.last_modified
    BY <1>2, <1>5 DEF FileAppInv, FileOK
  <2>4. Undisturbed(t) => AnswerOK(r, a)
    BY <1>2, <2>1, <2>2, <2>3 DEF AnswerOK, SourceOK
  <2>5. F!Become(t, f)
    BY <1>5 DEF F!Open
  <2>6. QED
    BY <1>1, <2>4, <2>5, Noted DEF Answering, FileAsked
<1>6. QED
  BY <1>3, <1>4, <1>5

LEMMA HeadersDone ==
    ASSUME FileAppAssumed, FileAppInv, F!Overlaps, NEW t \in FileThread, F!Headers(t) \/ F!Etag(t)
    PROVE  FileAppInv'
<1> DEFINE a == app[thread[t].app]
<1>1. thread[t].at \in Answering /\ UNCHANGED <<store, file, versions, app, cached, copy>>
  BY DEF F!Headers, F!Etag, F!At, Answering
<1>2. /\ AskedOK(thread[t]) /\ "app" \in DOMAIN thread[t]
      /\ Undisturbed(t) => AnswerOK(thread[t], a)
  BY <1>1, WhenAnswering
<1>3. CASE F!Headers(t)
  <2> DEFINE f == [at |-> "etag", modified |-> a.header]
             r == F!With(thread[t], f)
  <2>1. /\ r.seen = thread[t].seen /\ r.at = "etag" /\ thread[t].at = "modified"
        /\ "modified" \in DOMAIN r /\ r.modified = a.header
        /\ SourceOK(thread[t], a) => SourceOK(r, a)
    <3>1. DOMAIN f = {"at", "modified"} /\ f.at = "etag" /\ f.modified = a.header
      OBVIOUS
    <3>2. r.seen = thread[t].seen /\ r.at = "etag"
      BY <1>2, <3>1, Carried DEF FileAsked
    <3>3. "modified" \in DOMAIN r /\ r.modified = a.header
      BY <3>1 DEF F!With
    <3>4. SourceOK(thread[t], a) => SourceOK(r, a)
      BY <3>1 DEF F!With, SourceOK
    <3>5. thread[t].at = "modified"
      BY <1>3 DEF F!Headers, F!At
    <3>6. QED
      BY <3>2, <3>3, <3>4, <3>5
  <2>2. Undisturbed(t) => AnswerOK(r, a)
    BY <1>2, <2>1 DEF AnswerOK, Sound
  <2>3. F!Become(t, f)
    BY <1>3 DEF F!Headers, F!My
  <2>4. QED
    BY <1>1, <2>2, <2>3, Noted DEF Answering, FileAsked
<1>4. CASE F!Etag(t)
  <2> DEFINE f == [at |-> "condition", etag |-> <<a.last_modified, a.content_length>>]
             r == F!With(thread[t], f)
  <2>1. /\ r.seen = thread[t].seen /\ r.at = "condition" /\ thread[t].at = "etag"
        /\ "etag" \in DOMAIN r /\ r.etag = <<a.last_modified, a.content_length>>
        /\ "modified" \in DOMAIN thread[t] => "modified" \in DOMAIN r /\ r.modified = thread[t].modified
        /\ SourceOK(thread[t], a) => SourceOK(r, a)
    <3>1. DOMAIN f = {"at", "etag"} /\ f.at = "condition" /\ f.etag = <<a.last_modified, a.content_length>>
      OBVIOUS
    <3>2. r.seen = thread[t].seen /\ r.at = "condition"
      BY <1>2, <3>1, Carried DEF FileAsked
    <3>3. /\ "etag" \in DOMAIN r /\ r.etag = <<a.last_modified, a.content_length>>
          /\ "modified" \in DOMAIN thread[t] => "modified" \in DOMAIN r /\ r.modified = thread[t].modified
      BY <3>1 DEF F!With
    <3>4. SourceOK(thread[t], a) => SourceOK(r, a)
      BY <3>1 DEF F!With, SourceOK
    <3>5. thread[t].at = "etag"
      BY <1>4 DEF F!Etag, F!At
    <3>6. QED
      BY <3>2, <3>3, <3>4, <3>5
  <2>2. Undisturbed(t) => AnswerOK(r, a)
    BY <1>2, <2>1 DEF AnswerOK
  <2>3. F!Become(t, f)
    BY <1>4 DEF F!Etag, F!My
  <2>4. QED
    BY <1>1, <2>2, <2>3, Noted DEF Answering, FileAsked
<1>5. QED
  BY <1>3, <1>4

\* A 304: the client's copy is not older than the object, which is not older than the
\* file was when it asked.
LEMMA NotModifiedTold ==
    ASSUME FileAppAssumed, FileAppInv, F!Overlaps, NEW t \in FileThread, F!AnswerNotModified(t)
    PROVE  FileAppInv'
<1> DEFINE a == app[thread[t].app]
           mine == thread[t].mine
           f == [at |-> "kept"]
           r == F!With(thread[t], f)
<1>1. /\ thread[t].at = "condition" /\ F!NotModified(t)
      /\ UNCHANGED <<store, file, versions, app, cached, copy>> /\ F!Become(t, f)
  BY DEF F!AnswerNotModified, F!At, F!Goto
<1>2. /\ AskedOK(thread[t]) /\ "app" \in DOMAIN thread[t] /\ a \in Apps
      /\ Undisturbed(t) => AnswerOK(thread[t], a)
  BY <1>1, WhenAnswering DEF Answering
<1>3. ASSUME Undisturbed(t), ~mine.marred PROVE mine.version >= thread[t].seen
  <2>1. /\ a.last_modified \in Nat /\ a.last_modified >= thread[t].seen /\ thread[t].seen \in Nat
        /\ thread[t].etag = <<a.last_modified, a.content_length>>
    BY <1>1, <1>2, <1>3 DEF AnswerOK, AskedOK, Apps
  <2>2. /\ mine.version >= mine.etag[1] /\ (mine.modified # None => mine.version >= mine.modified)
        /\ mine.version \in Nat /\ mine.etag[1] \in Nat /\ mine.modified \in {None} \cup Nat
    BY <1>1, <1>2, <1>3 DEF AskedOK, CopyOK, F!NotModified
  <2>3. CASE mine.etag = thread[t].etag
    BY <2>1, <2>2, <2>3
  <2>4. CASE mine.modified # None /\ mine.modified >= a.last_modified
    BY <2>1, <2>2, <2>4
  <2>5. QED
    BY <1>1, <2>3, <2>4 DEF F!NotModified, F!My
<1>4. r.seen = thread[t].seen /\ r.mine = mine /\ r.at = "kept"
  BY <1>2, Carried DEF FileAsked
<1>5. SourceOK(thread[t], a) => SourceOK(r, a)
  BY DEF F!With, SourceOK
<1>6. Undisturbed(t) => AnswerOK(r, a)
  BY <1>1, <1>2, <1>3, <1>4, <1>5 DEF AnswerOK
<1>7. QED
  BY <1>1, <1>6, Noted DEF Answering, FileAsked

LEMMA LengthKnown ==
    ASSUME FileAppAssumed, FileAppInv, F!Overlaps, NEW t \in FileThread, F!Length(t) PROVE FileAppInv'
<1> DEFINE a == app[thread[t].app]
<1>1. thread[t].at = "condition"
  BY DEF F!Length, F!At
<1>2. ASSUME NEW status, F!Answer(t, status) PROVE FileAppInv'
  BY <1>1, <1>2, Replies DEF F!Answer, FileAppInv, CopyOK
<1>3. ASSUME NEW whole, F!Become(t, [at |-> "body", whole |-> whole]),
             UNCHANGED <<store, file, versions, app, cached, copy>>
      PROVE  FileAppInv'
  <2> DEFINE f == [at |-> "body", whole |-> whole]
             r == F!With(thread[t], f)
  <2>1. /\ AskedOK(thread[t]) /\ "app" \in DOMAIN thread[t]
        /\ Undisturbed(t) => AnswerOK(thread[t], a)
    BY <1>1, WhenAnswering DEF Answering
  <2>2. r.seen = thread[t].seen /\ r.at = "body"
    BY <2>1, Carried DEF FileAsked
  <2>3. SourceOK(thread[t], a) => SourceOK(r, a)
    BY DEF F!With, SourceOK
  <2>4. Undisturbed(t) => /\ {"modified", "etag"} \subseteq DOMAIN thread[t] /\ {"modified", "etag"} \subseteq DOMAIN r
                          /\ r.modified = thread[t].modified /\ r.etag = thread[t].etag
    BY <1>1, <2>1 DEF F!With, AnswerOK
  <2>5. Undisturbed(t) => AnswerOK(r, a)
    BY <1>1, <2>1, <2>2, <2>3, <2>4 DEF AnswerOK
  <2>6. QED
    BY <1>1, <1>3, <2>5, Noted DEF Answering, FileAsked
<1>4. QED
  BY <1>2, <1>3 DEF F!Length

\* The copy that a client keeps is not older than its ETag and its Last-Modified say.
LEMMA BodySent ==
    ASSUME FileAppAssumed, FileAppInv, F!Overlaps, NEW t \in FileThread, F!Body(t) PROVE FileAppInv'
<1> DEFINE a == app[thread[t].app]
           me == thread[t]
           source == IF a.content # None THEN a.content ELSE me.file
           new == [version |-> source.version, etag |-> me.etag, modified |-> me.modified,
                   marred |-> F!Marred(t)]
<1>1. /\ me.at = "body" /\ thread' = [thread EXCEPT ![t] = F!Idle]
      /\ UNCHANGED <<store, file, versions, app, cached>>
  BY DEF F!Body, F!At
<1>2. a \in Apps /\ (Undisturbed(t) => AnswerOK(me, a))
  BY <1>1, WhenAnswering DEF Answering
<1>3. copy' \in {copy, new}
  BY DEF F!Body, F!My
<1>4. ~F!Marred(t) <=> Undisturbed(t)
  BY DEF F!Marred, Undisturbed
<1>5. Undisturbed(t) =>
          /\ a.last_modified \in Nat /\ a.content_length \in {None} \cup Nat
          /\ me.etag = <<a.last_modified, a.content_length>> /\ me.modified = a.last_modified
          /\ source \in Files /\ source.version >= a.last_modified
  BY <1>1, <1>2 DEF AnswerOK, SourceOK, Sound, Apps
<1>6. CopyOK(new)
  <2>1. new.marred = F!Marred(t)
    OBVIOUS
  <2>2. CASE F!Marred(t)
    BY <2>1, <2>2 DEF CopyOK
  <2>3. CASE ~F!Marred(t)
    <3>1. new.version = source.version /\ new.etag = me.etag /\ new.modified = me.modified
      OBVIOUS
    <3>2. QED
      BY <1>4, <1>5, <2>3, <3>1 DEF CopyOK, Files
  <2>4. QED
    BY <2>2, <2>3
<1>7. CopyOK(copy)'
  BY <1>3, <1>6 DEF CopyOK, FileAppInv
<1>8. QED
  BY <1>1, <1>7, Replies

-----------------------------------------------------------------------------

LEMMA ThreadSteps ==
    ASSUME FileAppAssumed, FileAppInv, F!Overlaps, NEW t \in FileThread,
           \/ F!Ask(t) \/ F!Lookup(t) \/ F!Refuse(t) \/ F!Make(t) \/ F!Method(t) \/ F!Stat(t) \/ F!Assign(t)
           \/ F!Assigned(t) \/ F!Open(t) \/ F!NotOpened(t) \/ F!Forbidden(t) \/ F!Headers(t) \/ F!Etag(t)
           \/ F!AnswerNotModified(t) \/ F!BadCondition(t) \/ F!Length(t) \/ F!Body(t) \/ F!Kept(t)
    PROVE  FileAppInv'
<1>1. CASE F!Refuse(t) \/ F!NotOpened(t) \/ F!Forbidden(t) \/ F!BadCondition(t) \/ F!Kept(t)
  <2>1. thread[t].at # "assign"
    BY <1>1 DEF F!Refuse, F!NotOpened, F!Forbidden, F!BadCondition, F!Kept, F!At
  <2>2. \E status : F!Answer(t, status)
    BY <1>1 DEF F!Refuse, F!NotOpened, F!Forbidden, F!BadCondition, F!Kept
  <2>3. QED
    BY <2>1, <2>2, Replies DEF F!Answer, FileAppInv, CopyOK
<1>2. QED
  BY <1>1, Asks, LookedUp, FileMade, MethodChosen, StatDone, AssignStep, AssignedDone, Opened,
     HeadersDone, NotModifiedTold, LengthKnown, BodySent

\* The steps of the component.
LEMMA FileAppStep == ASSUME FileAppAssumed, FileAppInv, [F!FileNext]_fileVars
    PROVE FileAppInv'
<1>1. CASE UNCHANGED fileVars
  BY <1>1 DEF fileVars, FileAppInv, FileOK, CopyOK, AppOK, ThreadOK, AskedOK, Assigns, AssignOK, AnswerOK,
     WholeOK, MakesOK, HistoryOK, Filling, Filled
<1>2. QED
  BY <1>1, FileStep, ThreadSteps DEF F!FileNext

LEMMA FileAppInvGives == ASSUME FileAppInv PROVE F!NeverStale
  BY DEF FileAppInv, ThreadOK, AnswerOK, F!NeverStale, F!Marred, F!At, Answering

-----------------------------------------------------------------------------
(* Response: every value in a list was put there by one that the list came to. *)

Holder == Responses \cup {0}

\* The list l is known under one name, was made by a call, and its values are due to holders.
ListDue(l) ==
    /\ l = <<l[1], l[2]>> /\ l[1] \in Nat /\ l[1] <= responseCalls
    /\ holders[l] \subseteq Holder /\ IsSeq(list[l])
    /\ \A i \in DOMAIN list[l] : \E x \in holders[l] : <<l[2], list[l][i]>> \in given[x]

\* An entry is a value that its response was given, or a list that came to it.
ListOf(e, n, h) == R!IsList(e) /\ e.list \in DOMAIN list /\ e.list[2] = n /\ h \in holders[e.list]
EntryDue(r, n) ==
    LET e == dict[r][n]
    IN  ListOf(e, n, r) \/ (~R!IsList(e) /\ <<n, e.one>> \in given[r])
DefaultDue(n) ==
    LET e == dict[0][n]
    IN  ListOf(e, n, 0) \/ (~R!IsList(e) /\ \A r \in Responses : <<n, e.one>> \in given[r])

ItemDue(item, r) ==
    \/ item \in given[r]
    \/ \E l \in DOMAIN holders : l[2] = item[1] /\ r \in holders[l] /\ \E x \in holders[l] : item \in given[x]

ResponseInv ==
    /\ responseCalls \in Nat /\ DOMAIN holders = DOMAIN list /\ \A l \in DOMAIN list : ListDue(l)
    /\ R!Made \subseteq Responses /\ 0 \in DOMAIN dict /\ 0 \notin Responses /\ DOMAIN given = Holder
    /\ \A r \in R!Made : /\ responsesMade[r].headers = r /\ r \in DOMAIN dict
                       /\ "headers" \in DOMAIN responsesMade[r]
    /\ \A n \in DOMAIN dict[0] : DefaultDue(n)
    /\ \A r \in R!Made : \A n \in DOMAIN dict[r] : EntryDue(r, n)
    /\ responseSent # None =>
          responseSent.of \in Responses /\ \A item \in responseSent.items : ItemDue(item, responseSent.of)

LEMMA ResponseInvGives == ASSUME ResponseInv PROVE R!ResponsesApart
  BY DEF ResponseInv, R!ResponsesApart, ItemDue

LEMMA ResponseInitHolds == ASSUME R!ResponseInit, ResponseAssumed PROVE ResponseInv
<1>1. DOMAIN responsesMade = {} /\ responseCalls = 0 /\ responseSent = None
  BY DEF R!ResponseInit
<1>2. DOMAIN list = {0} \X R!Listed /\ DOMAIN holders = DOMAIN list /\ DOMAIN given = Holder
  BY DEF R!ResponseInit, Holder
<1>3. ASSUME NEW l \in DOMAIN list PROVE ListDue(l)
  <2>1. PICK n \in R!Listed : l = <<0, n>>
    BY <1>2, <1>3
  <2>2. list[l] = Defaults[n].values /\ holders[l] = {0}
    BY <2>1, <1>2, <1>3 DEF R!ResponseInit
  <2>3. IsSeq(list[l])
    BY <2>1, <2>2, ListIsSeq DEF ResponseAssumed, R!Listed
  <2>4. \A i \in DOMAIN list[l] : <<n, list[l][i]>> \in given[0]
    BY <2>1, <2>2 DEF R!ResponseInit
  <2>5. QED
    BY <2>1, <2>2, <2>3, <2>4, <1>1 DEF ListDue, Holder
<1>4. 0 \in DOMAIN dict /\ DOMAIN dict[0] = DOMAIN Defaults
      /\ \A n \in DOMAIN Defaults : dict[0][n] = IF n \in R!Listed THEN [list |-> <<0, n>>] ELSE Defaults[n]
  BY DEF R!ResponseInit
<1>5. ASSUME NEW n \in DOMAIN Defaults PROVE DefaultDue(n)
  <2>1. CASE n \in R!Listed
    <3>1. dict[0][n] = [list |-> <<0, n>>] /\ <<0, n>> \in DOMAIN list
      BY <2>1, <1>2, <1>4
    <3>2. holders[<<0, n>>] = {0}
      BY <3>1, <1>2 DEF R!ResponseInit
    <3>3. QED
      BY <3>1, <3>2 DEF DefaultDue, ListOf, R!IsList
  <2>2. CASE n \notin R!Listed
    <3>1. dict[0][n] = Defaults[n] /\ Defaults[n] = [one |-> Defaults[n].one]
      BY <2>2, <1>4 DEF R!Listed, ResponseAssumed
    <3>2. ~R!IsList(dict[0][n])
      BY <3>1 DEF R!IsList
    <3>3. \A r \in Responses : <<n, Defaults[n].one>> \in given[r]
      BY <2>2 DEF R!ResponseInit, ResponseAssumed
    <3>4. QED
      BY <3>1, <3>2, <3>3 DEF DefaultDue
  <2>3. QED
    BY <2>1, <2>2
<1>6. QED
  BY <1>1, <1>2, <1>3, <1>4, <1>5 DEF ResponseInv, R!Made, ResponseAssumed

\* What was given stays given, and whom a list came to it came to.
ResponseGrown ==
    /\ DOMAIN given' = Holder /\ \A x \in Holder : given[x] \subseteq given'[x]
    /\ DOMAIN list \subseteq DOMAIN list' /\ DOMAIN holders' = DOMAIN list'
    /\ \A l \in DOMAIN list : holders[l] \subseteq holders'[l] /\ holders'[l] \subseteq Holder
    /\ responseCalls' \in Nat /\ responseCalls <= responseCalls'

LEMMA ItemStaysDue ==
    ASSUME ResponseInv, ResponseGrown, NEW r \in Responses, NEW item, ItemDue(item, r) PROVE ItemDue(item, r)'
<1>1. CASE item \in given[r]
  BY <1>1 DEF ResponseGrown, ItemDue, Holder
<1>2. CASE item \notin given[r]
  <2>1. PICK l \in DOMAIN holders : l[2] = item[1] /\ r \in holders[l] /\ \E x \in holders[l] : item \in given[x]
    BY <1>2 DEF ItemDue
  <2>2. PICK x \in holders[l] : item \in given[x]
    BY <2>1
  <2>3. l \in DOMAIN list /\ holders[l] \subseteq Holder
    BY DEF ResponseInv, ListDue
  <2>4. l \in DOMAIN holders' /\ r \in holders'[l] /\ x \in holders'[l] /\ item \in given'[x]
    BY <2>1, <2>2, <2>3 DEF ResponseGrown
  <2>5. QED
    BY <2>1, <2>4 DEF ItemDue
<1>3. QED
  BY <1>1, <1>2

\* A list that stays as it is stays due.
LEMMA ListStaysDue ==
    ASSUME ResponseInv, ResponseGrown, NEW l \in DOMAIN list, list'[l] = list[l] PROVE ListDue(l)'
<1>1. ListDue(l)
  BY DEF ResponseInv
<1>2. \A i \in DOMAIN list[l] : \E x \in holders'[l] : <<l[2], list[l][i]>> \in given'[x]
  BY <1>1 DEF ListDue, ResponseGrown
<1>3. l[1] <= responseCalls'
  <2>1. \A a, b, c \in Nat : a <= b /\ b <= c => a <= c
    OBVIOUS
  <2>2. QED
    BY <1>1, <2>1 DEF ListDue, ResponseGrown, ResponseInv
<1>4. QED
  BY <1>1, <1>2, <1>3 DEF ListDue, ResponseGrown

\* What a step has to show.
LEMMA ResponseKept ==
    ASSUME ResponseInv, ResponseGrown, UNCHANGED responseSent, 0 \in DOMAIN dict', dict'[0] = dict[0],
           \A l \in DOMAIN list' : ListDue(l)' \/ (l \in DOMAIN list /\ list'[l] = list[l]),
           R!Made' \subseteq Responses,
           \A r \in R!Made' : /\ responsesMade'[r].headers = r /\ r \in DOMAIN dict'
                            /\ "headers" \in DOMAIN responsesMade'[r],
           \A r \in R!Made' : \A n \in DOMAIN dict'[r] :
              EntryDue(r, n)' \/ (r \in R!Made /\ n \in DOMAIN dict[r] /\ dict'[r][n] = dict[r][n])
    PROVE  ResponseInv'
<1>1. \A l \in DOMAIN list' : ListDue(l)'
  BY ListStaysDue
<1>2. ASSUME NEW e, NEW n, NEW h, ListOf(e, n, h) PROVE ListOf(e, n, h)'
  BY <1>2 DEF ListOf, ResponseGrown
<1>3. ASSUME NEW n \in DOMAIN dict'[0] PROVE DefaultDue(n)'
  <2>1. DefaultDue(n)
    BY DEF ResponseInv
  <2>2. CASE ListOf(dict[0][n], n, 0)
    <3>1. PICK e : e = dict[0][n]
      OBVIOUS
    <3>2. ListOf(e, n, 0)'
      BY <2>2, <3>1, <1>2
    <3>3. QED
      BY <3>1, <3>2 DEF DefaultDue, ListOf
  <2>3. CASE ~R!IsList(dict[0][n]) /\ \A r \in Responses : <<n, dict[0][n].one>> \in given[r]
    BY <2>3 DEF DefaultDue, ResponseGrown, Holder
  <2>4. QED
    BY <2>1, <2>2, <2>3 DEF DefaultDue
<1>4. ASSUME NEW r \in R!Made', NEW n \in DOMAIN dict'[r],
             r \in R!Made /\ n \in DOMAIN dict[r] /\ dict'[r][n] = dict[r][n]
      PROVE  EntryDue(r, n)'
  <2>1. EntryDue(r, n) /\ r \in Holder
    BY <1>4 DEF ResponseInv, Holder
  <2>2. CASE ListOf(dict[r][n], n, r)
    <3>1. PICK e : e = dict[r][n]
      OBVIOUS
    <3>2. ListOf(e, n, r)'
      BY <2>2, <3>1, <1>2
    <3>3. QED
      BY <3>1, <3>2, <1>4 DEF EntryDue, ListOf
  <2>3. CASE ~R!IsList(dict[r][n]) /\ <<n, dict[r][n].one>> \in given[r]
    BY <2>1, <2>3, <1>4 DEF EntryDue, ResponseGrown
  <2>4. QED
    BY <2>1, <2>2, <2>3 DEF EntryDue
<1>5. (responseSent # None =>
        responseSent.of \in Responses /\ \A item \in responseSent.items : ItemDue(item, responseSent.of))'
  BY ItemStaysDue DEF ResponseInv
<1>6. \A r \in R!Made' : \A n \in DOMAIN dict'[r] : EntryDue(r, n)'
  BY <1>4
<1>7. QED
  BY <1>1, <1>3, <1>5, <1>6 DEF ResponseInv, ResponseGrown

\* A step that leaves lists and who they came to alone.
LEMMA ListsGrown ==
    ASSUME ResponseInv, UNCHANGED <<list, holders>>, DOMAIN given' = Holder,
           \A x \in Holder : given[x] \subseteq given'[x], responseCalls' \in Nat, responseCalls <= responseCalls'
    PROVE  ResponseGrown
  BY DEF ResponseGrown, ResponseInv, ListDue

LEMMA GivesGrown ==
    ASSUME ResponseInv, NEW r \in Responses, NEW name, NEW value, R!Gives(r, name, value)
    PROVE  /\ DOMAIN given' = Holder /\ <<name, value>> \in given'[r]
           /\ \A x \in Holder : given[x] \subseteq given'[x]
  BY DEF R!Gives, ResponseInv, Holder

LEMMA CallsGrow == ASSUME ResponseInv, R!Calls
                   PROVE responseCalls' = responseCalls + 1 /\ responseCalls' \in Nat /\ responseCalls <= responseCalls'
  BY DEF R!Calls, ResponseInv

\* A step that leaves the dictionaries and lists alone.
LEMMA OtherKeeps ==
    ASSUME ResponseInv, UNCHANGED <<dict, list, given, holders, responseSent>>, DOMAIN responsesMade' = DOMAIN responsesMade,
           responseCalls' \in Nat, responseCalls <= responseCalls',
           \A r \in R!Made : responsesMade'[r].headers = responsesMade[r].headers /\ "headers" \in DOMAIN responsesMade'[r]
    PROVE  ResponseInv'
<1>1. R!Made' = R!Made
  BY DEF R!Made
<1>2. ResponseGrown
  BY ListsGrown DEF ResponseInv
<1>3. QED
  BY <1>1, <1>2, ResponseKept DEF ResponseInv

LEMMA SendKeeps == ASSUME ResponseInv, NEW r, R!Send(r) PROVE ResponseInv'
<1>1. r \in R!Made /\ r \in Responses /\ R!Headers(r) = dict[r]
  BY DEF R!Send, ResponseInv, R!Headers
<1>2. responseSent'.of = r /\ responseSent'.items = R!Items(dict[r])
  BY <1>1 DEF R!Send
<1>3. ASSUME NEW n \in DOMAIN dict[r], R!IsList(dict[r][n]), NEW i \in DOMAIN list[dict[r][n].list]
      PROVE  ItemDue(<<n, list[dict[r][n].list][i]>>, r)
  <2>1. ListOf(dict[r][n], n, r)
    BY <1>1, <1>3 DEF ResponseInv, EntryDue
  <2>2. ListDue(dict[r][n].list) /\ dict[r][n].list \in DOMAIN holders
    BY <2>1 DEF ResponseInv, ListOf
  <2>3. QED
    BY <2>1, <2>2, <1>3 DEF ListDue, ListOf, ItemDue
<1>4. ASSUME NEW n \in DOMAIN dict[r], ~R!IsList(dict[r][n]) PROVE ItemDue(<<n, dict[r][n].one>>, r)
  BY <1>1, <1>4 DEF ResponseInv, EntryDue, ItemDue, ListOf
<1>5. \A item \in R!Items(dict[r]) : ItemDue(item, r)
  BY <1>3, <1>4 DEF R!Items
<1>6. UNCHANGED <<dict, list, responsesMade, given, holders>> /\ responseCalls' = responseCalls + 1
      /\ responseCalls' \in Nat /\ responseCalls <= responseCalls'
  BY CallsGrow DEF R!Send
<1>7. ResponseGrown /\ R!Made' = R!Made
  BY <1>6, ListsGrown DEF ResponseInv, R!Made
<1>8. (\A l \in DOMAIN list : ListDue(l))'
  BY <1>6, <1>7, ListStaysDue
<1>9. \A item, x : ItemDue(item, x)' <=> ItemDue(item, x)
  BY <1>6 DEF ItemDue
<1>10. (\A n \in DOMAIN dict[0] : DefaultDue(n))' /\ (\A x \in R!Made : \A n \in DOMAIN dict[x] : EntryDue(x, n))'
  BY <1>6, <1>7 DEF ResponseInv, DefaultDue, EntryDue, ListOf
<1>11. QED
  BY <1>1, <1>2, <1>5, <1>6, <1>7, <1>8, <1>9, <1>10 DEF ResponseInv

\* A step that gives one dictionary values that were given to its response.
LEMMA DictKeeps ==
    ASSUME ResponseInv, NEW r \in R!Made, NEW d, R!SetDict(r, d), UNCHANGED <<list, holders, responsesMade, responseSent>>,
           DOMAIN given' = Holder, \A x \in Holder : given[x] \subseteq given'[x],
           responseCalls' \in Nat, responseCalls <= responseCalls',
           \A n \in DOMAIN d : \/ n \in DOMAIN dict[r] /\ d[n] = dict[r][n]
                               \/ ~R!IsList(d[n]) /\ <<n, d[n].one>> \in given'[r]
    PROVE  ResponseInv'
<1>1. R!Made' = R!Made /\ r \in Responses /\ R!Made \subseteq Responses /\ r # 0
  BY DEF R!Made, ResponseInv
<1>2. ResponseGrown
  BY ListsGrown
<1>3. DOMAIN dict' = DOMAIN dict /\ dict'[r] = d /\ \A x \in DOMAIN dict : x # r => dict'[x] = dict[x]
  BY DEF R!SetDict, ResponseInv
<1>4. ASSUME NEW x \in R!Made', NEW n \in DOMAIN dict'[x]
      PROVE EntryDue(x, n)' \/ (x \in R!Made /\ n \in DOMAIN dict[x] /\ dict'[x][n] = dict[x][n])
  <2>1. CASE x = r
    BY <2>1, <1>1, <1>3 DEF EntryDue
  <2>2. CASE x # r
    BY <2>2, <1>1, <1>3 DEF ResponseInv
  <2>3. QED
    BY <2>1, <2>2
<1>5. QED
  BY <1>1, <1>2, <1>3, <1>4, ResponseKept DEF ResponseInv

LEMMA SetHeaderKeeps ==
    ASSUME ResponseInv, NEW r \in R!Made, NEW name, NEW value, R!SetDict(r, R!Put(R!Headers(r), name, R!One(value))),
           R!Gives(r, name, value), UNCHANGED <<list, holders, responsesMade, responseSent>>,
           responseCalls' \in Nat, responseCalls <= responseCalls'
    PROVE  ResponseInv'
<1>1. r \in Responses /\ R!Headers(r) = dict[r]
  BY DEF ResponseInv, R!Headers
<1>2. \A n \in DOMAIN R!Put(dict[r], name, R!One(value)) :
          \/ n \in DOMAIN dict[r] /\ R!Put(dict[r], name, R!One(value))[n] = dict[r][n]
          \/ ~R!IsList(R!Put(dict[r], name, R!One(value))[n])
             /\ <<n, R!Put(dict[r], name, R!One(value))[n].one>> \in given'[r]
  BY <1>1, GivesGrown DEF R!Put, R!One, R!IsList
<1>3. QED
  BY <1>1, <1>2, GivesGrown, DictKeeps

LEMMA DeleteHeaderKeeps ==
    ASSUME ResponseInv, NEW r, NEW name, R!DeleteHeader(r, name) PROVE ResponseInv'
<1>1. r \in R!Made /\ r \in Responses /\ R!Headers(r) = dict[r]
  BY DEF R!DeleteHeader, ResponseInv, R!Headers
<1>2. \A n \in DOMAIN R!Without(dict[r], name) : n \in DOMAIN dict[r] /\ R!Without(dict[r], name)[n] = dict[r][n]
  BY DEF R!Without
<1>3. R!SetDict(r, R!Without(dict[r], name)) /\ UNCHANGED <<list, responsesMade, given, holders, responseSent>>
      /\ responseCalls' \in Nat /\ responseCalls <= responseCalls'
  BY <1>1, CallsGrow DEF R!DeleteHeader
<1>4. QED
  BY <1>1, <1>2, <1>3, DictKeeps DEF ResponseInv

\* A value more for a list, wherever the list comes from.
LEMMA ResponseAppendKeeps ==
    ASSUME ResponseInv, NEW r \in R!Made, NEW name \in DOMAIN dict[r], NEW value, R!IsList(dict[r][name]),
           R!Gives(r, name, value), list' = [list EXCEPT ![dict[r][name].list] = Append(@, value)],
           UNCHANGED <<dict, holders, responsesMade, responseSent>>,
           responseCalls' \in Nat, responseCalls <= responseCalls'
    PROVE  ResponseInv'
<1>1. R!Made' = R!Made /\ r \in Responses /\ R!Made \subseteq Responses
  BY DEF R!Made, ResponseInv
<1>2. PICK k : k = dict[r][name].list
  OBVIOUS
<1>3. k \in DOMAIN list /\ ListDue(k) /\ k[2] = name /\ r \in holders[k]
  BY <1>2 DEF ResponseInv, EntryDue, ListOf
<1>4. DOMAIN list' = DOMAIN list /\ list'[k] = Append(list[k], value)
      /\ \A l \in DOMAIN list : l # k => list'[l] = list[l]
  BY <1>2, <1>3
<1>5. /\ DOMAIN given' = Holder /\ <<name, value>> \in given'[r] /\ \A x \in Holder : given[x] \subseteq given'[x]
  BY <1>1, GivesGrown
<1>6. ResponseGrown
  BY <1>4, <1>5 DEF ResponseGrown, ResponseInv, ListDue
<1>7. IsSeq(list'[k]) /\ IsSeq(list[k])
  BY <1>3, <1>4, AppendIsSeq DEF ListDue
<1>8. \A i \in DOMAIN list'[k] : list'[k][i] = value \/ (i \in DOMAIN list[k] /\ list'[k][i] = list[k][i])
  BY <1>7, <1>4, AppendIsSeq, SMTT(30)
<1>9. \A i \in DOMAIN list'[k] : \E x \in holders'[k] : <<name, list'[k][i]>> \in given'[x]
  <2>1. ASSUME NEW i \in DOMAIN list[k] PROVE \E x \in holders[k] : <<name, list[k][i]>> \in given'[x]
    BY <1>3, <1>5 DEF ListDue
  <2>2. QED
    BY <2>1, <1>3, <1>5, <1>8
<1>10. k[1] <= responseCalls'
  <2>1. \A a, b, c \in Nat : a <= b /\ b <= c => a <= c
    OBVIOUS
  <2>2. QED
    BY <1>3, <2>1 DEF ListDue, ResponseInv
<1>11. ListDue(k)'
  BY <1>3, <1>7, <1>9, <1>10 DEF ListDue
<1>12. \A l \in DOMAIN list' : ListDue(l)' \/ (l \in DOMAIN list /\ list'[l] = list[l])
  BY <1>4, <1>11
<1>13. QED
  BY <1>1, <1>6, <1>12, ResponseKept DEF ResponseInv

LEMMA PairIsSeq == ASSUME NEW a, NEW b
    PROVE IsSeq(<<a, b>>) /\ \A i \in DOMAIN <<a, b>> : <<a, b>>[i] \in {a, b}
<1>1. <<a, b>> \in Seq({a, b})
  OBVIOUS
<1>2. \E S : <<a, b>> \in Seq(S)
  BY <1>1
<1>3. IsSeq(<<a, b>>)
  BY <1>2 DEF IsSeq
<1>4. \A i \in DOMAIN <<a, b>> : <<a, b>>[i] \in {a, b}
  OBVIOUS
<1>5. QED
  BY <1>3, <1>4

\* A list of two values, which no other entry holds.
LEMMA NewListKeeps ==
    ASSUME ResponseInv, NEW r \in R!Made, NEW name \in DOMAIN dict[r], NEW value, ~R!IsList(dict[r][name]),
           R!Gives(r, name, value), R!Calls,
           list' = R!Put(list, <<responseCalls', name>>, <<dict[r][name].one, value>>),
           holders' = R!Put(holders, <<responseCalls', name>>, {r}),
           R!SetDict(r, R!Put(dict[r], name, [list |-> <<responseCalls', name>>])), UNCHANGED <<responsesMade, responseSent>>
    PROVE  ResponseInv'
<1> DEFINE new == <<dict[r][name].one, value>>
<1>1. R!Made' = R!Made /\ r \in Responses /\ R!Made \subseteq Responses /\ r # 0
  BY DEF R!Made, ResponseInv
<1>2. PICK k : k = <<responseCalls', name>>
  OBVIOUS
<1>3. responseCalls' = responseCalls + 1 /\ responseCalls' \in Nat /\ responseCalls <= responseCalls'
  BY CallsGrow
<1>4. k \notin DOMAIN list
  <2>1. ASSUME k \in DOMAIN list PROVE FALSE
    <3>1. responseCalls' <= responseCalls
      BY <2>1, <1>2 DEF ResponseInv, ListDue
    <3>2. QED
      BY <3>1, <1>3 DEF ResponseInv
  <2>2. QED
    BY <2>1
<1>5. /\ DOMAIN list' = DOMAIN list \cup {k} /\ list'[k] = new /\ \A l \in DOMAIN list : list'[l] = list[l]
      /\ DOMAIN holders' = DOMAIN list \cup {k} /\ holders'[k] = {r} /\ \A l \in DOMAIN list : holders'[l] = holders[l]
  BY <1>2, <1>4 DEF R!Put, ResponseInv
<1>6. /\ DOMAIN given' = Holder /\ <<name, value>> \in given'[r] /\ \A x \in Holder : given[x] \subseteq given'[x]
  BY <1>1, GivesGrown
<1>7. ResponseGrown
  BY <1>3, <1>5, <1>6 DEF ResponseGrown, ResponseInv, ListDue
<1>8. <<name, dict[r][name].one>> \in given'[r]
  BY <1>1, <1>6 DEF ResponseInv, EntryDue, ListOf, Holder
<1>9. IsSeq(new) /\ \A i \in DOMAIN new : new[i] \in {dict[r][name].one, value}
  BY PairIsSeq
<1>10. ListDue(k)'
  <2>1. k = <<k[1], k[2]>> /\ k[1] = responseCalls' /\ k[2] = name /\ r \in Holder
    BY <1>1, <1>2 DEF Holder
  <2>2. \A i \in DOMAIN list'[k] : <<name, list'[k][i]>> \in given'[r]
    BY <1>5, <1>6, <1>8, <1>9
  <2> HIDE DEF new
  <2>3. IsSeq(list'[k])
    BY <1>5, <1>9
  <2>4. \A n \in Nat : n <= n
    OBVIOUS
  <2>5. holders'[k] = {r} /\ responseCalls' \in Nat /\ responseCalls' <= responseCalls'
    BY <1>3, <1>5, <2>4
  <2>6. QED
    BY <2>1, <2>2, <2>3, <2>5 DEF ListDue
<1>11. /\ DOMAIN dict' = DOMAIN dict /\ \A x \in DOMAIN dict : x # r => dict'[x] = dict[x]
       /\ DOMAIN dict'[r] = DOMAIN dict[r] /\ dict'[r][name] = [list |-> k]
       /\ \A n \in DOMAIN dict[r] : n # name => dict'[r][n] = dict[r][n]
  <2>1. r \in DOMAIN dict /\ dict' = [dict EXCEPT ![r] = R!Put(dict[r], name, [list |-> k])]
    BY <1>2 DEF R!SetDict, ResponseInv
  <2>2. DOMAIN R!Put(dict[r], name, [list |-> k]) = DOMAIN dict[r] /\ R!Put(dict[r], name, [list |-> k])[name] = [list |-> k]
        /\ \A n \in DOMAIN dict[r] : n # name => R!Put(dict[r], name, [list |-> k])[n] = dict[r][n]
    BY DEF R!Put
  <2>3. QED
    BY <2>1, <2>2
<1>12. ASSUME NEW x \in R!Made', NEW n \in DOMAIN dict'[x]
       PROVE EntryDue(x, n)' \/ (x \in R!Made /\ n \in DOMAIN dict[x] /\ dict'[x][n] = dict[x][n])
  <2>1. CASE x = r /\ n = name
    <3>1. R!IsList([list |-> k])
      BY DEF R!IsList
    <3>2. PICK e : e = [list |-> k]
      OBVIOUS
    <3>3. R!IsList(e) /\ e.list = k /\ k \in DOMAIN list' /\ k[2] = name /\ r \in holders'[k]
      BY <3>1, <3>2, <1>2, <1>5
    <3>4. ListOf(e, name, r)'
      BY <3>3 DEF ListOf
    <3>5. QED
      BY <2>1, <3>2, <3>4, <1>11 DEF EntryDue
  <2>2. CASE ~(x = r /\ n = name)
    BY <2>2, <1>1, <1>11 DEF ResponseInv
  <2>3. QED
    BY <2>1, <2>2
<1>13. \A l \in DOMAIN list' : ListDue(l)' \/ (l \in DOMAIN list /\ list'[l] = list[l])
  BY <1>5, <1>10
<1>14. 0 \in DOMAIN dict' /\ dict'[0] = dict[0]
  BY <1>1, <1>11 DEF ResponseInv
<1>15. \A x \in R!Made' : /\ responsesMade'[x].headers = x /\ x \in DOMAIN dict' /\ "headers" \in DOMAIN responsesMade'[x]
  BY <1>1, <1>11 DEF ResponseInv
<1>16. QED
  BY <1>1, <1>7, <1>12, <1>13, <1>14, <1>15, ResponseKept

LEMMA AddKeeps == ASSUME ResponseInv, NEW r, NEW name, NEW value, R!Add(r, name, value)
    PROVE ResponseInv'
<1>1. /\ r \in R!Made /\ R!Headers(r) = dict[r] /\ R!Gives(r, name, value) /\ UNCHANGED <<responsesMade, responseSent>>
      /\ R!Calls /\ responseCalls' \in Nat /\ responseCalls <= responseCalls'
  BY CallsGrow DEF R!Add, ResponseInv, R!Headers
<1>2. CASE name \notin DOMAIN dict[r]
  BY <1>1, <1>2, SetHeaderKeeps DEF R!Add
<1>3. CASE name \in DOMAIN dict[r] /\ R!IsList(dict[r][name])
  BY <1>1, <1>3, ResponseAppendKeeps DEF R!Add
<1>4. CASE name \in DOMAIN dict[r] /\ ~R!IsList(dict[r][name])
  BY <1>1, <1>4, NewListKeeps DEF R!Add
<1>5. QED
  BY <1>2, <1>3, <1>4

\* What a response takes over.
LEMMA TakesGrown ==
    ASSUME ResponseInv, NEW r \in Responses, NEW d, R!Takes(r, d), UNCHANGED list,
           DOMAIN given' = Holder, \A x \in Holder : given[x] \subseteq given'[x],
           responseCalls' \in Nat, responseCalls <= responseCalls'
    PROVE  /\ ResponseGrown
           /\ \A n \in DOMAIN d : R!IsList(d[n]) /\ d[n].list \in DOMAIN list => r \in holders'[d[n].list]
<1>1. \A l \in DOMAIN list : holders[l] \subseteq Holder
  BY DEF ResponseInv, ListDue
<1>2. DOMAIN holders' = DOMAIN holders
      /\ \A l \in DOMAIN holders : holders[l] \subseteq holders'[l] /\ holders'[l] \subseteq holders[l] \cup {r}
  BY DEF R!Takes
<1>3. \A n \in DOMAIN d : R!IsList(d[n]) /\ d[n].list \in DOMAIN list => r \in holders'[d[n].list]
  BY DEF R!Takes, ResponseInv
<1>4. QED
  BY <1>1, <1>2, <1>3 DEF ResponseGrown, ResponseInv, Holder

LEMMA NewKeeps == ASSUME ResponseInv, NEW r \in Responses, NEW type, NEW b, R!New(r, type, b)
    PROVE ResponseInv'
<1>1. PICK d : d = R!Put(dict[0], "content-type", R!One(type))
  OBVIOUS
<1>2. /\ r # 0 /\ r \notin R!Made /\ UNCHANGED <<list, responseSent>>
      /\ dict' = R!Put(dict, r, d) /\ R!Takes(r, dict[0])
      /\ responsesMade' = R!Put(responsesMade, r, [headers |-> r, cookies |-> <<>>, body |-> b, written |-> 0])
      /\ given' = [given EXCEPT ![r] = @ \cup {<<"content-type", type>>}]
      /\ responseCalls' \in Nat /\ responseCalls <= responseCalls'
  BY <1>1, CallsGrow DEF R!New, R!DictOf, ResponseInv
<1>3. /\ DOMAIN dict' = DOMAIN dict \cup {r} /\ dict'[r] = d
      /\ \A x \in DOMAIN dict : x # r => dict'[x] = dict[x]
  BY <1>2 DEF R!Put
<1>4. /\ R!Made' = R!Made \cup {r} /\ responsesMade'[r].headers = r /\ "headers" \in DOMAIN responsesMade'[r]
      /\ \A x \in R!Made : responsesMade'[x] = responsesMade[x]
  BY <1>2 DEF R!Put, R!Made
<1>5. /\ DOMAIN given' = Holder /\ <<"content-type", type>> \in given'[r] /\ \A x \in Holder : given[x] \subseteq given'[x]
  BY <1>2 DEF ResponseInv, Holder
<1>6. /\ ResponseGrown
      /\ \A n \in DOMAIN dict[0] : R!IsList(dict[0][n]) /\ dict[0][n].list \in DOMAIN list => r \in holders'[dict[0][n].list]
  <2>1. PICK h : h = dict[0]
    OBVIOUS
  <2>2. R!Takes(r, h)
    BY <1>2, <2>1
  <2>3. QED
    BY <1>2, <1>5, <2>1, <2>2, TakesGrown
<1>7. ASSUME NEW n \in DOMAIN d PROVE EntryDue(r, n)'
  <2>1. CASE n = "content-type"
    <3>1. d[n] = R!One(type) /\ ~R!IsList(R!One(type)) /\ R!One(type).one = type
      BY <2>1, <1>1 DEF R!Put, R!One, R!IsList
    <3>2. QED
      BY <2>1, <3>1, <1>3, <1>5 DEF EntryDue
  <2>2. CASE n # "content-type"
    <3>1. n \in DOMAIN dict[0] /\ d[n] = dict[0][n] /\ DefaultDue(n)
      BY <2>2, <1>1 DEF R!Put, ResponseInv
    <3>2. CASE ListOf(dict[0][n], n, 0)
      BY <3>1, <3>2, <1>2, <1>3, <1>6 DEF EntryDue, ListOf
    <3>3. CASE ~R!IsList(dict[0][n]) /\ <<n, dict[0][n].one>> \in given[r]
      BY <3>1, <3>3, <1>3, <1>5 DEF EntryDue, Holder
    <3>4. QED
      BY <3>1, <3>2, <3>3 DEF DefaultDue
  <2>3. QED
    BY <2>1, <2>2
<1>8. ASSUME NEW x \in R!Made', NEW n \in DOMAIN dict'[x]
      PROVE EntryDue(x, n)' \/ (x \in R!Made /\ n \in DOMAIN dict[x] /\ dict'[x][n] = dict[x][n])
  <2>1. CASE x = r
    BY <2>1, <1>3, <1>7
  <2>2. CASE x # r
    BY <2>2, <1>3, <1>4 DEF ResponseInv
  <2>3. QED
    BY <2>1, <2>2
<1>9. 0 \in DOMAIN dict' /\ dict'[0] = dict[0] /\ R!Made' \subseteq Responses
  BY <1>2, <1>3, <1>4 DEF ResponseInv
<1>10. \A x \in R!Made' : /\ responsesMade'[x].headers = x /\ x \in DOMAIN dict' /\ "headers" \in DOMAIN responsesMade'[x]
  BY <1>3, <1>4 DEF ResponseInv
<1>11. \A l \in DOMAIN list' : l \in DOMAIN list /\ list'[l] = list[l]
  BY <1>2
<1>12. QED
  BY <1>2, <1>6, <1>8, <1>9, <1>10, <1>11, ResponseKept

\* The headers of another response, with the lists among them.
LEMMA CopyKeeps == ASSUME ResponseInv, NEW r, NEW other, R!CopyFrom(r, other) PROVE ResponseInv'
<1>1. PICK d : d = dict[other]
  OBVIOUS
<1>2. /\ r \in R!Made /\ other \in R!Made /\ r \in Responses /\ other \in Responses /\ r # 0
      /\ R!Made' = R!Made /\ R!Made \subseteq Responses
      /\ UNCHANGED <<list, responsesMade, responseSent>> /\ R!Takes(r, d)
      /\ given' = [given EXCEPT ![r] = @ \cup R!Singles(d)]
      /\ responseCalls' \in Nat /\ responseCalls <= responseCalls'
  BY <1>1, CallsGrow DEF R!CopyFrom, ResponseInv, R!Made, R!Headers
<1>3. /\ DOMAIN dict' = DOMAIN dict /\ dict'[r] = R!Updated(dict[r], d)
      /\ \A x \in DOMAIN dict : x # r => dict'[x] = dict[x]
  BY <1>1, <1>2 DEF R!CopyFrom, R!SetDict, ResponseInv, R!Headers
<1>4. /\ DOMAIN given' = Holder /\ R!Singles(d) \subseteq given'[r] /\ \A x \in Holder : given[x] \subseteq given'[x]
  BY <1>2 DEF ResponseInv, Holder
<1>5. /\ ResponseGrown
      /\ \A n \in DOMAIN d : R!IsList(d[n]) /\ d[n].list \in DOMAIN list => r \in holders'[d[n].list]
  BY <1>2, <1>4, TakesGrown
<1>6. ASSUME NEW n \in DOMAIN d, d[n] = dict'[r][n] PROVE EntryDue(r, n)'
  <2>1. EntryDue(other, n)
    BY <1>1, <1>2 DEF ResponseInv
  <2>2. CASE ListOf(d[n], n, other)
    BY <2>2, <1>2, <1>5, <1>6 DEF EntryDue, ListOf
  <2>3. CASE ~R!IsList(d[n])
    <3>1. <<n, d[n].one>> \in R!Singles(d)
      BY <2>3 DEF R!Singles
    <3>2. QED
      BY <2>3, <3>1, <1>4, <1>6 DEF EntryDue
  <2>4. QED
    BY <2>1, <2>2, <2>3, <1>1 DEF EntryDue
<1>7. ASSUME NEW x \in R!Made', NEW n \in DOMAIN dict'[x]
      PROVE EntryDue(x, n)' \/ (x \in R!Made /\ n \in DOMAIN dict[x] /\ dict'[x][n] = dict[x][n])
  <2>1. CASE x = r
    BY <2>1, <1>2, <1>3, <1>6 DEF R!Updated
  <2>2. CASE x # r
    BY <2>2, <1>2, <1>3 DEF ResponseInv
  <2>3. QED
    BY <2>1, <2>2
<1>8. 0 \in DOMAIN dict' /\ dict'[0] = dict[0]
  BY <1>2, <1>3 DEF ResponseInv
<1>9. \A x \in R!Made' : /\ responsesMade'[x].headers = x /\ x \in DOMAIN dict' /\ "headers" \in DOMAIN responsesMade'[x]
  BY <1>2, <1>3 DEF ResponseInv
<1>10. \A l \in DOMAIN list' : l \in DOMAIN list /\ list'[l] = list[l]
  BY <1>2
<1>11. QED
  BY <1>2, <1>5, <1>7, <1>8, <1>9, <1>10, ResponseKept

LEMMA SetTypeKeeps ==
    ASSUME ResponseInv, NEW r \in R!Made, NEW value, R!SetType(r, value), R!Calls PROVE ResponseInv'
  BY SetHeaderKeeps, CallsGrow DEF R!SetType

LEMMA CookieKeeps == ASSUME ResponseInv, NEW r, NEW key, NEW age, R!SetCookie(r, key, age)
    PROVE ResponseInv'
<1>1. \E c : responsesMade' = [responsesMade EXCEPT ![r].cookies = c]
  BY DEF R!SetCookie
<1>2. /\ UNCHANGED <<dict, list, given, holders, responseSent>> /\ DOMAIN responsesMade' = DOMAIN responsesMade
      /\ \A x \in R!Made : responsesMade'[x].headers = responsesMade[x].headers /\ "headers" \in DOMAIN responsesMade'[x]
      /\ responseCalls' \in Nat /\ responseCalls <= responseCalls'
  BY <1>1, CallsGrow DEF R!SetCookie, R!Made, ResponseInv
<1>3. QED
  BY <1>2, OtherKeeps

LEMMA ResponseWriteKeeps == ASSUME ResponseInv, NEW r, R!Write(r) PROVE ResponseInv'
<1>1. /\ UNCHANGED <<dict, list, given, holders, responseSent>> /\ DOMAIN responsesMade' = DOMAIN responsesMade
      /\ \A x \in R!Made : responsesMade'[x].headers = responsesMade[x].headers /\ "headers" \in DOMAIN responsesMade'[x]
      /\ responseCalls' \in Nat /\ responseCalls <= responseCalls'
  BY CallsGrow DEF R!Write, R!Made, ResponseInv
<1>2. QED
  BY <1>1, OtherKeeps

LEMMA ResponseStep == ASSUME ResponseInv, [R!ResponseNext]_responseVars PROVE ResponseInv'
<1>1. CASE UNCHANGED responseVars
  BY <1>1, OtherKeeps DEF responseVars, ResponseInv
<1>2. ASSUME NEW r, NEW name, NEW value, R!SetHeader(r, name, value) PROVE ResponseInv'
  BY <1>2, SetHeaderKeeps, CallsGrow DEF R!SetHeader
<1>3. ASSUME NEW r, NEW c, R!SetCharset(r, c) PROVE ResponseInv'
  BY <1>3, SetTypeKeeps DEF R!SetCharset
<1>4. ASSUME NEW r, NEW value, R!SetContentType(r, value) PROVE ResponseInv'
  BY <1>4, SetTypeKeeps DEF R!SetContentType
<1>5. CASE R!ResponseNext
  BY <1>2, <1>3, <1>4, <1>5, NewKeeps, AddKeeps, DeleteHeaderKeeps, CopyKeeps, CookieKeeps,
     ResponseWriteKeeps, SendKeeps
     DEF R!ResponseNext, R!DeleteCookie
<1>6. QED
  BY <1>1, <1>5

-----------------------------------------------------------------------------
(* Wsgi: what is closed is known from where the program is, and from where an *)
(* exception interrupted it.                                                 *)

\* Whether there is something to close, and it has been closed.
Closed == IF body = "iterator" THEN 1 ELSE 0

\* What is closed is known from what runs, or what the exception interrupted.
WsgiInv ==
    /\ pc \in {"start", "call", "drain", "iterate", "raised", "done"}
    /\ page \in BOOLEAN /\ "error" \in DOMAIN seen /\ closes \in {0, 1}
    /\ server \in {"raw_interactive", "modpython", "scgi"}
    /\ pc \in {"start", "call"} => body = W!NoBody /\ closes = 0 /\ page = FALSE
    /\ pc = "drain" => closes = 0 /\ page = FALSE
    /\ pc = "iterate" => closes = IF page THEN Closed ELSE 0
    /\ pc = "raised" =>
          /\ where \in {"lint", "call", "drain", "iterate", "taken", "closed"}
          /\ where \in {"lint", "call", "drain", "iterate"} => closes = 0 /\ page = FALSE
          /\ where = "taken" => closes = IF page THEN Closed ELSE 0
          /\ where = "closed" => closes = Closed
          /\ where = "lint" => body = W!NoBody
          /\ where = "call" /\ body = "iterator" => mid = "intercept" /\ held.status = 0
    /\ pc = "done" => W!ClosedOnce

LEMMA WsgiInitHolds == ASSUME W!WsgiInit, WsgiAssumed PROVE WsgiInv
  BY DEF W!WsgiInit, WsgiInv, W!NoBody, WsgiAssumed

LEMMA StartKeeps ==
    ASSUME WsgiInv, NEW fails \in BOOLEAN, NEW c \in BOOLEAN, NEW fault, W!StartResponse(fails, c, fault)
    PROVE WsgiInv'
  BY DEF WsgiInv, W!StartResponse, W!Running, W!Pass, W!Raise, W!Stack, Closed, W!NoBody, W!ClosedOnce

LEMMA CallKeeps == ASSUME WsgiInv, W!Call PROVE WsgiInv'
  BY DEF WsgiInv, W!Call, W!Raise, W!Stack, Closed, W!NoBody, W!ClosedOnce
LEMMA WsgiWriteKeeps == ASSUME WsgiInv, W!Write PROVE WsgiInv'
  BY DEF WsgiInv, W!Write, W!Running, W!Raise, W!Stack, Closed, W!NoBody, W!ClosedOnce
LEMMA FailKeeps == ASSUME WsgiInv, W!Fail PROVE WsgiInv'
  BY DEF WsgiInv, W!Fail, W!Running, W!Raise, W!Stack, Closed, W!NoBody, W!ClosedOnce
LEMMA ReturnKeeps == ASSUME WsgiInv, NEW kind \in {"list", "iterator"}, W!Return(kind) PROVE WsgiInv'
  BY DEF WsgiInv, W!Return, W!InterceptFails, W!Raise, W!Stack, Closed, W!NoBody, W!ClosedOnce
LEMMA GiveKeeps == ASSUME WsgiInv, W!Give PROVE WsgiInv'
  BY DEF WsgiInv, W!Give, W!TakeItem, W!Receive, W!Raise, W!Stack, Closed, W!NoBody, W!ClosedOnce
LEMMA DrainedKeeps == ASSUME WsgiInv, NEW fails \in BOOLEAN, W!Drained(fails) PROVE WsgiInv'
<1>1. /\ pc = "drain" /\ server' = server /\ server \in {"raw_interactive", "modpython", "scgi"}
      /\ closes = 0 /\ page = FALSE /\ body' = body /\ "error" \in DOMAIN seen
  BY DEF WsgiInv, W!Drained, W!Stack
<1>2. closes' = Closed /\ Closed' = Closed
  BY <1>1 DEF W!Drained, W!Close, Closed
<1>3. CASE pc' = "raised" /\ where' = "closed" /\ page' = page /\ seen' = seen
  BY <1>1, <1>2, <1>3 DEF WsgiInv, Closed
<1>4. CASE pc' = "iterate" /\ page' = TRUE /\ (seen' = seen \/ seen' = [seen EXCEPT !.status = held.status])
  BY <1>1, <1>2, <1>4 DEF WsgiInv, Closed
<1>5. QED
  BY <1>3, <1>4 DEF W!Drained, W!Raise
LEMMA ExhaustedKeeps == ASSUME WsgiInv, NEW fails \in BOOLEAN, W!Exhausted(fails) PROVE WsgiInv'
<1>1. /\ pc = "iterate" /\ server' = server /\ server \in {"raw_interactive", "modpython", "scgi"}
      /\ body' = body /\ page \in BOOLEAN /\ (closes = IF page THEN Closed ELSE 0)
      /\ "error" \in DOMAIN seen
  BY DEF WsgiInv, W!Exhausted, W!Stack
<1>2. closes' = Closed /\ Closed' = Closed
  BY <1>1 DEF W!Exhausted, W!Close, Closed
<1>3. CASE pc' = "iterate" /\ page' = TRUE /\ seen' = seen
  BY <1>1, <1>2, <1>3 DEF WsgiInv, Closed
<1>4. CASE pc' = "done" /\ page' = page /\ "error" \in DOMAIN seen'
  BY <1>1, <1>2, <1>4 DEF WsgiInv, W!ClosedOnce, Closed
<1>5. QED
  BY <1>1, <1>3, <1>4 DEF W!Exhausted, W!Finish
LEMMA CaughtKeeps == ASSUME WsgiInv, W!CaughtByCgitb PROVE WsgiInv'
<1>1. /\ server' = server /\ server \in {"raw_interactive", "modpython", "scgi"}
      /\ pc = "raised" /\ closes = 0 /\ body' = body /\ page = FALSE /\ page' = TRUE
      /\ "error" \in DOMAIN seen /\ mid = "cgitb" /\ where \in {"call", "iterate"}
      /\ where = "call" => body # "iterator"
  BY DEF WsgiInv, W!CaughtByCgitb, W!Stack
<1>2. closes' = Closed /\ Closed' = Closed
  <2>1. CASE where = "call"
    BY <1>1, <2>1 DEF W!CaughtByCgitb, Closed
  <2>2. CASE where = "iterate"
    BY <1>1, <2>2 DEF W!CaughtByCgitb, W!Close, Closed
  <2>3. QED
    BY <1>1, <2>1, <2>2
<1>3. /\ "error" \in DOMAIN seen' /\ pc' \in {"iterate", "done"}
  BY <1>1 DEF W!CaughtByCgitb, W!Finish
<1>5. QED
  BY <1>1, <1>2, <1>3 DEF WsgiInv, W!ClosedOnce, Closed

LEMMA UncaughtKeeps == ASSUME WsgiInv, NEW fails \in BOOLEAN, W!Uncaught(fails) PROVE WsgiInv'
<1>1. /\ server \in {"raw_interactive", "modpython", "scgi"}
      /\ pc = "raised" /\ pc' = "done" /\ body' = body /\ page' = page /\ page \in BOOLEAN
      /\ seen' = [seen EXCEPT !.error = @ \/ TRUE \/ seen.status = 0] /\ "error" \in DOMAIN seen
      /\ where' = where /\ mid' = mid /\ held' = held /\ server' = server
  BY DEF WsgiInv, W!Uncaught, W!Finish, W!Stack
<1>2. seen'.error /\ "error" \in DOMAIN seen'
  BY <1>1
<1>3. /\ closes' \in {0, 1}
      /\ body = "iterator" /\ closes' = 0 =>
            \/ server = "modpython"
            \/ mid = "cgitb" /\ where = "taken"
            \/ mid = "intercept" /\ held.status = 0
  <2>1. W!ClosesAfter => closes' = closes + Closed
    BY DEF W!Uncaught, W!Close, Closed, WsgiInv
  <2>2. ~W!ClosesAfter => closes' = closes
    BY DEF W!Uncaught
  <2>3. CASE where \in {"lint", "call"}
    <3>1. ~W!ClosesAfter
      BY <2>3 DEF W!ClosesAfter, W!DrainCloses, W!RawCloses, W!ScgiCloses
    <3>2. QED
      BY <1>1, <2>2, <2>3, <3>1 DEF WsgiInv, W!NoBody
  <2>4. CASE where = "drain"
    <3>1. W!ClosesAfter
      BY <2>4 DEF W!ClosesAfter, W!DrainCloses
    <3>2. closes = 0
      BY <1>1, <2>4 DEF WsgiInv
    <3>3. QED
      BY <2>1, <3>1, <3>2 DEF Closed
  <2>5. CASE where = "iterate"
    <3>1. closes = 0
      BY <1>1, <2>5 DEF WsgiInv
    <3>3. W!ClosesAfter \/ server \notin {"raw_interactive", "scgi"}
      BY <2>5 DEF W!ClosesAfter, W!RawCloses, W!ScgiCloses
    <3>4. closes' \in {0, 1} /\ (closes' = 0 /\ body = "iterator" => ~W!ClosesAfter)
      BY <2>1, <2>2, <3>1 DEF Closed
    <3>5. QED
      BY <1>1, <3>3, <3>4
  <2>6. CASE where = "taken"
    <3>1. closes = IF page THEN Closed ELSE 0
      BY <1>1, <2>6 DEF WsgiInv
    <3>2. W!ClosesAfter <=> server # "modpython" /\ mid # "cgitb" /\ ~page
      BY <1>1, <2>6 DEF W!ClosesAfter, W!DrainCloses, W!RawCloses, W!ScgiCloses
    <3>3. CASE W!ClosesAfter
      BY <1>1, <2>1, <3>1, <3>2, <3>3 DEF Closed
    <3>4. CASE ~W!ClosesAfter
      BY <1>1, <2>2, <2>6, <3>1, <3>2, <3>4 DEF Closed
    <3>5. QED
      BY <3>3, <3>4
  <2>7. CASE where = "closed"
    <3>1. ~W!ClosesAfter
      BY <2>7 DEF W!ClosesAfter, W!DrainCloses, W!RawCloses, W!ScgiCloses
    <3>2. QED
      BY <1>1, <2>2, <2>7, <3>1 DEF WsgiInv, Closed
  <2>8. QED
    BY <1>1, <2>3, <2>4, <2>5, <2>6, <2>7 DEF WsgiInv
<1>4. QED
  BY <1>1, <1>2, <1>3 DEF WsgiInv, W!ClosedOnce

LEMMA WsgiStep == ASSUME WsgiInv, [W!WsgiNext]_wsgiVars PROVE WsgiInv'
<1>1. CASE UNCHANGED wsgiVars
  BY <1>1 DEF wsgiVars, WsgiInv, Closed, W!ClosedOnce
<1>2. CASE W!GivePage
  BY <1>2 DEF WsgiInv, W!GivePage, W!TakeItem, W!Receive, W!Raise, W!Stack, Closed, W!NoBody,
     W!ClosedOnce
<1>3. CASE W!WsgiNext
  BY <1>2, <1>3, StartKeeps, CallKeeps, WsgiWriteKeeps, FailKeeps, GiveKeeps, CaughtKeeps,
     ReturnKeeps, DrainedKeeps, ExhaustedKeeps, UncaughtKeeps DEF W!WsgiNext
<1>4. QED
  BY <1>1, <1>3
LEMMA WsgiInvGives == ASSUME WsgiInv PROVE W!ClosedOnce
  BY DEF WsgiInv, W!ClosedOnce, Closed, W!NoBody

-----------------------------------------------------------------------------
(* Auth: what is kept of a nonce is the count of a request that passed, and   *)
(* every count that a browser sends is above the one of a nonce not kept.     *)

Password == {"none", "right", "wrong", "nobody"}
Message == [request : AuthRequest, send : Nat, nonce : Nat, count : Nat, as : Password, cookie : BOOLEAN]
Judged == [nonce : Nat, count : Nat, as : Password, cookie : BOOLEAN, passed : BOOLEAN]
AuthStep == {"get", "set", "refuse", "delete"}

\* compute is only called with a count of the browser's.
Counted(m) == A!Digest /\ m.as # "none" => m.count > 0

\* Where a thread is in compute.
InCompute(a) ==
    /\ a.message.count > 0 /\ a.message.as \in {"right", "wrong"}
    /\ a.step \in {"get", "set"} => a.message.as = "right"
    /\ a.step \in {"refuse", "delete"} /\ a.message.as = "right" => A!Overtaken(a.message)

AuthTyped ==
    /\ issued \in Nat /\ nonce \in Nat /\ count \in Nat
    /\ sends \in [AuthRequest -> Nat] /\ typed \in [AuthRequest -> Password] /\ jar \in BOOLEAN
    /\ wire \subseteq Message /\ judged \subseteq Judged
    /\ at \in [AuthThread -> {A!Idle} \cup [step : AuthStep, message : Message]]

\* The count of a nonce that was used is one of a request that passed with it.
CountsPassed ==
    \A n \in DOMAIN nonces :
        nonces[n] # A!Unused => \E p \in judged : p.passed /\ p.nonce = n /\ p.count = nonces[n]

AuthInv ==
    /\ AuthTyped /\ CountsPassed /\ A!RefusedIfOvertaken
    /\ \A m \in wire : Counted(m)
    /\ \A t \in AuthThread : at[t] # A!Idle => InCompute(at[t])

LEMMA AuthInitHolds == ASSUME A!Init PROVE AuthInv
<1>1. AuthTyped
  BY DEF A!Init, AuthTyped, A!Unknown, Password
<1>2. CountsPassed
  BY DEF A!Init, CountsPassed
<1>3. QED
  BY <1>1, <1>2 DEF A!Init, AuthInv, A!RefusedIfOvertaken

\* What was decided stays so.
LEMMA StillOvertaken ==
    ASSUME NEW m, A!Overtaken(m), judged \subseteq judged'
    PROVE  A!Overtaken(m)'
  BY DEF A!Overtaken

LEMMA MoreJudged ==
    ASSUME AuthTyped, NEW m \in Message, NEW passed \in BOOLEAN, A!Judge(m, passed),
           A!RefusedIfOvertaken, config' = config,
           passed \/ m.as # "right" \/ A!Unreadable(m.cookie) \/ A!Overtaken(m)
    PROVE  /\ judged \subseteq judged' /\ judged' \subseteq Judged /\ A!RefusedIfOvertaken'
           /\ passed => \E p \in judged' : p.passed /\ p.nonce = m.nonce /\ p.count = m.count
<1> DEFINE j == [nonce |-> m.nonce, count |-> m.count, as |-> m.as, cookie |-> m.cookie, passed |-> passed]
<1>1. judged' = judged \cup {j}
  BY DEF A!Judge
<1>2. j \in Judged
  BY DEF Message, Judged
<1>3. \A c : A!Unreadable(c)' = A!Unreadable(c)
  BY DEF A!Unreadable, A!CookieFails, A!TicketFails
<1>4. ASSUME NEW k \in judged', k.as = "right", ~k.passed PROVE A!Unreadable(k.cookie)' \/ A!Overtaken(k)'
  <2>1. CASE k \in judged
    BY <2>1, <1>1, <1>3, <1>4, StillOvertaken DEF A!RefusedIfOvertaken
  <2>2. CASE k = j
    <3>1. A!Unreadable(m.cookie) \/ A!Overtaken(m)
      BY <2>2, <1>4
    <3>2. CASE A!Unreadable(m.cookie)
      BY <3>2, <2>2, <1>3
    <3>3. CASE A!Overtaken(m)
      BY <3>3, <2>2, <1>1 DEF A!Overtaken
    <3>4. QED
      BY <3>1, <3>2, <3>3
  <2>3. QED
    BY <2>1, <2>2, <1>1, <1>4
<1>5. QED
  BY <1>1, <1>2, <1>4 DEF AuthTyped, A!RefusedIfOvertaken

\* What the three ends of a request do to the browser keeps the types.
LEMMA EndsTyped ==
    ASSUME AuthTyped, NEW m \in Message, NEW new \in Nat, NEW stale,
           A!Answered(m) \/ A!Challenged(m, new, stale) \/ A!Failed(m)
    PROVE  nonce' \in Nat /\ count' \in Nat /\ typed' \in [AuthRequest -> Password] /\ jar' \in BOOLEAN
<1>1. CASE A!Answered(m)
  BY <1>1 DEF A!Answered, AuthTyped
<1>2. CASE A!Failed(m)
  BY <1>2 DEF A!Failed, AuthTyped
<1>3. CASE A!Challenged(m, new, stale)
  <2>1. typed' \in [AuthRequest -> Password]
    BY <1>3 DEF A!Challenged, AuthTyped, Password
  <2>2. QED
    BY <1>3, <2>1 DEF A!Challenged, AuthTyped
<1>4. QED
  BY <1>1, <1>2, <1>3

\* An end that leaves the nonces, but for those that it gives up or makes, keeps the invariant.
LEMMA DecideKeeps ==
    ASSUME AuthInv, NEW m \in Message, NEW t \in AuthThread, NEW passed \in BOOLEAN, A!Judge(m, passed),
           passed \/ m.as # "right" \/ A!Unreadable(m.cookie) \/ A!Overtaken(m),
           config' = config, sends' = sends, wire' \subseteq wire, issued' \in Nat,
           nonce' \in Nat, count' \in Nat, typed' \in [AuthRequest -> Password], jar' \in BOOLEAN,
           at' = at \/ at' = [at EXCEPT ![t] = A!Idle],
           \A n \in DOMAIN nonces' :
             \/ nonces'[n] = A!Unused \/ (n \in DOMAIN nonces /\ nonces'[n] = nonces[n])
             \/ passed /\ n = m.nonce /\ nonces'[n] = m.count
    PROVE  AuthInv'
<1>1. /\ judged \subseteq judged' /\ judged' \subseteq Judged /\ A!RefusedIfOvertaken'
      /\ passed => \E p \in judged' : p.passed /\ p.nonce = m.nonce /\ p.count = m.count
  BY MoreJudged DEF AuthInv
<1>2. A!Digest' = A!Digest
  BY DEF A!Digest, A!Method
<1>3. AuthTyped'
  BY <1>1 DEF AuthInv, AuthTyped
<1>4. CountsPassed'
  <2> SUFFICES ASSUME NEW n \in DOMAIN nonces', nonces'[n] # A!Unused
               PROVE  \E p \in judged' : p.passed /\ p.nonce = n /\ p.count = nonces'[n]
    BY DEF CountsPassed, A!Unused
  <2>1. CASE n \in DOMAIN nonces /\ nonces'[n] = nonces[n]
    BY <2>1, <1>1 DEF AuthInv, CountsPassed
  <2>2. CASE passed /\ n = m.nonce /\ nonces'[n] = m.count
    BY <2>2, <1>1
  <2>3. QED
    BY <2>1, <2>2
<1>5. \A w \in wire' : Counted(w)'
  BY <1>2 DEF AuthInv, Counted
<1>6. ASSUME NEW u \in AuthThread, at'[u] # A!Idle PROVE InCompute(at[u])' /\ at'[u] = at[u]
  <2>1. at'[u] = at[u]
    BY <1>6 DEF AuthInv, AuthTyped
  <2>2. InCompute(at[u])
    BY <2>1, <1>6 DEF AuthInv
  <2>3. QED
    BY <2>1, <2>2, <1>1, StillOvertaken DEF InCompute
<1>7. QED
  BY <1>1, <1>3, <1>4, <1>5, <1>6 DEF AuthInv, A!Idle

\* Building a challenge is such an end.
LEMMA BuildKeeps ==
    ASSUME AuthInv, NEW m \in Message, NEW t \in AuthThread, NEW kept, NEW stale, A!Build(m, kept, stale),
           m.as # "right" \/ A!Overtaken(m),
           config' = config, sends' = sends, wire' \subseteq wire,
           at' = at \/ at' = [at EXCEPT ![t] = A!Idle],
           \A n \in DOMAIN kept : n \in DOMAIN nonces /\ kept[n] = nonces[n]
    PROVE  AuthInv'
<1>1. A!Challenged(m, issued', stale) /\ issued' \in Nat
  BY DEF A!Build, AuthInv, AuthTyped
<1>2. nonce' \in Nat /\ count' \in Nat /\ typed' \in [AuthRequest -> Password] /\ jar' \in BOOLEAN
  BY <1>1, EndsTyped DEF AuthInv
<1>3. A!Judge(m, FALSE)
  BY <1>1 DEF A!Challenged
<1>4. \A n \in DOMAIN nonces' : nonces'[n] = A!Unused \/ (n \in DOMAIN nonces /\ nonces'[n] = nonces[n])
  BY DEF A!Build
<1>5. QED
  BY <1>1, <1>2, <1>3, <1>4, DecideKeeps

LEMMA AuthSendKeeps == ASSUME AuthInv, NEW r \in AuthRequest, A!Send(r) PROVE AuthInv'
<1> DEFINE m == [request |-> r, send |-> sends'[r], nonce |-> nonce, count |-> count',
                 as |-> typed[r], cookie |-> jar]
<1>1. wire' = wire \cup {m} /\ UNCHANGED <<config, jar, nonces, issued, nonce, typed, at, judged>>
      /\ sends' = [sends EXCEPT ![r] = @ + 1] /\ count' = IF typed[r] # "none" /\ A!Digest THEN count + 1 ELSE count
  BY DEF A!Send
<1>2. count' \in Nat /\ sends' \in [AuthRequest -> Nat]
  BY <1>1 DEF AuthInv, AuthTyped
<1>3. m \in Message
  BY <1>2 DEF Message, AuthInv, AuthTyped
<1>4. ASSUME NEW w, w = m PROVE Counted(w)'
  <2>1. A!Digest' = A!Digest
    BY <1>1 DEF A!Digest, A!Method
  <2>2. typed[r] # "none" /\ A!Digest => count' > 0
    BY <1>1 DEF AuthInv, AuthTyped
  <2>3. w.as = typed[r] /\ w.count = count'
    BY <1>4
  <2>4. QED
    BY <2>1, <2>2, <2>3 DEF Counted
<1>5. \A w \in wire : Counted(w)'
  BY <1>1 DEF AuthInv, Counted, A!Digest, A!Method
<1>6. AuthTyped'
  BY <1>1, <1>2, <1>3 DEF AuthInv, AuthTyped
<1>7. A!RefusedIfOvertaken' /\ CountsPassed'
  BY <1>1 DEF AuthInv, A!RefusedIfOvertaken, A!Overtaken, A!Unreadable, A!CookieFails, A!TicketFails, CountsPassed, A!Unused
<1>8. \A t \in AuthThread : at'[t] # A!Idle => InCompute(at[t])'
  BY <1>1 DEF AuthInv, InCompute, A!Overtaken
<1>9. \A w \in wire' : Counted(w)'
  BY <1>1, <1>4, <1>5
<1>10. QED
  BY <1>6, <1>7, <1>8, <1>9 DEF AuthInv, A!Idle

\* A step within compute that decides nothing.
LEMMA GoKeeps ==
    ASSUME AuthInv, NEW t \in AuthThread, NEW a \in [step : AuthStep, message : Message], InCompute(a),
           UNCHANGED <<config, jar, nonces, issued, nonce, count, typed, sends, judged>>, wire' \subseteq wire,
           at' = [at EXCEPT ![t] = a]
    PROVE  AuthInv'
<1>1. AuthTyped'
  BY DEF AuthInv, AuthTyped
<1>2. A!RefusedIfOvertaken' /\ CountsPassed'
  BY DEF AuthInv, A!RefusedIfOvertaken, A!Overtaken, A!Unreadable, A!CookieFails, A!TicketFails, CountsPassed, A!Unused
<1>3. \A w \in wire' : Counted(w)'
  BY DEF AuthInv, Counted, A!Digest, A!Method
<1>4. \A u \in AuthThread : at'[u] # A!Idle => InCompute(at[u])'
  BY DEF AuthInv, AuthTyped, InCompute, A!Overtaken
<1>5. QED
  BY <1>1, <1>2, <1>3, <1>4 DEF AuthInv, A!Idle

LEMMA AuthTakeKeeps == ASSUME AuthInv, NEW t \in AuthThread, NEW m \in wire, A!Take(t, m) PROVE AuthInv'
<1>1. m \in Message /\ Counted(m)
  BY DEF AuthInv, AuthTyped
<1>2. config' = config /\ sends' = sends /\ wire' \subseteq wire
  BY DEF A!Take
<1>3. ASSUME NEW passed \in BOOLEAN, (A!Answered(m) /\ passed) \/ (A!Challenged(m, A!Unknown, FALSE) /\ ~passed) \/ (A!Failed(m) /\ ~passed),
             UNCHANGED <<nonces, issued, at>>,
             passed \/ m.as # "right" \/ A!Unreadable(m.cookie)
      PROVE  AuthInv'
  <2>1. A!Judge(m, passed)
    BY <1>3 DEF A!Answered, A!Challenged, A!Failed
  <2>2. nonce' \in Nat /\ count' \in Nat /\ typed' \in [AuthRequest -> Password] /\ jar' \in BOOLEAN
    BY <1>1, <1>3, EndsTyped DEF AuthInv, A!Unknown
  <2>3. QED
    BY <1>1, <1>2, <1>3, <2>1, <2>2, DecideKeeps DEF AuthInv, AuthTyped
<1>4. CASE A!Unreadable(m.cookie)
  BY <1>4, <1>3 DEF A!Take
<1>5. CASE ~A!Unreadable(m.cookie) /\ A!GrantedUser # ""
  BY <1>5, <1>3 DEF A!Take
<1> DEFINE Compares == ~A!Unreadable(m.cookie) /\ A!GrantedUser = ""
<1>6. CASE Compares /\ A!Method = "basic"
  BY <1>6, <1>3 DEF A!Take, A!Basic, A!Digest
<1>7. CASE Compares /\ A!Method = "form"
  BY <1>7, <1>3 DEF A!Take, A!Form, A!Digest
<1>8. CASE Compares /\ A!Digest /\ m.as \in {"none", "nobody"}
  <2>1. A!Build(m, nonces, FALSE) /\ UNCHANGED at
    BY <1>8 DEF A!Take, A!Digest
  <2>2. QED
    BY <2>1, <1>1, <1>2, <1>8, BuildKeeps
<1>9. CASE Compares /\ A!Digest /\ m.as \notin {"none", "nobody"}
  <2> DEFINE a == [step |-> IF m.as = "right" THEN "get" ELSE "refuse", message |-> m]
  <2>1. at' = [at EXCEPT ![t] = a] /\ UNCHANGED <<nonces, issued, jar, nonce, count, typed, requests, judged>>
    BY <1>9 DEF A!Take, A!Digest
  <2>2. m.as \in {"right", "wrong"}
    BY <1>9, <1>1 DEF Message, Password
  <2>3. InCompute(a)
    BY <2>2, <1>9, <1>1 DEF InCompute, Counted
  <2>4. a \in [step : AuthStep, message : Message]
    BY <1>1 DEF AuthStep
  <2>5. QED
    BY <2>1, <2>3, <2>4, <1>2, GoKeeps
<1>10. QED
  BY <1>4, <1>5, <1>6, <1>7, <1>8, <1>9 DEF A!Digest

\* A thread that is not idle is in compute.
LEMMA Computing ==
    ASSUME AuthInv, NEW t \in AuthThread, at[t].step \in AuthStep
    PROVE  /\ InCompute(at[t]) /\ at[t] \in [step : AuthStep, message : Message]
           /\ at[t].message \in Message
<1>1. at[t] # A!Idle
  BY DEF A!Idle, AuthStep
<1>2. QED
  BY <1>1 DEF AuthInv, AuthTyped

LEMMA AuthGetKeeps == ASSUME AuthInv, NEW t \in AuthThread, A!Get(t) PROVE AuthInv'
<1> DEFINE m == at[t].message
           pnc == IF m.nonce \in DOMAIN nonces THEN nonces[m.nonce] ELSE A!Unknown
           s == IF pnc # A!Unused /\ m.count <= pnc THEN "refuse" ELSE "set"
           a == [at[t] EXCEPT !.step = s]
<1>1. InCompute(at[t]) /\ at[t] \in [step : AuthStep, message : Message] /\ m \in Message /\ at[t].step = "get"
  BY Computing DEF A!Get, AuthStep
<1>2. at' = [at EXCEPT ![t] = a]
  BY DEF A!Get, A!Go
<1>3. a \in [step : AuthStep, message : Message] /\ a.message = m /\ a.step = s
  BY <1>1 DEF AuthStep
<1>4. s = "refuse" => A!Overtaken(m)
  <2> SUFFICES ASSUME pnc # A!Unused, m.count <= pnc PROVE A!Overtaken(m)
    OBVIOUS
  <2>1. m.count \in Nat /\ m.count > 0
    BY <1>1 DEF InCompute, Message
  <2>2. m.nonce \in DOMAIN nonces
    BY <2>1 DEF A!Unknown
  <2>3. PICK p \in judged : p.passed /\ p.nonce = m.nonce /\ p.count = pnc
    BY <2>2 DEF AuthInv, CountsPassed
  <2>4. p.count \in Nat /\ p.count >= m.count
    BY <2>3, <2>1 DEF AuthInv, AuthTyped, Judged
  <2>5. QED
    BY <2>3, <2>4 DEF A!Overtaken
<1>5. InCompute(a)
  BY <1>1, <1>3, <1>4 DEF InCompute
<1>6. UNCHANGED <<config, jar, nonces, issued, nonce, count, typed, sends, judged>> /\ wire' \subseteq wire
  BY DEF A!Get, A!BrowserWaits
<1>7. QED
  BY <1>2, <1>3, <1>5, <1>6, GoKeeps

LEMMA AuthSetKeeps == ASSUME AuthInv, NEW t \in AuthThread, A!Set(t) PROVE AuthInv'
<1> DEFINE m == at[t].message
<1>1. m \in Message
  BY Computing DEF A!Set, AuthStep
<1>2. A!Answered(m) /\ UNCHANGED <<config, issued, sends, wire>> /\ at' = [at EXCEPT ![t] = A!Idle]
      /\ nonces' = [n \in DOMAIN nonces \cup {m.nonce} |-> IF n = m.nonce THEN m.count ELSE nonces[n]]
  BY DEF A!Set
<1>3. nonce' \in Nat /\ count' \in Nat /\ typed' \in [AuthRequest -> Password] /\ jar' \in BOOLEAN
  BY <1>1, <1>2, EndsTyped DEF AuthInv
<1>4. \A n \in DOMAIN nonces' : \/ n \in DOMAIN nonces /\ nonces'[n] = nonces[n]
                                \/ n = m.nonce /\ nonces'[n] = m.count
  BY <1>2
<1>5. A!Judge(m, TRUE)
  BY <1>2 DEF A!Answered
<1>6. issued' \in Nat
  BY <1>2 DEF AuthInv, AuthTyped
<1>7. QED
  BY <1>1, <1>2, <1>3, <1>4, <1>5, <1>6, DecideKeeps

LEMMA RefuseKeeps == ASSUME AuthInv, NEW t \in AuthThread, A!Refuse(t) PROVE AuthInv'
<1> DEFINE m == at[t].message
           a == [at[t] EXCEPT !.step = "delete"]
<1>1. InCompute(at[t]) /\ at[t] \in [step : AuthStep, message : Message] /\ m \in Message /\ at[t].step = "refuse"
  BY Computing DEF A!Refuse, AuthStep
<1>2. m.as # "right" \/ A!Overtaken(m)
  BY <1>1 DEF InCompute
<1>3. CASE m.nonce \in DOMAIN nonces
  <2>1. at' = [at EXCEPT ![t] = a] /\ UNCHANGED <<nonces, issued, jar, nonce, count, typed, requests, judged>>
        /\ UNCHANGED <<config, sends, wire>>
    BY <1>3 DEF A!Refuse, A!Go
  <2>2. a \in [step : AuthStep, message : Message] /\ a.message = m /\ a.step = "delete"
    BY <1>1 DEF AuthStep
  <2>3. InCompute(a)
    BY <1>1, <1>2, <2>2 DEF InCompute
  <2>4. QED
    BY <2>1, <2>2, <2>3, GoKeeps
<1>4. CASE m.nonce \notin DOMAIN nonces
  <2>1. A!Build(m, nonces, m.as = "right") /\ at' = [at EXCEPT ![t] = A!Idle] /\ UNCHANGED <<config, sends, wire>>
    BY <1>4 DEF A!Refuse
  <2>2. QED
    BY <2>1, <1>1, <1>2, BuildKeeps
<1>5. QED
  BY <1>3, <1>4

LEMMA DeleteKeeps == ASSUME AuthInv, NEW t \in AuthThread, A!Delete(t) PROVE AuthInv'
<1> DEFINE m == at[t].message
           kept == [n \in DOMAIN nonces \ {m.nonce} |-> nonces[n]]
<1>1. InCompute(at[t]) /\ m \in Message /\ at[t].step = "delete"
  BY Computing DEF A!Delete, AuthStep
<1>2. m.as # "right" \/ A!Overtaken(m)
  BY <1>1 DEF InCompute
<1>3. at' = [at EXCEPT ![t] = A!Idle] /\ UNCHANGED <<config, sends, wire>>
  BY DEF A!Delete
<1>4. CASE m.nonce \in DOMAIN nonces
  <2>1. A!Build(m, kept, m.as = "right")
    BY <1>4 DEF A!Delete
  <2>2. PICK k : k = kept
    OBVIOUS
  <2>3. PICK stale : stale = (m.as = "right")
    OBVIOUS
  <2>4. A!Build(m, k, stale) /\ \A n \in DOMAIN k : n \in DOMAIN nonces /\ k[n] = nonces[n]
    BY <2>1, <2>2, <2>3
  <2>5. config' = config /\ sends' = sends /\ wire' \subseteq wire
    BY <1>3
  <2>6. QED
    BY <2>4, <2>5, <1>1, <1>2, <1>3, BuildKeeps
<1>5. CASE m.nonce \notin DOMAIN nonces
  <2>1. A!Failed(m) /\ UNCHANGED <<nonces, issued>>
    BY <1>5 DEF A!Delete
  <2>2. A!Judge(m, FALSE)
    BY <2>1 DEF A!Failed
  <2>3. nonce' \in Nat /\ count' \in Nat /\ typed' \in [AuthRequest -> Password] /\ jar' \in BOOLEAN
    BY <2>1, <1>1, EndsTyped DEF AuthInv, A!Unknown
  <2>4. QED
    BY <2>1, <2>2, <2>3, <1>1, <1>2, <1>3, DecideKeeps DEF AuthInv, AuthTyped
<1>6. QED
  BY <1>4, <1>5

LEMMA AuthSteps == ASSUME AuthInv, [A!Next]_authVars PROVE AuthInv'
<1>1. CASE UNCHANGED authVars
  BY <1>1 DEF authVars, AuthInv, AuthTyped, CountsPassed, A!RefusedIfOvertaken, A!Overtaken, A!Unreadable, A!CookieFails,
     A!TicketFails, Counted, A!Digest, A!Method, InCompute, A!Idle, A!Unused
<1>2. CASE A!Next
  BY <1>2, AuthSendKeeps, AuthTakeKeeps, AuthGetKeeps, AuthSetKeeps, RefuseKeeps, DeleteKeeps DEF A!Next
<1>3. QED
  BY <1>1, <1>2

-----------------------------------------------------------------------------
(* Url: what a URL shows depends on parameters that no operation on another  *)
(* one changes.                                                              *)

HasClass(u) == "class" \in DOMAIN u
HasTarget(d) == "tag" \in DOMAIN d /\ "target" \in DOMAIN d

UrlInv ==
    /\ IsSeq(urls)
    /\ \A n \in DOMAIN urls :
          /\ HasClass(urls[n]) /\ urls[n].class \in U!Classes
          /\ U!ParamsOf(urls[n].class, n) \in DOMAIN params
          /\ urls[n].class = "JSPopup" => HasTarget(params[U!ParamsOf("JSPopup", n)])
    /\ \A class \in U!Classes : <<class, 0>> \in DOMAIN params
    /\ HasTarget(params[<<"JSPopup", 0>>])

LEMMA UrlInitHolds == ASSUME U!UrlInit PROVE UrlInv
<1>1. IsSeq(urls) /\ DOMAIN urls = {}
  <2>1. urls \in Seq({})
    BY DEF U!UrlInit
  <2>2. QED
    BY <2>1 DEF IsSeq, U!UrlInit
<1>2. \A class \in U!Classes : <<class, 0>> \in DOMAIN params /\ params[<<class, 0>>] = U!DefaultParams(class)
  BY DEF U!UrlInit
<1>3. params[<<"JSPopup", 0>>] = [tag |-> "a", target |-> "_blank"]
  BY <1>2 DEF U!DefaultParams, U!Classes
<1>4. QED
  BY <1>1, <1>2, <1>3 DEF UrlInv, HasTarget

LEMMA UrlMakeKeeps ==
    ASSUME UrlInv, NEW class \in U!Classes, NEW url, HasClass(url), U!Make(class, url) PROVE
    /\ UrlInv'
    /\ \A n \in DOMAIN urls : /\ urls'[n] = urls[n]
                              /\ params'[U!ParamsOf(urls[n].class, n)] = params[U!ParamsOf(urls[n].class, n)]
<1> DEFINE n == Len(urls) + 1
           u == [url EXCEPT !.class = class]
           d == U!Updated(params[<<class, 0>>], url.original)
<1>1. /\ IsSeq(urls') /\ Len(urls) \in Nat /\ DOMAIN urls = 1 .. Len(urls) /\ DOMAIN urls' = 1 .. n
      /\ urls'[n] = u /\ \A m \in 1 .. Len(urls) : urls'[m] = urls[m]
  BY AppendIsSeq DEF UrlInv, U!Make
<1>2. /\ DOMAIN params' = DOMAIN params \cup {<<class, n>>} /\ params'[<<class, n>>] = d
      /\ \A k \in DOMAIN params : k # <<class, n>> => params'[k] = params[k]
  BY DEF U!Make, U!Put, U!ParamsOf
<1>3. HasClass(u) /\ u.class = class
  BY DEF HasClass
<1>4. class = "JSPopup" => HasTarget(d)
  BY DEF UrlInv, HasTarget, U!Updated
<1>5. \A m \in DOMAIN urls, c \in U!Classes : <<c, m>> # <<class, n>> /\ <<c, 0>> # <<class, n>>
  BY <1>1
<1>6. \A m \in DOMAIN urls : /\ urls'[m] = urls[m]
                             /\ params'[U!ParamsOf(urls[m].class, m)] = params[U!ParamsOf(urls[m].class, m)]
  BY <1>1, <1>2, <1>5 DEF UrlInv, U!ParamsOf
<1>7. \A m \in DOMAIN urls' :
          /\ HasClass(urls'[m]) /\ urls'[m].class \in U!Classes
          /\ U!ParamsOf(urls'[m].class, m) \in DOMAIN params'
          /\ urls'[m].class = "JSPopup" => HasTarget(params'[U!ParamsOf("JSPopup", m)])
  <2> TAKE m \in DOMAIN urls'
  <2>1. CASE m = n
    BY <2>1, <1>1, <1>2, <1>3, <1>4 DEF U!ParamsOf
  <2>2. CASE m # n
    <3>1. m \in DOMAIN urls
      BY <2>2, <1>1
    <3>2. QED
      BY <3>1, <1>2, <1>6 DEF UrlInv
  <2>3. QED
    BY <2>1, <2>2
<1>8. \A c \in U!Classes : <<c, 0>> \in DOMAIN params' /\ params'[<<c, 0>>] = params[<<c, 0>>]
  <2>1. ASSUME NEW c \in U!Classes PROVE <<c, 0>> # <<class, n>>
    BY <1>1
  <2>2. QED
    BY <1>2, <2>1 DEF UrlInv
<1>9. QED
  BY <1>1, <1>6, <1>7, <1>8 DEF UrlInv, U!Classes

LEMMA Restripped == ASSUME NEW p PROVE
    /\ \A k \in {"tag", "target", "confirm", "content", "stripped"} :
          /\ k \in DOMAIN U!Stripped(p) <=> k \in DOMAIN p
          /\ k \in DOMAIN p => U!Stripped(p)[k] = p[k]
          /\ U!Get(U!Stripped(p), k) = U!Get(p, k)
    /\ U!Features(U!Stripped(U!Stripped(p))) = U!Features(U!Stripped(p))
<1>1. \A k \in {"tag", "target", "confirm", "content", "stripped"} :
          /\ k \in DOMAIN U!Stripped(p) <=> k \in DOMAIN p
          /\ k \in DOMAIN p => U!Stripped(p)[k] = p[k]
          /\ U!Get(U!Stripped(p), k) = U!Get(p, k)
  BY DEF U!Stripped, U!Updated, U!Get
<1>2. CASE U!Get(p, "stripped") = None
  BY <1>1, <1>2 DEF U!Stripped
<1>3. CASE U!Get(p, "stripped") # None
  <2>1. U!Get(U!Stripped(p), "stripped") # None
    BY <1>1, <1>3
  <2>2. /\ {"location", "status"} \subseteq DOMAIN U!Stripped(p)
        /\ U!Stripped(p)["location"] = "0" /\ U!Stripped(p)["status"] = "0"
    BY <1>3 DEF U!Stripped, U!Updated
  <2>3. /\ {"location", "status"} \subseteq DOMAIN U!Stripped(U!Stripped(p))
        /\ U!Stripped(U!Stripped(p))["location"] = "0" /\ U!Stripped(U!Stripped(p))["status"] = "0"
    BY <2>1 DEF U!Stripped, U!Updated
  <2>4. /\ {"location", "status"} \cap DOMAIN U!Stripped(p) = {"location", "status"}
        /\ {"location", "status"} \cap DOMAIN U!Stripped(U!Stripped(p)) = {"location", "status"}
    BY <2>2, <2>3
  <2>5. /\ U!Features(U!Stripped(p)) = [f \in {"location", "status"} |-> U!Stripped(p)[f]]
        /\ U!Features(U!Stripped(U!Stripped(p))) = [f \in {"location", "status"} |-> U!Stripped(U!Stripped(p))[f]]
    BY <2>4 DEF U!Features
  <2>6. \A f \in {"location", "status"} : U!Stripped(p)[f] = U!Stripped(U!Stripped(p))[f]
    BY <2>2, <2>3
  <2> DEFINE T == {"location", "status"}
             g == U!Stripped(p)
             h == U!Stripped(U!Stripped(p))
  <2>7. \A f \in T : g[f] = h[f]
    BY <2>6
  <2>8. U!Features(g) = [f \in T |-> g[f]] /\ U!Features(h) = [f \in T |-> h[f]]
    BY <2>5
  <2> HIDE DEF T, g, h
  <2>9. [f \in T |-> g[f]] = [f \in T |-> h[f]]
    BY <2>7
  <2>10. U!Features(g) = U!Features(h)
    BY <2>8, <2>9
  <2>11. QED
    BY <1>1, <2>10 DEF g, h
<1>4. QED
  BY <1>1, <1>2, <1>3

LEMMA SameShown ==
    ASSUME NEW n, urls'[n] = urls[n], params'[U!ParamsOf(urls[n].class, n)] = params[U!ParamsOf(urls[n].class, n)]
    PROVE U!Shown(n)' = U!Shown(n)
<1>1. U!Params(n)' = U!Params(n)
  BY DEF U!Params, U!ParamsOf
<1>2. U!ContentFails(n)' = U!ContentFails(n)
  BY <1>1 DEF U!ContentFails
<1>3. U!Href(n)' = U!Href(n)
  BY DEF U!Href
<1>4. U!Content(n)' = U!Content(n)
  BY <1>1 DEF U!Content
<1>5. U!HtmlOf(n, U!Params(n))' = U!HtmlOf(n, U!Params(n))
  BY <1>1, <1>3, <1>4 DEF U!HtmlOf
<1>6. QED
  BY <1>2, <1>5 DEF U!Shown

LEMMA RenderKeeps == ASSUME UrlInv, NEW n, U!Render(n) PROVE
    UrlInv' /\ \A m \in DOMAIN urls : U!Shown(m)' = U!Shown(m)
<1>1. CASE params' = params /\ urls' = urls
  <2>1. UrlInv'
    BY <1>1 DEF UrlInv
  <2>2. \A m \in DOMAIN urls : U!Shown(m)' = U!Shown(m)
    BY <1>1, SameShown
  <2>3. QED
    BY <2>1, <2>2
<1>2. CASE /\ urls' = urls /\ n \in DOMAIN urls /\ urls[n].class = "JSPopup" /\ ~U!ContentFails(n)
           /\ params' = [params EXCEPT ![U!ParamsOf("JSPopup", n)] = U!Stripped(@)]
  <2> DEFINE k == U!ParamsOf("JSPopup", n)
             p == params[k]
  <2>1. k \in DOMAIN params /\ HasTarget(p) /\ n \in Nat \ {0}
    <3>1. k \in DOMAIN params /\ HasTarget(p)
      BY <1>2 DEF UrlInv
    <3>2. PICK S : urls \in Seq(S)
      BY DEF UrlInv, IsSeq
    <3>3. QED
      BY <1>2, <3>1, <3>2
  <2>2. DOMAIN params' = DOMAIN params /\ params'[k] = U!Stripped(p)
        /\ \A j \in DOMAIN params : j # k => params'[j] = params[j]
    BY <1>2, <2>1
  <2>3. HasTarget(U!Stripped(p))
    BY <2>1, Restripped DEF HasTarget
  <2>4. UrlInv'
    <3>1. \A class \in U!Classes : <<class, 0>> # k
      BY <2>1 DEF U!ParamsOf
    <3>2. \A class \in U!Classes : <<class, 0>> \in DOMAIN params'
      BY <2>2 DEF UrlInv
    <3>3. params'[<<"JSPopup", 0>>] = params[<<"JSPopup", 0>>]
      BY <2>2, <3>1 DEF UrlInv, U!Classes
    <3>4. \A m \in DOMAIN urls : urls[m].class = "JSPopup" => HasTarget(params'[U!ParamsOf("JSPopup", m)])
      BY <2>2, <2>3 DEF UrlInv
    <3>5. QED
      BY <1>2, <2>2, <3>2, <3>3, <3>4 DEF UrlInv
  <2>5. ASSUME NEW m \in DOMAIN urls, m # n PROVE U!Shown(m)' = U!Shown(m)
    <3>1. U!ParamsOf(urls[m].class, m) # k /\ U!ParamsOf(urls[m].class, m) \in DOMAIN params
      BY <2>5 DEF UrlInv, U!ParamsOf
    <3>2. params'[U!ParamsOf(urls[m].class, m)] = params[U!ParamsOf(urls[m].class, m)]
      BY <2>2, <3>1
    <3>3. urls'[m] = urls[m]
      BY <1>2
    <3>4. QED
      BY <3>2, <3>3, SameShown
  <2>6. U!Shown(n)' = U!Shown(n)
    <3>1. U!Params(n) = p /\ U!Params(n)' = U!Stripped(p)
      BY <1>2, <2>2 DEF U!Params
    <3>2. U!ContentFails(n)' = U!ContentFails(n)
      BY <1>2, <3>1, Restripped DEF U!ContentFails
    <3>3. U!Content(n)' = U!Content(n)
      <4>1. U!Get(U!Stripped(p), "content") = U!Get(p, "content")
        BY Restripped
      <4>2. U!Get(p, "content") # None => U!Stripped(p).content = p.content
        BY Restripped DEF U!Get
      <4>3. QED
        BY <1>2, <3>1, <4>1, <4>2 DEF U!Content
    <3>4. U!Href(n)' = U!Href(n)
      BY <1>2 DEF U!Href
    <3>5. /\ U!Stripped(p).tag = p.tag /\ U!Stripped(p).target = p.target
          /\ U!Get(U!Stripped(p), "confirm") = U!Get(p, "confirm")
          /\ U!Features(U!Stripped(U!Stripped(p))) = U!Features(U!Stripped(p))
      BY <2>1, Restripped DEF HasTarget
    <3>6. U!HtmlOf(n, U!Params(n))' = U!HtmlOf(n, U!Params(n))
      BY <1>2, <3>1, <3>3, <3>4, <3>5 DEF U!HtmlOf
    <3>7. QED
      BY <3>2, <3>6 DEF U!Shown
  <2>7. QED
    BY <2>4, <2>5, <2>6
<1>3. QED
  BY <1>1, <1>2 DEF U!Render, U!Fails, U!Exists

LEMMA DeriveUrls == ASSUME NEW u, HasClass(u), NEW segments, NEW xs, NEW name, NEW value PROVE
    /\ HasClass(U!AddPath(u, segments))
    /\ HasClass(U!SetVars(u, xs)) /\ HasClass(U!SetVar(u, name, value)) /\ HasClass(U!Var(u, xs))
    /\ HasClass(U!Attr(u, name, value)) /\ HasClass(U!Param(u, name, value))
    /\ HasClass(U!AddVar(u, name, value))
  BY DEF HasClass, U!AddPath, U!SetVars, U!SetVar, U!Var, U!Attr, U!Param, U!AddVar

LEMMA MakeShown == ASSUME UrlInv, NEW class \in U!Classes, NEW url, HasClass(url), U!Make(class, url)
    PROVE UrlInv' /\ \A n \in DOMAIN urls : U!Shown(n)' = U!Shown(n)
<1>1. UrlInv'
  BY UrlMakeKeeps
<1>2. ASSUME NEW n \in DOMAIN urls PROVE U!Shown(n)' = U!Shown(n)
  BY UrlMakeKeeps, SameShown
<1>3. QED
  BY <1>1, <1>2

LEMMA DeriveKeeps == ASSUME UrlInv, NEW n, NEW url, HasClass(url), U!Derive(n, url)
    PROVE UrlInv' /\ \A m \in DOMAIN urls : U!Shown(m)' = U!Shown(m)
<1>1. urls[n].class \in U!Classes
  BY DEF U!Derive, U!Exists, UrlInv
<1>2. QED
  BY <1>1, MakeShown DEF U!Derive

LEMMA FailsKeeps == ASSUME UrlInv, NEW what, U!Fails(what)
    PROVE UrlInv' /\ \A m \in DOMAIN urls : U!Shown(m)' = U!Shown(m)
<1>1. urls' = urls /\ params' = params
  BY DEF U!Fails
<1>2. QED
  BY <1>1, SameShown DEF UrlInv

LEMMA UrlStep == ASSUME UrlInv, [U!UrlNext]_urlVars
    PROVE UrlInv' /\ \A m \in DOMAIN urls : U!Shown(m)' = U!Shown(m)
<1> DEFINE Goal == UrlInv' /\ \A m \in DOMAIN urls : U!Shown(m)' = U!Shown(m)
<1>1. CASE UNCHANGED urlVars
  <2>1. urls' = urls /\ params' = params
    BY <1>1 DEF urlVars
  <2>2. QED
    BY <2>1, SameShown DEF UrlInv
<1>2. ASSUME NEW class \in U!Classes, NEW path, NEW vars1, U!FromEnviron(class, path, vars1) PROVE Goal
  <2>1. HasClass(U!Url(path, vars1, <<>>, <<>>))
    BY DEF HasClass, U!Url
  <2>2. QED
    BY <1>2, <2>1, MakeShown DEF U!FromEnviron
<1>3. ASSUME NEW n, U!Exists(n) PROVE HasClass(urls[n])
  BY <1>3 DEF U!Exists, UrlInv
<1>4. ASSUME NEW n, NEW segments, U!DeriveAddPath(n, segments) PROVE Goal
  BY <1>3, <1>4, DeriveUrls, DeriveKeeps DEF U!DeriveAddPath
<1>5. ASSUME NEW n, NEW name, NEW value, U!DeriveSetVars(n, name, value) PROVE Goal
  BY <1>3, <1>5, DeriveUrls, DeriveKeeps DEF U!DeriveSetVars
<1>6. ASSUME NEW n, NEW name, NEW value, U!DeriveSetVar(n, name, value) PROVE Goal
  BY <1>3, <1>6, DeriveUrls, DeriveKeeps DEF U!DeriveSetVar
<1>7. ASSUME NEW n, NEW name, NEW value, U!DeriveVar(n, name, value) PROVE Goal
  BY <1>3, <1>7, DeriveUrls, DeriveKeeps, FailsKeeps DEF U!DeriveVar
<1>8. ASSUME NEW n, NEW name, NEW value, U!DeriveAttr(n, name, value) PROVE Goal
  BY <1>3, <1>8, DeriveUrls, DeriveKeeps DEF U!DeriveAttr
<1>9. ASSUME NEW n, NEW name, NEW value, U!DeriveParam(n, name, value) PROVE Goal
  BY <1>3, <1>9, DeriveUrls, DeriveKeeps DEF U!DeriveParam
<1>10. ASSUME NEW n, NEW segments, NEW name, NEW value, U!Call(n, segments, name, value) PROVE Goal
  <2>1. HasClass(IF segments = <<>> THEN urls[n] ELSE U!AddPath(urls[n], segments))
    BY <1>3, <1>10, DeriveUrls DEF U!Call
  <2>2. QED
    BY <1>10, <2>1, DeriveUrls, DeriveKeeps, FailsKeeps DEF U!Call
<1>11. ASSUME NEW n, NEW class \in {"Button", "JSPopup"}, U!Become(n, class) PROVE Goal
  BY <1>3, <1>11, MakeShown DEF U!Become, U!Classes
<1>12. ASSUME NEW n, U!Render(n) PROVE Goal
  BY <1>12, RenderKeeps
<1>13. QED
  BY <1>1, <1>2, <1>4, <1>5, <1>6, <1>7, <1>8, <1>9, <1>10, <1>11, <1>12 DEF U!UrlNext

-----------------------------------------------------------------------------
(* Debugger: an evaluation has the lock, and what it has printed is the part  *)
(* of its output that no request of the application printed.                  *)

Prints(t, n) == [k \in 1..n |-> t]
ProgramOf(t) == Program[doing[t].request.input]

\* What a thread has printed, by what it does.
ThreadInv(t) ==
    /\ {"step", "request", "save_stdout", "left"} \subseteq DOMAIN doing[t]
    /\ IsSeq(out[t])
    /\ doing[t].step \in {"acquire", "exec"} =>
          doing[t].request.method = "exec_input" /\ ProgramOf(t).prints \in Nat
    /\ doing[t].step = "acquire" => B!Own(out[t]) = <<>>
    /\ doing[t].step = "exec" =>
          /\ exec_lock = t /\ doing[t].save_stdout = "console"
          /\ doing[t].left \in Nat /\ doing[t].left <= ProgramOf(t).prints
          /\ B!Own(out[t]) = Prints(t, ProgramOf(t).prints - doing[t].left)
    /\ doing[t].step \in {"end", "answer"} /\ doing[t].request.method = "exec_input" =>
          B!Own(out[t]) = Prints(t, ProgramOf(t).prints) \o B!Traceback(ProgramOf(t))

DebuggerInv ==
    /\ DOMAIN out = DebugThread /\ DOMAIN doing = DebugThread
    /\ exec_lock = None => stdout = "console"
    /\ exec_lock # None => exec_lock \in DebugThread /\ doing[exec_lock].step = "exec" /\ stdout = exec_lock
    /\ \A t \in DebugThread : ThreadInv(t)

LEMMA DebuggerInvGives == ASSUME DebuggerInv PROVE B!OutputIsWhole
  BY DEF DebuggerInv, ThreadInv, B!OutputIsWhole, ProgramOf, Prints

LEMMA OwnGrows == ASSUME NEW s, IsSeq(s), NEW x
    PROVE B!Own(Append(s, x)) = IF x = "application" THEN B!Own(s) ELSE Append(B!Own(s), x)
<1>1. PICK v, m : v = Append(s, x) /\ m = Len(s) + 1
  OBVIOUS
<1>2. Len(s) \in Nat /\ DOMAIN s = 1 .. Len(s) /\ DOMAIN v = 1 .. m /\ v[m] = x /\ \A i \in 1 .. Len(s) : v[i] = s[i]
  BY <1>1, AppendIsSeq
<1>3. PICK P, Q : P = {i \in DOMAIN s : s[i] # "application"} /\ Q = {i \in DOMAIN v : v[i] # "application"}
  OBVIOUS
<1>4. \A i : i \in 1 .. m <=> i \in 1 .. Len(s) \/ i = m
  BY <1>1, <1>2
<1>5. \A i : i \in Q <=> (i \in P \/ (i = m /\ x # "application"))
  BY <1>2, <1>3, <1>4
<1>6. P \in SUBSET DOMAIN s
  BY <1>3
<1>7. CASE x = "application"
  <2>1. Q = P
    BY <1>5, <1>7
  <2>2. ElementsAt(v, P) = ElementsAt(s, P)
    BY <1>1, <1>6, ElementsOld
  <2>3. QED
    BY <1>1, <1>3, <1>7, <2>1, <2>2, SameElements DEF B!Own
<1>8. CASE x # "application"
  <2>1. Q = P \cup {m}
    BY <1>5, <1>8
  <2>2. ElementsAt(v, Q) = Append(ElementsAt(s, P), x)
    BY <1>1, <1>6, <2>1, ElementsNew, ZenonT(60) DEF OneMore
  <2>3. QED
    BY <1>1, <1>3, <1>8, <2>2, SameElements DEF B!Own
<1>9. QED
  BY <1>7, <1>8

LEMMA PrintsMore == ASSUME NEW t, NEW n \in Nat PROVE Append(Prints(t, n), t) = Prints(t, n + 1)
<1>1. Prints(t, n) \in Seq({t}) /\ Len(Prints(t, n)) = n
  BY DEF Prints
<1>2. QED
  BY <1>1 DEF Prints

LEMMA OwnNone == B!Own(<<>>) = <<>> /\ IsSeq(<<>>)
<1>1. {n \in DOMAIN <<>> : <<>>[n] # "application"} = {}
  OBVIOUS
<1>2. <<>> \in Seq({})
  OBVIOUS
<1>3. QED
  BY <1>1, <1>2, ElementsNone, SameElements DEF B!Own, IsSeq

LEMMA DebuggerInitHolds == ASSUME B!DebuggerInit, DebuggerAssumed PROVE DebuggerInv
  BY OwnNone DEF B!DebuggerInit, DebuggerInv, ThreadInv, B!Rest

\* A thread that does what it did, with the same prints of its own.
LEMMA SameThread ==
    ASSUME NEW t, ThreadInv(t), doing'[t] = doing[t], IsSeq(out'[t]), B!Own(out'[t]) = B!Own(out[t]),
           doing[t].step = "exec" => exec_lock' = exec_lock
    PROVE  ThreadInv(t)'
  BY DEF ThreadInv, ProgramOf

LEMMA PrintedKeeps ==
    ASSUME DebuggerInv, DebuggerAssumed, NEW who, B!Printed(who)
    PROVE  /\ DOMAIN out' = DebugThread /\ \A t \in DebugThread : IsSeq(out'[t])
           /\ \A t \in DebugThread :
                 \/ out'[t] = out[t] /\ stdout # t
                 \/ exec_lock = t /\ stdout = t /\ out'[t] = Append(out[t], who)
<1>1. \A t \in DebugThread : IsSeq(out[t]) /\ IsSeq(Append(out[t], who))
  BY AppendIsSeq DEF DebuggerInv, ThreadInv
<1>2. CASE stdout = "console"
  BY <1>1, <1>2 DEF B!Printed, DebuggerInv, DebuggerAssumed
<1>3. CASE stdout # "console"
  <2>1. stdout \in DebugThread /\ stdout = exec_lock /\ out' = [out EXCEPT ![stdout] = Append(@, who)]
    BY <1>3 DEF B!Printed, DebuggerInv
  <2>2. QED
    BY <1>1, <2>1 DEF DebuggerInv
<1>4. QED
  BY <1>2, <1>3

LEMMA WritesKeeps == ASSUME DebuggerInv, DebuggerAssumed, NEW t \in DebugThread, B!Writes(t)
    PROVE DebuggerInv'
<1>1. UNCHANGED <<stdout, exec_lock, doing>> /\ B!Printed("application")
  BY DEF B!Writes
<1>2. ASSUME NEW u \in DebugThread PROVE ThreadInv(u)'
  <2>1. IsSeq(out'[u]) /\ (out'[u] = out[u] \/ out'[u] = Append(out[u], "application"))
    BY <1>1, PrintedKeeps
  <2>2. ThreadInv(u)
    BY DEF DebuggerInv
  <2>3. B!Own(out'[u]) = B!Own(out[u])
    BY <2>1, <2>2, OwnGrows DEF ThreadInv
  <2>4. QED
    BY <1>1, <2>1, <2>2, <2>3, SameThread
<1>3. DOMAIN out' = DebugThread
  BY <1>1, PrintedKeeps
<1>4. QED
  BY <1>1, <1>2, <1>3 DEF DebuggerInv

\* A step in which nobody prints: the other threads stay as they are.
LEMMA StepKeeps ==
    ASSUME DebuggerInv, NEW t \in DebugThread, DOMAIN doing' = DebugThread, DOMAIN out' = DebugThread,
           \A u \in DebugThread : u # t => doing'[u] = doing[u] /\ out'[u] = out[u],
           exec_lock' = exec_lock, stdout' = stdout, ThreadInv(t)', exec_lock = t => doing'[t].step = "exec"
    PROVE  DebuggerInv'
<1>1. ASSUME NEW u \in DebugThread, u # t PROVE ThreadInv(u)'
  <2>1. ThreadInv(u) /\ IsSeq(out[u])
    BY DEF DebuggerInv, ThreadInv
  <2>2. QED
    BY <1>1, <2>1, SameThread
<1>2. QED
  BY <1>1 DEF DebuggerInv

LEMMA RespondKeeps == ASSUME DebuggerInv, None \notin DebugThread, NEW t \in DebugThread, B!Respond(t)
    PROVE DebuggerInv'
<1>1. /\ DOMAIN doing' = DebugThread /\ doing'[t] = [doing[t] EXCEPT !.step = "application"] /\ doing[t].step = "idle"
      /\ \A u \in DebugThread : u # t => doing'[u] = doing[u]
      /\ UNCHANGED <<stdout, exec_lock, out>> /\ DOMAIN out = DebugThread
  BY DEF B!Respond, B!Goes, DebuggerInv
<1>2. ThreadInv(t)'
  BY <1>1 DEF DebuggerInv, ThreadInv
<1>3. exec_lock # t
  BY <1>1 DEF DebuggerInv
<1>4. QED
  BY <1>1, <1>2, <1>3, StepKeeps DEF DebuggerInv

LEMMA EndsKeeps ==
    ASSUME DebuggerInv, NEW t \in DebugThread, B!Ends(t), UNCHANGED <<stdout, exec_lock, out>>,
           doing[t].step # "exec", t # None
    PROVE  DebuggerInv'
<1>1. /\ DOMAIN doing' = DebugThread /\ doing'[t] = B!Rest
      /\ \A u \in DebugThread : u # t => doing'[u] = doing[u] /\ out'[u] = out[u]
  BY DEF B!Ends, DebuggerInv
<1>2. ThreadInv(t)'
  BY <1>1 DEF DebuggerInv, ThreadInv, B!Rest
<1>3. exec_lock # t
  BY DEF DebuggerInv
<1>4. QED
  BY <1>1, <1>2, <1>3, StepKeeps DEF DebuggerInv

LEMMA RespondedKeeps == ASSUME DebuggerInv, None \notin DebugThread, NEW t \in DebugThread, B!Responded(t)
    PROVE DebuggerInv'
  BY EndsKeeps DEF B!Responded

LEMMA DebuggerAnswerKeeps == ASSUME DebuggerInv, None \notin DebugThread, NEW t \in DebugThread, B!Answer(t)
    PROVE DebuggerInv'
  BY EndsKeeps DEF B!Answer

LEMMA EndKeeps == ASSUME DebuggerInv, None \notin DebugThread, NEW t \in DebugThread, B!End(t)
    PROVE DebuggerInv'
<1>1. /\ DOMAIN doing' = DebugThread /\ doing'[t] = [doing[t] EXCEPT !.step = "answer"] /\ doing[t].step = "end"
      /\ \A u \in DebugThread : u # t => doing'[u] = doing[u]
      /\ UNCHANGED <<stdout, exec_lock, out>> /\ DOMAIN out = DebugThread
  BY DEF B!End, B!Goes, DebuggerInv
<1>2. ThreadInv(t)
  BY DEF DebuggerInv
<1>3. doing'[t].step = "answer" /\ doing'[t].request = doing[t].request
  BY <1>1, <1>2 DEF ThreadInv
<1>4. ThreadInv(t)'
  BY <1>1, <1>2, <1>3 DEF ThreadInv, ProgramOf
<1>5. exec_lock # t
  BY <1>1 DEF DebuggerInv
<1>6. QED
  BY <1>1, <1>4, <1>5, StepKeeps DEF DebuggerInv

LEMMA DebugKeeps ==
    ASSUME DebuggerInv, DebuggerAssumed, NEW t \in DebugThread, NEW r \in DebugAsked, B!Debug(t, r)
    PROVE  DebuggerInv'
<1>1. CASE B!AnsweredAtOnce(r)
  BY <1>1, SMTT(30) DEF B!Debug, DebuggerInv, ThreadInv, ProgramOf
<1>2. CASE ~B!AnsweredAtOnce(r)
  <2>1. /\ doing[t].step = "idle" /\ UNCHANGED <<stdout, exec_lock>>
        /\ DOMAIN doing' = DebugThread /\ DOMAIN out' = DebugThread /\ out'[t] = <<>>
        /\ doing'[t] = [B!Rest EXCEPT !.request = r, !.step = IF r.method = "show_frame" THEN "end" ELSE "acquire"]
        /\ \A u \in DebugThread : u # t => doing'[u] = doing[u] /\ out'[u] = out[u]
    BY <1>2 DEF B!Debug, DebuggerInv
  <2>2. /\ DOMAIN doing'[t] = {"step", "request", "save_stdout", "left"} /\ doing'[t].request = r
        /\ doing'[t].step = IF r.method = "show_frame" THEN "end" ELSE "acquire"
    BY <2>1 DEF B!Rest
  <2>3. r.method # "show_frame" => r.method = "exec_input" /\ Program[r.input].prints \in Nat
    BY <1>2 DEF B!AnsweredAtOnce, DebuggerAssumed
  <2>4. ThreadInv(t)'
    BY <2>1, <2>2, <2>3, OwnNone DEF ThreadInv, ProgramOf
  <2>5. exec_lock # t
    BY <2>1 DEF DebuggerInv, DebuggerAssumed
  <2>6. QED
    BY <2>1, <2>4, <2>5, StepKeeps
<1>3. QED
  BY <1>1, <1>2

\* What holds of a thread that is not the one with the lock, whatever happens to the lock.
LEMMA OtherThread ==
    ASSUME DebuggerInv, NEW u \in DebugThread, u # exec_lock, doing'[u] = doing[u], out'[u] = out[u]
    PROVE  ThreadInv(u)'
<1>1. ThreadInv(u) /\ doing[u].step # "exec"
  BY DEF DebuggerInv, ThreadInv
<1>2. IsSeq(out[u])
  BY <1>1 DEF ThreadInv
<1>3. QED
  BY <1>1, <1>2, SameThread

LEMMA AcquireKeeps ==
    ASSUME DebuggerInv, DebuggerAssumed, NEW t \in DebugThread, B!Acquire(t) PROVE DebuggerInv'
<1>1. /\ doing[t].step = "acquire" /\ exec_lock = None /\ exec_lock' = t /\ stdout' = t /\ out' = out
      /\ DOMAIN doing' = DebugThread /\ DOMAIN out = DebugThread /\ stdout = "console"
      /\ doing'[t] = [doing[t] EXCEPT !.step = "exec", !.save_stdout = stdout, !.left = ProgramOf(t).prints]
      /\ \A u \in DebugThread : u # t => doing'[u] = doing[u]
  BY DEF B!Acquire, DebuggerInv, ProgramOf
<1>2. ThreadInv(t) /\ None \notin DebugThread
  BY DEF DebuggerInv, DebuggerAssumed
<1>3. /\ doing'[t].step = "exec" /\ doing'[t].save_stdout = "console" /\ doing'[t].left = ProgramOf(t).prints
      /\ doing'[t].request = doing[t].request /\ DOMAIN doing'[t] = DOMAIN doing[t]
  BY <1>1, <1>2 DEF ThreadInv
<1>4. ThreadInv(t)'
  <2>1. ProgramOf(t)' = ProgramOf(t) /\ ProgramOf(t).prints \in Nat
    BY <1>1, <1>2, <1>3 DEF ThreadInv, ProgramOf
  <2>2. Prints(t, ProgramOf(t).prints - doing'[t].left) = <<>>
    BY <1>3, <2>1 DEF Prints
  <2>3. QED
    BY <1>1, <1>2, <1>3, <2>1, <2>2 DEF ThreadInv
<1>5. ASSUME NEW u \in DebugThread, u # t PROVE ThreadInv(u)'
  BY <1>1, <1>2, <1>5, OtherThread
<1>6. QED
  BY <1>1, <1>3, <1>4, <1>5, <1>2 DEF DebuggerInv

LEMMA ExecKeeps ==
    ASSUME DebuggerInv, DebuggerAssumed, NEW t \in DebugThread, B!Exec(t) PROVE DebuggerInv'
<1>1. /\ doing[t].step = "exec" /\ doing[t].left > 0 /\ B!Printed(t) /\ UNCHANGED <<stdout, exec_lock>>
      /\ DOMAIN doing' = DebugThread /\ doing'[t] = [doing[t] EXCEPT !.left = @ - 1]
      /\ \A u \in DebugThread : u # t => doing'[u] = doing[u]
  BY DEF B!Exec, DebuggerInv
<1>2. ThreadInv(t) /\ {None, "console", "application", "traceback"} \cap DebugThread = {}
  BY DEF DebuggerInv, DebuggerAssumed
<1>3. exec_lock = t /\ stdout = t /\ IsSeq(out[t])
  BY <1>1, <1>2 DEF DebuggerInv, ThreadInv
<1>4. /\ doing'[t].step = "exec" /\ doing'[t].left = doing[t].left - 1 /\ doing'[t].save_stdout = doing[t].save_stdout
      /\ doing'[t].request = doing[t].request /\ DOMAIN doing'[t] = DOMAIN doing[t]
  BY <1>1, <1>2 DEF ThreadInv
<1>5. /\ DOMAIN out' = DebugThread /\ \A u \in DebugThread : IsSeq(out'[u]) /\ (u # t => out'[u] = out[u])
      /\ out'[t] = Append(out[t], t)
  BY <1>1, <1>3, PrintedKeeps
<1>6. B!Own(out'[t]) = Append(B!Own(out[t]), t)
  BY <1>2, <1>3, <1>5, OwnGrows
<1>7. ThreadInv(t)'
  <2>1. PICK n : n = ProgramOf(t).prints - doing[t].left
    OBVIOUS
  <2>2. /\ ProgramOf(t)' = ProgramOf(t) /\ ProgramOf(t).prints \in Nat /\ doing[t].left \in Nat
        /\ doing[t].left <= ProgramOf(t).prints /\ B!Own(out[t]) = Prints(t, n)
    BY <1>1, <1>2, <1>4, <2>1 DEF ThreadInv, ProgramOf
  <2>3. n \in Nat /\ ProgramOf(t).prints - doing'[t].left = n + 1
    BY <1>1, <1>4, <2>1, <2>2
  <2>4. B!Own(out'[t]) = Prints(t, n + 1)
    BY <1>6, <2>2, <2>3, PrintsMore
  <2>5. doing'[t].left \in Nat /\ doing'[t].left <= ProgramOf(t).prints
    BY <1>1, <1>4, <2>2
  <2>6. QED
    BY <1>1, <1>2, <1>3, <1>4, <1>5, <2>2, <2>3, <2>4, <2>5 DEF ThreadInv
<1>8. ASSUME NEW u \in DebugThread, u # t PROVE ThreadInv(u)'
  BY <1>1, <1>3, <1>5, <1>8, OtherThread
<1>9. QED
  BY <1>1, <1>3, <1>4, <1>5, <1>7, <1>8 DEF DebuggerInv

LEMMA ReleaseKeeps ==
    ASSUME DebuggerInv, DebuggerAssumed, NEW t \in DebugThread, B!Release(t) PROVE DebuggerInv'
<1> DEFINE ends == ProgramOf(t).ends
<1>1. /\ doing[t].step = "exec" /\ doing[t].left = 0
      /\ out' = IF ends = "exception" THEN [out EXCEPT ![t] = Append(@, "traceback")] ELSE out
      /\ stdout' = doing[t].save_stdout /\ exec_lock' = None
      /\ IF ends = "exit" THEN B!Ends(t) ELSE B!Goes(t, "end")
  BY DEF B!Release, ProgramOf
<1>2. ThreadInv(t) /\ DOMAIN out = DebugThread /\ DOMAIN doing = DebugThread /\ "traceback" # "application"
  BY DEF DebuggerInv
<1>3. exec_lock = t /\ IsSeq(out[t]) /\ stdout' = "console"
  BY <1>1, <1>2 DEF ThreadInv
<1>4. /\ DOMAIN doing' = DebugThread /\ DOMAIN out' = DebugThread
      /\ \A u \in DebugThread : u # t => doing'[u] = doing[u] /\ out'[u] = out[u]
  BY <1>1, <1>2 DEF B!Ends, B!Goes
<1>5. out'[t] = IF ends = "exception" THEN Append(out[t], "traceback") ELSE out[t]
  BY <1>1, <1>2
<1>6. IsSeq(out'[t])
  BY <1>3, <1>5, AppendIsSeq
<1>7. B!Own(out[t]) = Prints(t, ProgramOf(t).prints) /\ ProgramOf(t).prints \in Nat
  <2>1. ProgramOf(t).prints - 0 = ProgramOf(t).prints /\ ProgramOf(t).prints \in Nat
    BY <1>1, <1>2 DEF ThreadInv
  <2>2. QED
    BY <1>1, <1>2, <2>1 DEF ThreadInv
<1>8. B!Own(out'[t]) = Prints(t, ProgramOf(t).prints) \o B!Traceback(ProgramOf(t))
  <2>1. PICK own : own = Prints(t, ProgramOf(t).prints)
    OBVIOUS
  <2>2. own \in Seq({t})
    BY <1>7, <2>1 DEF Prints
  <2>3. own \o <<>> = own
    BY <2>2
  <2>4. own \o <<"traceback">> = Append(own, "traceback")
    BY <2>2
  <2>5. B!Own(out'[t]) = IF ends = "exception" THEN Append(own, "traceback") ELSE own
    BY <1>3, <1>5, <1>7, <2>1, OwnGrows
  <2>6. QED
    BY <2>1, <2>3, <2>4, <2>5 DEF B!Traceback
<1>9. ThreadInv(t)'
  <2>1. CASE ends = "exit"
    <3>1. doing'[t] = B!Rest
      BY <1>1, <1>2, <2>1 DEF B!Ends
    <3>2. QED
      BY <1>6, <3>1 DEF ThreadInv, B!Rest
  <2>2. CASE ends # "exit"
    <3>1. doing'[t] = [doing[t] EXCEPT !.step = "end"]
      BY <1>1, <1>2, <2>2 DEF B!Goes
    <3>2. doing'[t].step = "end" /\ doing'[t].request = doing[t].request /\ DOMAIN doing'[t] = DOMAIN doing[t]
      BY <1>2, <3>1 DEF ThreadInv
    <3>3. ProgramOf(t)' = ProgramOf(t)
      BY <3>2 DEF ProgramOf
    <3>4. QED
      BY <1>2, <1>6, <1>8, <3>2, <3>3 DEF ThreadInv
  <2>3. QED
    BY <2>1, <2>2
<1>10. ASSUME NEW u \in DebugThread, u # t PROVE ThreadInv(u)'
  BY <1>3, <1>4, <1>10, OtherThread
<1>11. QED
  BY <1>1, <1>3, <1>4, <1>9, <1>10 DEF DebuggerInv

LEMMA DebuggerStep == ASSUME DebuggerInv, DebuggerAssumed, [B!DebuggerNext]_debuggerVars
    PROVE DebuggerInv'
<1>1. CASE B!DebuggerNext
  <2>1. None \notin DebugThread
    BY DEF DebuggerAssumed
  <2>2. PICK t \in DebugThread :
           \/ B!Respond(t) \/ B!Writes(t) \/ B!Responded(t)
           \/ \E r \in DebugAsked : B!Debug(t, r)
           \/ B!Acquire(t) \/ B!Exec(t) \/ B!Release(t) \/ B!End(t) \/ B!Answer(t)
    BY <1>1 DEF B!DebuggerNext
  <2>3. QED
    BY <2>1, <2>2, RespondKeeps, WritesKeeps, RespondedKeeps, DebugKeeps, AcquireKeeps, ExecKeeps,
       ReleaseKeeps, EndKeeps, DebuggerAnswerKeeps
<1>2. CASE UNCHANGED debuggerVars
  BY <1>2 DEF debuggerVars, DebuggerInv, ThreadInv, ProgramOf
<1>3. QED
  BY <1>1, <1>2

-----------------------------------------------------------------------------
(* Reports: what is collected ends with the frame that raised, and so does    *)
(* what a filter leaves of it.                                               *)

Distinct(s) == \A i, j \in DOMAIN s : s[i] = s[j] => i = j

\* Frames that are told: a list, and different ones unless they cannot be told.
ToTell(frames) ==
    /\ IsSeq(frames) /\ frames # <<>>
    /\ (\A i \in DOMAIN frames : frames[i] # None) => Distinct(frames)

HiddenNowhere(frames) ==
    \A i \in DOMAIN frames : frames[i].hide \notin {"yes", "before_and_this", "after_and_this"}
ReportIsRight(report) == E!Ends(report) /\ (report.frames = exc_data.frames \/ HiddenNowhere(report.frames))

ReportsInv ==
    /\ exc \in Exceptions
    /\ reportAt # "collect" => ToTell(exc_data.frames)
    /\ reportAt = "collect" => told = {}
    /\ reported => told # {}
    /\ reportAt \in {"extra", "returned"} => told # {}
    /\ \A report \in told : ReportIsRight(report)

LEMMA ReportsInvGives == ASSUME ReportsInv PROVE E!EveryErrorIsTold
  BY DEF ReportsInv, E!EveryErrorIsTold, ReportIsRight, HiddenNowhere

LEMMA ReportsInitHolds == ASSUME E!ReportsInit PROVE ReportsInv
  BY DEF E!ReportsInit, ReportsInv

LEMMA LastOf == ASSUME NEW s, IsSeq(s), s # <<>>
    PROVE Len(s) \in DOMAIN s /\ DOMAIN s = 1 .. Len(s) /\ Len(s) \in Nat
<1>1. PICK S : s \in Seq(S)
  BY DEF IsSeq
<1>2. QED
  BY <1>1

\* Those that are kept end with the last, if it is among them.
LEMMA FilterEnds ==
    ASSUME NEW frames, ToTell(frames), \A i \in DOMAIN frames : frames[i] # None
    PROVE  /\ E!Filter(frames) # <<>> /\ E!Last(E!Filter(frames)) = E!Last(frames)
           /\ E!Filter(frames) = frames \/ HiddenNowhere(E!Filter(frames))
<1>1. PICK P : P = {i \in DOMAIN frames : E!Kept(frames, i)}
  OBVIOUS
<1>2. PICK kept : kept = ElementsAt(frames, P)
  OBVIOUS
<1>3. P \in SUBSET DOMAIN frames /\ IsSeq(frames) /\ frames # <<>> /\ Distinct(frames)
  BY <1>1 DEF ToTell
<1>4. /\ IsSeq(kept) /\ DOMAIN kept = 1 .. Cardinality(P)
      /\ \A k \in DOMAIN kept : \E i \in P : kept[k] = frames[i]
  BY <1>2, <1>3, ElementsFrom
<1>5. HiddenNowhere(kept)
  BY <1>1, <1>4 DEF HiddenNowhere, E!Kept
<1>6. CASE \E i \in DOMAIN kept : kept[i] = E!Last(frames)
  <2>1. Len(frames) \in DOMAIN frames /\ DOMAIN frames = 1 .. Len(frames) /\ Len(frames) \in Nat
    BY <1>3, LastOf
  <2>2. Len(frames) \in P
    BY <1>3, <1>4, <1>6, <2>1 DEF E!Last, Distinct
  <2>3. \A i \in P : i <= Len(frames)
    BY <1>3, <2>1
  <2>4. kept[Cardinality(P)] = frames[Len(frames)] /\ Cardinality(P) \in 1 .. Cardinality(P)
    BY <1>2, <1>3, <2>2, <2>3, HighestIsLast
  <2>5. Len(kept) = Cardinality(P) /\ kept # <<>>
    BY <1>3, <1>2, <1>4, <2>4, PositionsFinite, ElementsIsSeq
  <2>6. E!Filter(frames) = kept
    BY <1>1, <1>2, <1>6, SameElements DEF E!Filter
  <2>7. QED
    BY <1>5, <2>4, <2>5, <2>6 DEF E!Last
<1>7. CASE ~ \E i \in DOMAIN kept : kept[i] = E!Last(frames)
  BY <1>1, <1>2, <1>3, <1>7, SameElements DEF E!Filter
<1>8. QED
  BY <1>6, <1>7

\* What can be formatted is right.
LEMMA FormatIsRight ==
    ASSUME ToTell(exc_data.frames), NEW show_hidden, NEW show_extra, NEW shown,
           shown = E!Format(show_hidden, show_extra), shown # None
    PROVE  /\ shown # <<>> /\ E!Last(shown) = E!Last(exc_data.frames)
           /\ shown = exc_data.frames \/ HiddenNowhere(shown)
<1>1. \A i \in DOMAIN exc_data.frames : exc_data.frames[i] # None
  BY DEF E!Format
<1>2. shown = IF show_hidden THEN exc_data.frames ELSE E!Filter(exc_data.frames)
  BY <1>1 DEF E!Format
<1>3. exc_data.frames # <<>>
  BY DEF ToTell
<1>4. QED
  BY <1>1, <1>2, <1>3, FilterEnds

Where == {"email", "log", "stream", "fallback", "simple", "page"}

LEMMA TellIsRight ==
    ASSUME ReportsInv, reportAt # "collect", NEW to \in Where, E!CanFormat(to), E!Tell(to)
    PROVE  told' # {} /\ \A report \in told' : ReportIsRight(report)
<1>1. ASSUME NEW shown \in E!Formatted(to) PROVE ReportIsRight([to |-> to, frames |-> shown])
  <2>1. PICK f \in E!Formats(to) : shown = E!Format(f[1], f[2])
    BY DEF E!Formatted
  <2>2. shown # None
    BY DEF E!CanFormat
  <2>3. ToTell(exc_data.frames)
    BY DEF ReportsInv
  <2>4. /\ shown # <<>> /\ E!Last(shown) = E!Last(exc_data.frames)
        /\ shown = exc_data.frames \/ HiddenNowhere(shown)
    BY <2>1, <2>2, <2>3, FormatIsRight
  <2>5. QED
    BY <2>4 DEF ReportIsRight, E!Ends
<1>2. E!Formatted(to) # {}
  <2>1. E!Formats(to) # {}
    BY DEF Where, E!Formats
  <2>2. QED
    BY <2>1 DEF E!Formatted
<1>3. QED
  BY <1>1, <1>2 DEF E!Tell, ReportsInv

LEMMA CollectedToTell == ASSUME ReportsAssumed, exc \in Exceptions PROVE ToTell(E!Collected)
<1>1. PICK frames : frames = exc.frames
  OBVIOUS
<1>2. /\ IsSeq(frames) /\ frames # <<>> /\ Distinct(frames) /\ Len(frames) \in Nat
      /\ DOMAIN frames = 1 .. Len(frames) /\ 1 \in DOMAIN frames
  BY <1>1, ListIsSeq, LastOf DEF ReportsAssumed, Distinct
<1>3. PICK P : P = {i \in E!Within : \A j \in 1 .. i : ~frames[j].collecting}
  OBVIOUS
<1>4. PICK known : known = ElementsAt(frames, P)
  OBVIOUS
<1>5. P \in SUBSET DOMAIN frames
  BY <1>1, <1>3 DEF E!Within
<1>6. /\ IsSeq(known) /\ DOMAIN known = 1 .. Cardinality(P)
      /\ \A k \in DOMAIN known : \E i \in P : known[k] = frames[i]
  BY <1>2, <1>4, <1>5, ElementsFrom
<1>7. CASE \E i \in E!Within : frames[i].collecting
  <2>1. E!Collected = Append(known, None)
    BY <1>1, <1>3, <1>4, <1>7, SameElements DEF E!Collected
  <2>2. PICK v : v = Append(known, None)
    OBVIOUS
  <2>3. IsSeq(v) /\ Len(known) \in Nat /\ DOMAIN v = 1 .. Len(known) + 1 /\ v[Len(known) + 1] = None
    BY <1>6, <2>2, AppendIsSeq
  <2>4. Len(known) + 1 \in DOMAIN v /\ v # <<>>
    BY <2>3
  <2>5. QED
    BY <2>1, <2>2, <2>3, <2>4 DEF ToTell
<1>8. CASE ~ \E i \in E!Within : frames[i].collecting
  <2>1. E!Collected = known
    BY <1>1, <1>3, <1>4, <1>8, SameElements DEF E!Collected
  <2>2. 1 \in P
    <3>1. 1 \in E!Within
      BY <1>1, <1>2 DEF E!Within, ReportsAssumed
    <3>2. \A j \in 1 .. 1 : j = 1
      OBVIOUS
    <3>3. QED
      BY <1>3, <1>8, <3>1, <3>2
  <2>3. Cardinality(P) \in Nat /\ Cardinality(P) # 0
    BY <1>2, <1>5, <2>2, PositionsFinite, FS_EmptySet
  <2>4. known # <<>>
    BY <1>6, <2>3
  <2>5. DifferAt(frames, P)
    BY <1>2, <1>5 DEF Distinct, DifferAt
  <2>6. ASSUME NEW k \in DOMAIN known, NEW l \in DOMAIN known, known[k] = known[l] PROVE k = l
    BY <1>2, <1>4, <1>5, <1>6, <2>5, <2>6, ElementsDiffer
  <2>7. QED
    BY <1>6, <2>1, <2>4, <2>6 DEF ToTell, Distinct
<1>9. QED
  BY <1>7, <1>8

LEMMA DecoratedToTell ==
    ASSUME NEW frames, ToTell(frames), NEW known PROVE ToTell(E!Decorated(frames, known))
<1>1. ASSUME NEW x PROVE ToTell(<<x>>)
  <2>1. <<x>> \in Seq({x})
    OBVIOUS
  <2>2. IsSeq(<<x>>)
    BY <2>1 DEF IsSeq
  <2>3. QED
    BY <2>2 DEF ToTell, Distinct
<1>2. QED
  BY <1>1 DEF E!Decorated

LEMMA SameReports ==
    ASSUME ReportsInv, UNCHANGED <<exc, exc_data, told>>, reportAt' # "collect", reportAt # "collect",
           reported' => reported \/ told # {}, reportAt' \in {"extra", "returned"} => told # {}
    PROVE  ReportsInv'
  BY DEF ReportsInv, ReportIsRight, E!Ends, HiddenNowhere

LEMMA ToldMore ==
    ASSUME ReportsInv, UNCHANGED <<exc, exc_data>>, reportAt' # "collect", reportAt # "collect",
           NEW to \in Where, E!CanFormat(to), E!Tell(to)
    PROVE  ReportsInv'
<1>1. told' # {} /\ \A report \in told' : ReportIsRight(report)
  BY TellIsRight
<1>2. QED
  BY <1>1 DEF ReportsInv, ReportIsRight, E!Ends, HiddenNowhere

LEMMA ReportsStep == ASSUME ReportsInv, ReportsAssumed, [E!ReportsNext]_reportVars PROVE ReportsInv'
<1>1. CASE E!Collect
  <2>1. ToTell(E!Collected)
    BY CollectedToTell DEF ReportsInv
  <2>2. exc_data'.frames = E!Decorated(E!Collected, E!Real(E!Collected))
    BY <1>1 DEF E!Collect
  <2>3. ToTell(exc_data'.frames)
    BY <2>1, <2>2, DecoratedToTell
  <2>4. told = {} /\ ~reported /\ UNCHANGED <<told, reported, exc>> /\ reportAt' = "email"
    BY <1>1 DEF E!Collect, ReportsInv
  <2>5. QED
    BY <2>3, <2>4 DEF ReportsInv
<1>2. CASE E!Report
  <2>1. reportAt \in Where \ {"fallback", "simple", "page"} /\ reportAt # "collect" /\ UNCHANGED <<exc, exc_data>>
    BY <1>2 DEF E!Report, Where, E!Reporters
  <2>2. reportAt' \in {"log", "stream", "answer", "raised", "broken"}
    BY <1>2 DEF E!Report, E!After, E!Reporters
  <2>3. CASE E!CanFormat(reportAt) /\ E!Tell(reportAt)
    BY <2>1, <2>2, <2>3, ToldMore
  <2>4. CASE UNCHANGED <<told, reported>>
    BY <2>1, <2>2, <2>4, SameReports DEF ReportsInv
  <2>5. QED
    BY <1>2, <2>3, <2>4 DEF E!Report
<1>3. CASE E!Answer
  <2>1. reportAt = "answer" /\ UNCHANGED <<exc, exc_data>> /\ reportAt' \in {"fallback", "raised"} /\ E!Page \in Where
    BY <1>3 DEF E!Answer, Where, E!Page
  <2>2. CASE E!CanFormat(E!Page) /\ E!Tell(E!Page)
    BY <2>1, <2>2, ToldMore
  <2>3. CASE UNCHANGED <<told, reported>>
    BY <2>1, <2>3, SameReports DEF ReportsInv
  <2>4. QED
    BY <1>3, <2>2, <2>3 DEF E!Answer
<1>4. CASE E!Fallback
  <2>1. reportAt = "fallback" /\ UNCHANGED <<exc, exc_data, reported>> /\ "fallback" \in Where
    BY <1>4 DEF E!Fallback, Where
  <2>2. CASE E!CanFormat("fallback") /\ E!Tell("fallback") /\ reportAt' = "extra"
    BY <2>1, <2>2, ToldMore
  <2>3. CASE UNCHANGED told /\ (reportAt' = "extra" => reported) /\ reportAt' \in {"extra", "broken", "raised"}
    BY <2>1, <2>3, SameReports DEF ReportsInv
  <2>4. QED
    BY <1>4, <2>2, <2>3 DEF E!Fallback
<1>5. CASE E!TellFailures
  BY <1>5, SameReports DEF E!TellFailures, ReportsInv
<1>6. CASE UNCHANGED reportVars
  BY <1>6 DEF reportVars, ReportsInv, ReportIsRight, E!Ends, HiddenNowhere
<1>7. QED
  BY <1>1, <1>2, <1>3, <1>4, <1>5, <1>6 DEF E!ReportsNext

-----------------------------------------------------------------------------
(* HttpErrors: a list of headers that was passed to one exception has one      *)
(* location, and one that was passed to several has those it was passed with. *)

\* A header is in a list at most once; or once, with the value v.
AtMostOnce(headers, name) == X!At(headers, name) = {} \/ \E p \in DOMAIN headers : X!At(headers, name) = {p}
Once(headers, name, v) == \E p \in DOMAIN headers : X!At(headers, name) = {p} /\ headers[p][2] = v

Formed(headers) == IsSeq(headers) /\ AtMostOnce(headers, "content-type")
Located(headers) == X!At(headers, "location") # {}

\* A list of the raiser, until it is passed what was written in it.
ListInv(w) ==
    /\ {"now", "built", "told", "passed", "shared"} \subseteq DOMAIN w /\ Formed(w.now)
    /\ X!Locations(w.now) \subseteq w.told
    /\ ~Located(w.now) => ~Located(w.built)
    /\ w.passed \in BOOLEAN /\ w.shared \in BOOLEAN
    /\ ~w.shared => AtMostOnce(w.now, "location")
    /\ ~w.passed => ~w.shared /\ w.now = w.built /\ None \notin X!Locations(w.built)

ExcInv(e) ==
    /\ e.list = 0 => e.told = None /\ e.code \notin X!Moves
    /\ e.list # 0 => e.list \in DOMAIN lists /\ lists[e.list].passed
    /\ e.told # None /\ ~lists[e.list].shared => e.code \in X!Moves /\ Once(lists[e.list].now, "location", e.told)
    /\ e.code \in X!Moves => Located(lists[e.list].now)

ErrorsInv ==
    /\ IsSeq(lists) /\ \A l \in DOMAIN lists : ListInv(lists[l])
    /\ IsSeq(excs) /\ \A e \in DOMAIN excs : ExcInv(excs[e])
    /\ answer # None /\ ~answer.failed =>
           /\ answer.exc \in DOMAIN excs
           /\ excs[answer.exc].list = 0 => X!Named(answer.headers, "location") = <<>>
    /\ X!AnswersAsRaised

LEMMA ErrorsInitHolds == ASSUME X!ErrorsInit PROVE ErrorsInv
<1>1. <<>> \in Seq({})
  OBVIOUS
<1>2. QED
  BY <1>1 DEF X!ErrorsInit, ErrorsInv, IsSeq, X!AnswersAsRaised

Replaced(s, l, x, r) == r = [s EXCEPT ![l] = x]

LEMMA ReplacedIs ==
    ASSUME NEW s, IsSeq(s), NEW l \in DOMAIN s, NEW x, NEW r, Replaced(s, l, x, r)
    PROVE  IsSeq(r) /\ DOMAIN r = DOMAIN s /\ \A k \in DOMAIN s : r[k] = IF k = l THEN x ELSE s[k]
<1>1. PICK S : s \in Seq(S)
  BY DEF IsSeq
<1>2. s \in Seq(S \cup {x}) /\ x \in S \cup {x}
  BY <1>1
<1>3. r \in Seq(S \cup {x})
  BY <1>2 DEF Replaced
<1>4. QED
  BY <1>3 DEF IsSeq, Replaced

LEMMA NamedOnce ==
    ASSUME NEW headers, IsSeq(headers), NEW name, AtMostOnce(headers, name)
    PROVE  /\ X!At(headers, name) = {} => X!Named(headers, name) = <<>>
           /\ \A p : X!At(headers, name) = {p} => X!Named(headers, name) = <<headers[p]>>
<1>1. X!At(headers, name) = {} => X!Named(headers, name) = <<>>
  BY ElementsNone, SameElements DEF X!Named
<1>2. ASSUME NEW p, X!At(headers, name) = {p} PROVE X!Named(headers, name) = <<headers[p]>>
  <2>1. p \in DOMAIN headers
    BY <1>2 DEF X!At
  <2>2. p \in Int
    BY <2>1, AppendIsSeq
  <2>3. ElementsAt(headers, {p}) = <<headers[p]>>
    BY <2>2, ElementsOne
  <2>4. QED
    BY <1>2, <2>3, SameElements DEF X!Named
<1>3. QED
  BY <1>1, <1>2

Appended(headers, x, more) == more = Append(headers, x)

LEMMA AppendedIs ==
    ASSUME NEW headers, IsSeq(headers), NEW x, NEW more, Appended(headers, x, more)
    PROVE  /\ IsSeq(more) /\ Len(headers) \in Nat /\ DOMAIN headers = 1 .. Len(headers)
           /\ DOMAIN more = 1 .. Len(headers) + 1 /\ more[Len(headers) + 1] = x
           /\ \A k \in 1 .. Len(headers) : more[k] = headers[k]
  BY AppendIsSeq DEF Appended

\* Where a header is, when one more is appended.
LEMMA AppendAt ==
    ASSUME NEW headers, IsSeq(headers), NEW x, NEW name, NEW p, NEW more, Appended(headers, x, more)
    PROVE  p \in X!At(more, name) <=>
              \/ p \in X!At(headers, name) /\ more[p] = headers[p]
              \/ p = Len(headers) + 1 /\ X!Lower(x[1]) = name /\ more[p] = x
<1>1. /\ Len(headers) \in Nat /\ DOMAIN headers = 1 .. Len(headers) /\ DOMAIN more = 1 .. Len(headers) + 1
      /\ more[Len(headers) + 1] = x /\ \A k \in 1 .. Len(headers) : more[k] = headers[k]
  BY AppendedIs
<1>2. p \in 1 .. Len(headers) + 1 <=> p \in 1 .. Len(headers) \/ p = Len(headers) + 1
  BY <1>1
<1>3. p = Len(headers) + 1 => p \notin 1 .. Len(headers)
  BY <1>1
<1>4. QED
  BY <1>1, <1>2, <1>3 DEF X!At

\* The headers of one name are those at some positions.
LEMMA NamedFrom ==
    ASSUME NEW headers, IsSeq(headers), NEW name
    PROVE  /\ X!Named(headers, name) = <<>> <=> X!At(headers, name) = {}
           /\ \A k \in DOMAIN X!Named(headers, name) :
                 \E p \in X!At(headers, name) : X!Named(headers, name)[k] = headers[p]
           /\ X!At(headers, name) # {} =>
                 \E p \in X!At(headers, name) : X!Last(X!Named(headers, name)) = headers[p]
<1>1. PICK P : P = X!At(headers, name)
  OBVIOUS
<1>2. PICK n : n = Cardinality(P)
  OBVIOUS
<1>3. PICK named : named = X!Named(headers, name)
  OBVIOUS
<1>4. P \in SUBSET DOMAIN headers
  BY <1>1 DEF X!At
<1>5. IsFiniteSet(P) /\ P \subseteq Nat /\ n \in Nat
  BY <1>2, <1>4, PositionsFinite
<1>6. named = [k \in 1 .. n |-> headers[Nth(P, k)]]
  BY <1>1, <1>2, <1>3, SameElements DEF X!Named, ElementsAt
<1>7. \A k \in 1 .. n : Nth(P, k) \in P
  BY <1>2, <1>5, NthIn
<1>8. n = 0 <=> P = {}
  BY <1>2, <1>5, FS_EmptySet
<1>9. Len(named) = n /\ DOMAIN named = 1 .. n
  BY <1>5, <1>6
<1>10. named = <<>> <=> P = {}
  <2>1. CASE n = 0
    BY <2>1, <1>6, <1>8
  <2>2. CASE n # 0
    BY <2>2, <1>8, <1>9
  <2>3. QED
    BY <2>1, <2>2
<1>11. \A k \in DOMAIN named : \E p \in P : named[k] = headers[p]
  BY <1>6, <1>7
<1>12. ASSUME P # {} PROVE \E p \in P : X!Last(named) = headers[p]
  <2>a. \A m \in Nat : m # 0 => m \in 1 .. m
    OBVIOUS
  <2>1. n \in 1 .. n
    BY <1>12, <1>5, <1>8, <2>a
  <2>2. X!Last(named) = named[n]
    BY <1>9 DEF X!Last
  <2>3. QED
    BY <2>1, <2>2, <1>9, <1>11
<1>13. QED
  BY <1>1, <1>3, <1>10, <1>11, <1>12

LEMMA AppendLocation ==
    ASSUME NEW headers, Formed(headers), NEW x, X!Lower(x[1]) = "location", NEW more, Appended(headers, x, more)
    PROVE  /\ Formed(more) /\ Located(more) /\ X!Locations(more) = X!Locations(headers) \cup {x[2]}
           /\ ~Located(headers) => Once(more, "location", x[2])
<1>1. PICK n : n = Len(headers) + 1
  OBVIOUS
<1>2. IsSeq(headers) /\ AtMostOnce(headers, "content-type")
  BY DEF Formed
<1>3. IsSeq(more) /\ n \in DOMAIN more /\ \A k \in DOMAIN headers : more[k] = headers[k]
  <2>1. IsSeq(more) /\ Len(headers) \in Nat /\ DOMAIN more = 1 .. Len(headers) + 1 /\ DOMAIN headers = 1 .. Len(headers)
        /\ \A k \in 1 .. Len(headers) : more[k] = headers[k]
    BY <1>2, AppendedIs
  <2>2. QED
    BY <1>1, <2>1
<1>4. n \in X!At(more, "location") /\ more[n] = x
  <2>1. \A p : p \in X!At(more, "location") <=>
               (p \in X!At(headers, "location") /\ more[p] = headers[p]) \/ (p = n /\ more[p] = x)
    BY <1>1, <1>2, AppendAt
  <2>2. more[n] = x
    BY <1>1, <1>2, AppendedIs
  <2>3. QED
    BY <2>1, <2>2
<1>5. X!At(more, "location") = X!At(headers, "location") \cup {n}
  <2>1. \A p : p \in X!At(more, "location") <=>
               (p \in X!At(headers, "location") /\ more[p] = headers[p]) \/ (p = n /\ more[p] = x)
    BY <1>1, <1>2, AppendAt
  <2>2. \A p \in X!At(headers, "location") : more[p] = headers[p]
    BY <1>3 DEF X!At
  <2>3. QED
    BY <2>1, <2>2, <1>4
<1>6. X!Locations(more) = X!Locations(headers) \cup {x[2]}
  <2>1. \A p \in X!At(headers, "location") : more[p] = headers[p]
    BY <1>3 DEF X!At
  <2>2. QED
    BY <2>1, <1>4, <1>5 DEF X!Locations
<1>7. X!At(more, "content-type") = X!At(headers, "content-type")
  <2>1. ASSUME NEW p
        PROVE p \in X!At(more, "content-type") <=> p \in X!At(headers, "content-type") /\ more[p] = headers[p]
    BY <1>2, AppendAt
  <2>2. \A p \in X!At(headers, "content-type") : more[p] = headers[p]
    BY <1>3 DEF X!At
  <2>3. QED
    BY <2>1, <2>2
<1>8. AtMostOnce(more, "content-type")
  BY <1>2, <1>7 DEF AtMostOnce, X!At
<1>9. QED
  BY <1>3, <1>4, <1>5, <1>6, <1>8 DEF Formed, Located, Once

\* prepare_content: one content type, and the location that there was.
LEMMA ReplaceContent ==
    ASSUME NEW headers, Formed(headers), NEW v, NEW new, new = X!ReplaceHeader(headers, "content-type", v)
    PROVE  /\ X!Named(new, "content-type") = <<<<"content-type", v>>>>
           /\ IsSeq(new) /\ X!At(new, "location") = X!At(headers, "location")
           /\ \A p \in X!At(headers, "location") : new[p] = headers[p]
           /\ \A location : Once(headers, "location", location) => \E x : X!Named(new, "location") = <<x>> /\ x[2] = location
<1> DEFINE x == <<"content-type", v>>
<1>1. X!Lower(x[1]) = "content-type" /\ X!Lower(x[1]) # "location"
  BY DEF X!Lower
<1>2. IsSeq(headers) /\ AtMostOnce(headers, "content-type")
  BY DEF Formed
<1>3. /\ IsSeq(new) /\ X!At(new, "location") = X!At(headers, "location")
      /\ \A p \in X!At(headers, "location") : new[p] = headers[p]
      /\ \E p \in DOMAIN new : X!At(new, "content-type") = {p} /\ new[p] = x
  <2>1. CASE X!At(headers, "content-type") = {}
    <3>1. Appended(headers, x, new)
      BY <2>1 DEF X!ReplaceHeader, Appended
    <3> HIDE DEF x
    <3>2. ASSUME NEW p
          PROVE p \in X!At(new, "location") <=> p \in X!At(headers, "location") /\ new[p] = headers[p]
      BY <1>1, <1>2, <3>1, AppendAt
    <3>3. \A p \in X!At(headers, "location") : new[p] = headers[p]
      BY <1>2, <3>1, AppendedIs DEF X!At
    <3>4. \A p : p \in X!At(new, "content-type") <=> p = Len(headers) + 1 /\ new[p] = x
      BY <1>1, <1>2, <2>1, <3>1, AppendAt
    <3>5. /\ IsSeq(new) /\ Len(headers) + 1 \in DOMAIN new /\ new[Len(headers) + 1] = x
      <4>1. /\ IsSeq(new) /\ Len(headers) \in Nat /\ DOMAIN new = 1 .. Len(headers) + 1 /\ new[Len(headers) + 1] = x
        BY <1>2, <3>1, AppendedIs
      <4>2. QED
        BY <4>1
    <3>6. QED
      BY <3>2, <3>3, <3>4, <3>5
  <2>2. CASE X!At(headers, "content-type") # {}
    <3>1. PICK p \in DOMAIN headers : X!At(headers, "content-type") = {p}
      BY <1>2, <2>2 DEF AtMostOnce
    <3>2. new = [i \in DOMAIN headers |-> IF X!Lower(headers[i][1]) = "content-type" THEN x ELSE headers[i]]
      BY <2>2 DEF X!ReplaceHeader
    <3> HIDE DEF x
    <3>3. \A i \in DOMAIN headers : X!Lower(headers[i][1]) = "content-type" <=> i = p
      BY <3>1 DEF X!At
    <3>4. \A i \in DOMAIN headers : new[i] = IF i = p THEN x ELSE headers[i]
      BY <3>2, <3>3
    <3>5. \A i \in DOMAIN headers : X!Lower(new[i][1]) = X!Lower(headers[i][1])
      BY <1>1, <3>3, <3>4
    <3>6. X!At(new, "location") = X!At(headers, "location") /\ X!At(new, "content-type") = X!At(headers, "content-type")
      BY <3>2, <3>5 DEF X!At
    <3>7. X!Lower(headers[p][1]) # "location"
      BY <3>3
    <3>8. \A i \in X!At(headers, "location") : new[i] = headers[i]
      BY <3>4, <3>7 DEF X!At
    <3>9. IsSeq(new)
      <4>1. DOMAIN new = 1 .. Len(headers) /\ Len(headers) \in Nat
        BY <1>2, <3>2, AppendIsSeq
      <4>2. PICK T : T = {new[i] : i \in DOMAIN new}
        OBVIOUS
      <4>3. PICK n : n = Len(headers)
        OBVIOUS
      <4>4. new = [i \in 1 .. n |-> new[i]] /\ \A i \in 1 .. n : new[i] \in T
        BY <3>2, <4>1, <4>2, <4>3
      <4>5. new \in Seq(T)
        BY <4>1, <4>3, <4>4
      <4>6. QED
        BY <4>5 DEF IsSeq
    <3>10. QED
      BY <3>1, <3>2, <3>4, <3>6, <3>8, <3>9
  <2>3. QED
    BY <2>1, <2>2
<1> HIDE DEF x
<1>4. X!Named(new, "content-type") = <<x>>
  <2>1. AtMostOnce(new, "content-type")
    BY <1>3 DEF AtMostOnce
  <2>2. QED
    BY <1>3, <2>1, NamedOnce
<1>5. ASSUME NEW location, Once(headers, "location", location)
      PROVE \E y : X!Named(new, "location") = <<y>> /\ y[2] = location
  <2>1. PICK p \in DOMAIN headers : X!At(headers, "location") = {p} /\ headers[p][2] = location
    BY <1>5 DEF Once
  <2>2. X!At(new, "location") = {p} /\ new[p] = headers[p] /\ p \in DOMAIN new
    BY <1>3, <2>1 DEF X!At
  <2>3. AtMostOnce(new, "location")
    BY <2>2 DEF AtMostOnce
  <2>4. X!Named(new, "location") = <<headers[p]>>
    BY <1>3, <2>2, <2>3, NamedOnce
  <2>5. QED
    BY <2>1, <2>4
<1>6. QED
  BY <1>3, <1>4, <1>5 DEF x

LEMMA ErrorsInvGives == ASSUME ErrorsInv PROVE X!AnswersAsRaised
  BY DEF ErrorsInv

\* What a list that was passed keeps: its locations as long as one exception has it, and that
\* it has some; what was told with it is added to.
ListsStay ==
    \A l \in DOMAIN lists : lists[l].passed =>
        /\ l \in DOMAIN lists' /\ lists'[l].passed /\ lists[l].told \subseteq lists'[l].told
        /\ ~lists'[l].shared => ~lists[l].shared /\ lists'[l].now = lists[l].now
        /\ Located(lists[l].now) => Located(lists'[l].now)

ListsInv == IsSeq(lists) /\ \A l \in DOMAIN lists : ListInv(lists[l])

LEMMA ExcKeeps == ASSUME ListsStay, NEW e, ExcInv(e) PROVE ExcInv(e)'
<1>1. CASE e.list = 0
  BY <1>1 DEF ExcInv
<1>2. CASE e.list # 0
  <2>1. PICK l : l = e.list
    OBVIOUS
  <2>2. /\ l \in DOMAIN lists' /\ lists'[l].passed
        /\ ~lists'[l].shared => ~lists[l].shared /\ lists'[l].now = lists[l].now
        /\ Located(lists[l].now) => Located(lists'[l].now)
    BY <1>2, <2>1 DEF ExcInv, ListsStay
  <2>3. e.told # None /\ ~lists'[l].shared => e.code \in X!Moves /\ Once(lists'[l].now, "location", e.told)
    BY <2>1, <2>2 DEF ExcInv
  <2>4. QED
    BY <1>2, <2>1, <2>2, <2>3 DEF ExcInv, Once, Located
<1>3. QED
  BY <1>1, <1>2

\* What was answered stays right when lists are used again.
LEMMA AnswerStays ==
    ASSUME ErrorsInv, ListsStay, answer' = answer,
           answer # None /\ ~answer.failed => answer.exc \in DOMAIN excs' /\ excs'[answer.exc] = excs[answer.exc]
    PROVE  /\ X!AnswersAsRaised'
           /\ (answer # None /\ ~answer.failed =>
                  answer.exc \in DOMAIN excs /\ (excs[answer.exc].list = 0 => X!Named(answer.headers, "location") = <<>>))'
<1>1. CASE answer = None \/ answer.failed
  BY <1>1 DEF X!AnswersAsRaised
<1>2. CASE answer # None /\ ~answer.failed
  <2>1. PICK one, places : one = excs[answer.exc] /\ places = X!Named(answer.headers, "location")
    OBVIOUS
  <2>2. ExcInv(one) /\ answer.exc \in DOMAIN excs' /\ excs'[answer.exc] = one
    BY <1>2, <2>1 DEF ErrorsInv
  <2>3. /\ X!Named(answer.headers, "content-type") = <<<<"content-type", X!Content(answer.request)>>>>
        /\ one.told # None /\ ~lists[one.list].shared =>
              answer.link = one.told /\ [i \in DOMAIN places |-> places[i][2]] = <<one.told>>
        /\ \A i \in DOMAIN places : places[i][2] \in lists[one.list].told
        /\ one.code \in X!Moves => answer.link \in lists[one.list].told
        /\ one.list = 0 => places = <<>>
    BY <1>2, <2>1 DEF ErrorsInv, X!AnswersAsRaised
  <2>4. CASE one.list = 0
    <3>1. one.told = None /\ one.code \notin X!Moves /\ DOMAIN places = {}
      BY <2>2, <2>3, <2>4 DEF ExcInv
    <3>2. QED
      BY <1>2, <2>1, <2>2, <2>3, <3>1 DEF X!AnswersAsRaised
  <2>5. CASE one.list # 0
    <3>1. PICK l : l = one.list
      OBVIOUS
    <3>2. (~lists'[l].shared => ~lists[l].shared) /\ lists[l].told \subseteq lists'[l].told
      BY <2>2, <2>5, <3>1 DEF ExcInv, ListsStay
    <3>3. QED
      BY <1>2, <2>1, <2>2, <2>3, <2>5, <3>1, <3>2 DEF X!AnswersAsRaised
  <2>6. QED
    BY <2>4, <2>5
<1>3. QED
  BY <1>1, <1>2

LEMMA SameExcs == ASSUME ErrorsInv, ListsInv', ListsStay, UNCHANGED <<excs, answer>> PROVE ErrorsInv'
<1>1. \A e \in DOMAIN excs : ExcInv(excs[e])'
  BY ExcKeeps DEF ErrorsInv
<1>2. /\ X!AnswersAsRaised'
      /\ (answer # None /\ ~answer.failed =>
             answer.exc \in DOMAIN excs /\ (excs[answer.exc].list = 0 => X!Named(answer.headers, "location") = <<>>))'
  BY AnswerStays DEF ErrorsInv
<1>3. QED
  BY <1>1, <1>2 DEF ErrorsInv, ListsInv

LEMMA OneExcMore ==
    ASSUME ErrorsInv, ListsInv', ListsStay, NEW e, Appended(excs, e, excs'), answer' = answer, ExcInv(e)'
    PROVE  ErrorsInv'
<1>1. /\ IsSeq(excs') /\ Len(excs) \in Nat /\ DOMAIN excs = 1 .. Len(excs)
      /\ DOMAIN excs' = 1 .. Len(excs) + 1 /\ excs'[Len(excs) + 1] = e
      /\ \A k \in 1 .. Len(excs) : excs'[k] = excs[k]
  BY AppendedIs DEF ErrorsInv
<1>2. \A k \in DOMAIN excs' : k \in 1 .. Len(excs) \/ k = Len(excs) + 1
  BY <1>1
<1>3. ASSUME NEW k \in DOMAIN excs' PROVE ExcInv(excs[k])'
  <2>1. PICK x : x = excs'[k]
    OBVIOUS
  <2>2. ExcInv(x)'
    <3>1. CASE k \in 1 .. Len(excs)
      <4>1. ExcInv(x)
        BY <1>1, <2>1, <3>1 DEF ErrorsInv
      <4>2. QED
        BY <4>1, ExcKeeps
    <3>2. CASE k = Len(excs) + 1
      BY <1>1, <2>1, <3>2
    <3>3. QED
      BY <1>2, <3>1, <3>2
  <2>3. QED
    BY <2>1, <2>2 DEF ExcInv
<1>4. \A k \in DOMAIN excs : k \in DOMAIN excs' /\ excs'[k] = excs[k]
  BY <1>1
<1>5. answer # None /\ ~answer.failed => answer.exc \in DOMAIN excs' /\ excs'[answer.exc] = excs[answer.exc]
  BY <1>4 DEF ErrorsInv
<1>6. /\ X!AnswersAsRaised'
      /\ (answer # None /\ ~answer.failed =>
             answer.exc \in DOMAIN excs /\ (excs[answer.exc].list = 0 => X!Named(answer.headers, "location") = <<>>))'
  BY <1>5, AnswerStays
<1>7. QED
  BY <1>1, <1>3, <1>6 DEF ErrorsInv, ListsInv

LEMMA ListInvHolds == ASSUME NEW w, ListInv(w), NEW n, lists'[n] = w PROVE ListInv(lists[n])'
  BY DEF ListInv, Formed, Located, AtMostOnce

LEMMA OneListMore ==
    ASSUME ErrorsInv, NEW written, ListInv(written), Appended(lists, written, lists')
    PROVE  ListsInv' /\ ListsStay
<1>1. /\ IsSeq(lists') /\ Len(lists) \in Nat /\ DOMAIN lists = 1 .. Len(lists)
      /\ DOMAIN lists' = 1 .. Len(lists) + 1 /\ lists'[Len(lists) + 1] = written
      /\ \A k \in 1 .. Len(lists) : lists'[k] = lists[k]
  BY AppendedIs DEF ErrorsInv
<1>2. \A k \in DOMAIN lists' : k \in 1 .. Len(lists) \/ k = Len(lists) + 1
  BY <1>1
<1>3. \A k \in DOMAIN lists : k \in DOMAIN lists'
  BY <1>1
<1>4. ASSUME NEW k \in DOMAIN lists' PROVE ListInv(lists[k])'
  <2>1. PICK w : w = lists'[k]
    OBVIOUS
  <2>2. ListInv(w)
    BY <1>1, <1>2, <2>1 DEF ErrorsInv
  <2>3. QED
    BY <2>1, <2>2, ListInvHolds
<1>5. QED
  BY <1>1, <1>3, <1>4 DEF ListsInv, ListsStay

LEMMA SameLists == ASSUME ErrorsInv, lists' = lists PROVE ListsInv' /\ ListsStay
<1>1. \A k \in DOMAIN lists' : ListInv(lists[k])'
  BY ListInvHolds DEF ErrorsInv
<1>2. QED
  BY <1>1 DEF ErrorsInv, ListsInv, ListsStay

\* A list is passed, with what it has and perhaps a location more.
LEMMA PutKeeps ==
    ASSUME ErrorsInv, NEW l \in DOMAIN lists, NEW headers, Formed(headers), NEW more,
           X!Locations(headers) \subseteq lists[l].told \cup more,
           Located(lists[l].now) => Located(headers),
           ~lists[l].passed => AtMostOnce(headers, "location"),
           lists' = X!PutList(l, headers, more)
    PROVE  /\ ListsInv' /\ ListsStay
           /\ l \in DOMAIN lists' /\ lists'[l].passed /\ lists'[l].now = headers
           /\ lists'[l].shared = lists[l].passed
<1>1. PICK w : w = lists[l]
  OBVIOUS
<1>2. PICK new : new = [lists[l] EXCEPT !.now = headers, !.told = lists[l].told \cup more, !.shared = lists[l].passed, !.passed = TRUE]
  OBVIOUS
<1>a. Replaced(lists, l, new, lists')
  BY <1>2 DEF X!PutList, Replaced
<1>3. Replaced(lists, l, new, lists') /\ IsSeq(lists) /\ ListInv(w)
  BY <1>1, <1>a DEF ErrorsInv
<1>4. /\ new.now = headers /\ new.passed /\ new.built = w.built /\ new.told = w.told \cup more
      /\ new.shared = w.passed /\ DOMAIN new = DOMAIN w
  BY <1>1, <1>2, <1>3 DEF ListInv
<1>5. ListInv(new)
  <2>1. ~Located(headers) => ~Located(w.built)
    BY <1>1, <1>3 DEF ListInv
  <2>2. new.passed = TRUE /\ new.shared \in BOOLEAN
    BY <1>2, <1>3, <1>4 DEF ListInv
  <2>3. QED
    BY <1>1, <1>3, <1>4, <2>1, <2>2 DEF ListInv
<1>6. /\ IsSeq(lists') /\ DOMAIN lists' = DOMAIN lists
      /\ \A k \in DOMAIN lists : lists'[k] = IF k = l THEN new ELSE lists[k]
  BY <1>3, ReplacedIs
<1>7. ASSUME NEW k \in DOMAIN lists' PROVE ListInv(lists[k])'
  <2>1. PICK v : v = lists'[k]
    OBVIOUS
  <2>2. ListInv(v)
    BY <1>5, <1>6, <2>1 DEF ErrorsInv
  <2>3. QED
    BY <2>1, <2>2, ListInvHolds
<1>8. ListsStay
  <2>1. ASSUME NEW k \in DOMAIN lists, lists[k].passed, k # l PROVE lists'[k] = lists[k] /\ k \in DOMAIN lists'
    BY <1>6, <2>1
  <2>2. lists[l].passed => /\ l \in DOMAIN lists' /\ lists'[l].passed /\ lists[l].told \subseteq lists'[l].told
                           /\ lists'[l].shared /\ lists'[l].now = headers
    BY <1>1, <1>4, <1>6
  <2>3. QED
    BY <2>1, <2>2 DEF ListsStay
<1>9. QED
  BY <1>1, <1>4, <1>6, <1>7, <1>8 DEF ListsInv

LEMMA BuildListKeeps ==
    ASSUME ErrorsInv, HttpErrorsAssumed, NEW headers \in GivenHeaders, X!BuildList(headers)
    PROVE ErrorsInv'
<1>1. ListInv(X!NewList(headers))
  <2>1. /\ IsSeq(headers)
        /\ \A name \in {"content-type", "location"} : \A i, j \in X!At(headers, name) : i = j
        /\ None \notin X!Locations(headers)
    BY ListIsSeq DEF HttpErrorsAssumed, X!Locations
  <2>2. AtMostOnce(headers, "content-type") /\ AtMostOnce(headers, "location")
    BY <2>1 DEF AtMostOnce, X!At
  <2>3. QED
    BY <2>1, <2>2 DEF ListInv, X!NewList, Formed
<1>2. Appended(lists, X!NewList(headers), lists') /\ UNCHANGED <<excs, answer>>
  BY DEF X!BuildList, Appended
<1>3. QED
  BY <1>1, <1>2, OneListMore, SameExcs

LEMMA HttpErrorsMakeKeeps ==
    ASSUME ErrorsInv, NEW code, NEW l, X!Make(code, l)
    PROVE ErrorsInv'
<1>1. PICK e : e = [code |-> code, list |-> l, told |-> None]
  OBVIOUS
<1>2. Appended(excs, e, excs') /\ answer' = answer /\ e.told = None /\ e.list = l /\ e.code \notin X!Moves
  BY <1>1 DEF X!Make, Appended
<1>3. CASE l = 0
  <2>1. lists' = lists
    BY <1>3 DEF X!Make
  <2>2. ExcInv(e)'
    BY <1>2, <1>3 DEF ExcInv
  <2>3. QED
    BY <1>2, <2>1, <2>2, SameLists, OneExcMore
<1>4. CASE l # 0
  <2>1. l \in DOMAIN lists /\ lists' = X!PutList(l, lists[l].now, {})
    BY <1>4 DEF X!Make, X!Passes, X!Passed
  <2>2. PICK headers : headers = lists[l].now
    OBVIOUS
  <2>3. /\ Formed(headers) /\ X!Locations(headers) \subseteq lists[l].told \cup {}
        /\ ~lists[l].passed => AtMostOnce(headers, "location")
    BY <2>1, <2>2 DEF ErrorsInv, ListInv
  <2>4. ListsInv' /\ ListsStay /\ l \in DOMAIN lists' /\ lists'[l].passed
    BY <2>1, <2>2, <2>3, PutKeeps
  <2>5. ExcInv(e)'
    BY <1>2, <1>4, <2>4 DEF ExcInv
  <2>6. QED
    BY <1>2, <2>4, <2>5, OneExcMore
<1>5. QED
  BY <1>3, <1>4

\* A move has the location it was told, in a header or in the detail, if no other was passed
\* its list.
LEMMA MovedKeeps ==
    ASSUME ErrorsInv, NEW code \in X!Moves, NEW l, X!Passes(l), NEW headers, Formed(headers),
           NEW detail, NEW location, X!Moved(code, l, headers, detail, location),
           ~Located(headers) => location = detail,
           l # 0 => /\ X!Locations(headers) \subseteq lists[l].told \cup {location}
                    /\ Located(lists[l].now) => Located(headers),
           (l # 0 => ~lists[l].passed) /\ Located(headers) => Once(headers, "location", location)
    PROVE  ErrorsInv'
<1>1. PICK full : full = IF X!Named(headers, "location") = <<>> THEN Append(headers, <<"location", detail>>) ELSE headers
  OBVIOUS
<1>2. X!Named(headers, "location") = <<>> <=> ~Located(headers)
  BY NamedFrom DEF Formed, Located
<1>3. /\ Formed(full) /\ Located(full) /\ X!Locations(full) \subseteq X!Locations(headers) \cup {location}
      /\ (l # 0 => ~lists[l].passed) => Once(full, "location", location)
  <2>1. CASE ~Located(headers)
    <3>1. PICK x : x = <<"location", detail>>
      OBVIOUS
    <3>2. X!Lower(x[1]) = "location" /\ x[2] = location /\ Appended(headers, x, full)
      BY <1>1, <1>2, <2>1, <3>1 DEF X!Lower, Appended
    <3>3. QED
      BY <2>1, <3>2, AppendLocation
  <2>2. CASE Located(headers)
    BY <1>1, <1>2, <2>2
  <2>3. QED
    BY <2>1, <2>2
<1>4. (l # 0 => ~lists[l].passed) => AtMostOnce(full, "location")
  BY <1>3 DEF Once, AtMostOnce
<1>5. PICK fails : fails = (None \in X!Locations(full))
  OBVIOUS
<1>6. PICK n : n = IF l = 0 THEN Len(lists) + 1 ELSE l
  OBVIOUS
<1>7. PICK e : e = [code |-> code, list |-> n, told |-> location]
  OBVIOUS
<1>8. /\ lists' = IF l # 0 THEN X!PutList(l, full, {location})
                  ELSE IF fails THEN lists ELSE Append(lists, [X!NewList(full) EXCEPT !.passed = TRUE])
      /\ excs' = IF fails THEN excs ELSE Append(excs, e)
      /\ answer' = answer
  BY <1>1, <1>5, <1>6, <1>7 DEF X!Moved
<1>9. e.list = n /\ e.told = location /\ e.code = code
  BY <1>7
<1>10. CASE l # 0
  <2>1. l \in DOMAIN lists /\ lists' = X!PutList(l, full, {location}) /\ n = l
    BY <1>6, <1>8, <1>10 DEF X!Passes
  <2>2. /\ ListsInv' /\ ListsStay /\ l \in DOMAIN lists' /\ lists'[l].passed /\ lists'[l].now = full
        /\ lists'[l].shared = lists[l].passed
    BY <1>3, <1>4, <1>10, <2>1, PutKeeps
  <2>3. CASE fails
    BY <1>8, <2>2, <2>3, SameExcs
  <2>4. CASE ~fails
    <3>1. Appended(excs, e, excs')
      BY <1>8, <2>4 DEF Appended
    <3>2. Located(lists'[l].now) /\ (~lists'[l].shared => Once(lists'[l].now, "location", location))
      BY <1>3, <2>2
    <3>a. e.list = l /\ e.told = location /\ e.code \in X!Moves
      BY <1>9, <2>1
    <3>3. ExcInv(e)'
      BY <1>10, <2>2, <3>2, <3>a DEF ExcInv, Once, Located
    <3>4. QED
      BY <1>8, <2>2, <3>1, <3>3, OneExcMore
  <2>5. QED
    BY <2>3, <2>4
<1>11. CASE l = 0 /\ fails
  BY <1>8, <1>11, SameLists, SameExcs
<1>12. CASE l = 0 /\ ~fails
  <2>1. PICK new : new = [X!NewList(full) EXCEPT !.passed = TRUE]
    OBVIOUS
  <2>2. /\ new.now = full /\ new.built = full /\ new.passed = TRUE /\ new.shared = FALSE
        /\ new.told = X!Locations(full) /\ {"now", "built", "told", "passed", "shared"} \subseteq DOMAIN new
    BY <2>1 DEF X!NewList
  <2>3. ListInv(new)
    BY <1>3, <1>4, <1>12, <2>2 DEF ListInv
  <2>4. Appended(lists, new, lists') /\ Appended(excs, e, excs') /\ n = Len(lists) + 1
    BY <1>6, <1>8, <1>12, <2>1 DEF Appended
  <2>5. ListsInv' /\ ListsStay
    BY <2>3, <2>4, OneListMore
  <2>6. n \in DOMAIN lists' /\ lists'[n] = new /\ n # 0
    <3>1. /\ Len(lists) \in Nat /\ DOMAIN lists' = 1 .. Len(lists) + 1 /\ lists'[Len(lists) + 1] = new
      BY <2>4, AppendedIs DEF ErrorsInv
    <3>2. QED
      BY <2>4, <3>1
  <2>7. ExcInv(e)'
    <3>1. Located(lists'[n].now) /\ Once(lists'[n].now, "location", location)
      BY <1>3, <1>12, <2>2, <2>6
    <3>2. QED
      BY <1>9, <2>2, <2>6, <3>1 DEF ExcInv, Once, Located
  <2>8. QED
    BY <1>8, <2>4, <2>5, <2>7, OneExcMore
<1>13. QED
  BY <1>10, <1>11, <1>12

\* What is passed for the first time is what was built.
LEMMA PassedIsBuilt ==
    ASSUME ErrorsInv, NEW l, X!Passes(l), NEW detail
    PROVE  /\ Formed(X!Passed(l))
           /\ ~Located(X!Passed(l)) => X!Told(l, detail) = detail
           /\ l # 0 => l \in DOMAIN lists /\ X!Passed(l) = lists[l].now /\ X!Locations(X!Passed(l)) \subseteq lists[l].told
           /\ (l # 0 => ~lists[l].passed) /\ Located(X!Passed(l)) => Once(X!Passed(l), "location", X!Told(l, detail))
           /\ (l # 0 => ~lists[l].passed) /\ X!Told(l, None) = None => ~Located(X!Passed(l))
<1>1. CASE l = 0
  <2>1. <<>> \in Seq({}) /\ \A name : X!At(<<>>, name) = {}
    BY DEF X!At
  <2>2. QED
    BY <1>1, <2>1 DEF X!Passed, X!Told, Formed, Located, AtMostOnce, IsSeq
<1>2. CASE l # 0
  <2>1. PICK w : w = lists[l]
    OBVIOUS
  <2>2. l \in DOMAIN lists /\ ListInv(w) /\ X!Passed(l) = w.now
    BY <1>2, <2>1 DEF X!Passes, X!Passed, ErrorsInv
  <2>3. X!Told(l, detail) = IF ~Located(w.built) THEN detail ELSE w.built[Pick(X!At(w.built, "location"))][2]
    BY <1>2, <2>1, SamePick DEF X!Told, Located
  <2>4. ~Located(w.now) => X!Told(l, detail) = detail
    BY <2>2, <2>3 DEF ListInv
  <2>5. ASSUME ~w.passed, Located(w.now) PROVE Once(w.now, "location", X!Told(l, detail))
    <3>1. w.now = w.built /\ AtMostOnce(w.now, "location")
      BY <2>2, <2>5 DEF ListInv
    <3>2. PICK p \in DOMAIN w.now : X!At(w.now, "location") = {p}
      BY <2>5, <3>1 DEF AtMostOnce, Located
    <3>3. Pick({p}) = p
      BY DEF Pick
    <3>4. QED
      BY <2>3, <2>5, <3>1, <3>2, <3>3 DEF Once
  <2>6. ASSUME ~w.passed, Located(w.now) PROVE X!Told(l, None) # None
    <3>1. PICK p : p = Pick(X!At(w.built, "location"))
      OBVIOUS
    <3>2. p \in X!At(w.built, "location") /\ Located(w.built)
      BY <2>2, <2>6, <3>1 DEF ListInv, Located, Pick
    <3>3. X!Told(l, None) = w.built[p][2]
      BY <1>2, <2>1, <3>1, <3>2, SamePick DEF X!Told, Located
    <3>4. QED
      BY <2>2, <2>6, <3>2, <3>3 DEF ListInv, X!Locations
  <2>7. QED
    BY <1>2, <2>1, <2>2, <2>4, <2>5, <2>6 DEF ListInv
<1>3. QED
  BY <1>1, <1>2

LEMMA MakeMoveKeeps ==
    ASSUME ErrorsInv, NEW code, NEW l, NEW detail, X!MakeMove(code, l, detail)
    PROVE ErrorsInv'
<1>1. X!Passes(l) /\ code \in X!Moves
  BY DEF X!MakeMove
<1>2. PICK headers, location : headers = X!Passed(l) /\ location = X!Told(l, detail)
  OBVIOUS
<1>3. X!Moved(code, l, headers, detail, location)
  BY <1>2 DEF X!MakeMove
<1>4. /\ Formed(headers) /\ (~Located(headers) => location = detail)
      /\ l # 0 => headers = lists[l].now /\ X!Locations(headers) \subseteq lists[l].told \cup {location}
      /\ (l # 0 => ~lists[l].passed) /\ Located(headers) => Once(headers, "location", location)
  BY <1>1, <1>2, PassedIsBuilt
<1>5. QED
  BY <1>1, <1>3, <1>4, MovedKeeps

LEMMA RelativeRedirectKeeps ==
    ASSUME ErrorsInv, NEW code, NEW l, NEW path, NEW r, X!RelativeRedirect(code, l, path, r)
    PROVE  ErrorsInv'
<1>1. PICK location : location = [base |-> r.base, path |-> path]
  OBVIOUS
<1>2. PICK passed : passed = X!Passed(l)
  OBVIOUS
<1>3. PICK x, headers : x = <<"Location", location>> /\ headers = Append(passed, x)
  OBVIOUS
<1>4. X!Passes(l) /\ code \in X!Moves /\ X!Told(l, None) = None /\ X!Moved(code, l, headers, None, location)
  BY <1>1, <1>2, <1>3 DEF X!RelativeRedirect
<1>5. /\ Formed(passed) /\ (l # 0 => passed = lists[l].now /\ X!Locations(passed) \subseteq lists[l].told)
      /\ (l # 0 => ~lists[l].passed) => ~Located(passed)
  BY <1>2, <1>4, PassedIsBuilt
<1>6. X!Lower(x[1]) = "location" /\ x[2] = location /\ Appended(passed, x, headers)
  BY <1>3 DEF X!Lower, Appended
<1>7. /\ Formed(headers) /\ Located(headers) /\ X!Locations(headers) = X!Locations(passed) \cup {location}
      /\ ~Located(passed) => Once(headers, "location", location)
  BY <1>5, <1>6, AppendLocation
<1>8. QED
  BY <1>4, <1>5, <1>7, MovedKeeps

\* The lists and the exceptions are as they were.
LEMMA SameErrors ==
    ASSUME ErrorsInv, UNCHANGED <<lists, excs>>
    PROVE  (IsSeq(lists) /\ (\A l \in DOMAIN lists : ListInv(lists[l])) /\ IsSeq(excs)
            /\ \A e \in DOMAIN excs : ExcInv(excs[e]))'
<1>1. ListsInv' /\ ListsStay
  BY SameLists
<1>2. \A e \in DOMAIN excs : ExcInv(excs[e])'
  BY <1>1, ExcKeeps DEF ErrorsInv
<1>3. QED
  BY <1>1, <1>2 DEF ListsInv, ErrorsInv

LEMMA HttpErrorsAnswerKeeps ==
    ASSUME ErrorsInv, NEW e, NEW r, X!Answer(e, r) PROVE ErrorsInv'
<1>1. e \in DOMAIN excs /\ UNCHANGED <<lists, excs>>
  BY DEF X!Answer
<1>2. PICK one : one = excs[e]
  OBVIOUS
<1>3. ExcInv(one)
  BY <1>1, <1>2 DEF ErrorsInv
<1>4. PICK headers : headers = X!Headers(e)
  OBVIOUS
<1>5. /\ Formed(headers) /\ (one.list = 0 => ~Located(headers))
      /\ one.list # 0 => headers = lists[one.list].now /\ X!Locations(headers) \subseteq lists[one.list].told
  <2>1. <<>> \in Seq({}) /\ \A name : X!At(<<>>, name) = {}
    BY DEF X!At
  <2>2. CASE one.list = 0
    BY <1>2, <1>4, <2>1, <2>2 DEF X!Headers, Formed, Located, AtMostOnce, IsSeq
  <2>3. CASE one.list # 0
    <3>1. ListInv(lists[one.list]) /\ headers = lists[one.list].now
      BY <1>2, <1>3, <1>4, <2>3 DEF X!Headers, ErrorsInv, ExcInv
    <3>2. QED
      BY <2>3, <3>1 DEF ListInv
  <2>4. QED
    BY <2>2, <2>3
<1>6. CASE answer'.failed = TRUE
  BY <1>1, <1>6, SameErrors DEF X!AnswersAsRaised, ErrorsInv
<1>7. CASE answer' = X!Prepared(e, r)
  <2>1. PICK new : new = X!ReplaceHeader(headers, "content-type", X!Content(r))
    OBVIOUS
  <2>2. PICK places : places = X!Named(new, "location")
    OBVIOUS
  <2>3. answer'.exc = e /\ answer'.request = r /\ answer'.link = X!Link(e) /\ answer'.headers = new
    BY <1>4, <1>7, <2>1 DEF X!Prepared
  <2>4. /\ X!Named(new, "content-type") = <<<<"content-type", X!Content(r)>>>> /\ IsSeq(new)
        /\ X!At(new, "location") = X!At(headers, "location") /\ \A p \in X!At(headers, "location") : new[p] = headers[p]
        /\ \A location : Once(headers, "location", location) => \E x : places = <<x>> /\ x[2] = location
    BY <1>5, <2>1, <2>2, ReplaceContent
  <2>5. \A i \in DOMAIN places : \E p \in X!At(headers, "location") : places[i] = headers[p]
    BY <2>2, <2>4, NamedFrom
  <2>6. one.list = 0 => places = <<>>
    BY <1>5, <2>2, <2>4, NamedFrom DEF Located
  <2>7. \A i \in DOMAIN places : places[i][2] \in lists[one.list].told
    <3>1. CASE one.list = 0
      BY <2>6, <3>1
    <3>2. CASE one.list # 0
      BY <1>5, <2>5, <3>2 DEF X!Locations
    <3>3. QED
      BY <3>1, <3>2
  <2>8. ASSUME one.code \in X!Moves PROVE X!Link(e) \in lists[one.list].told
    <3>1. one.list # 0 /\ Located(headers)
      BY <1>3, <1>5, <2>8 DEF ExcInv
    <3>2. PICK p \in X!At(headers, "location") : X!Last(X!Named(headers, "location")) = headers[p]
      BY <1>5, <3>1, NamedFrom DEF Formed, Located
    <3>3. X!Link(e) = headers[p][2]
      BY <1>2, <1>4, <2>8, <3>2 DEF X!Link
    <3>4. QED
      BY <1>5, <3>1, <3>2, <3>3 DEF X!Locations
  <2>9. ASSUME one.told # None, ~lists[one.list].shared
        PROVE  X!Link(e) = one.told /\ [i \in DOMAIN places |-> places[i][2]] = <<one.told>>
    <3>1. one.code \in X!Moves /\ one.list # 0 /\ Once(headers, "location", one.told)
      BY <1>3, <1>5, <2>9 DEF ExcInv
    <3>2. PICK y : places = <<y>> /\ y[2] = one.told
      BY <2>4, <3>1
    <3>3. PICK p \in DOMAIN headers : X!At(headers, "location") = {p} /\ headers[p][2] = one.told
      BY <3>1 DEF Once
    <3>4. PICK q \in X!At(headers, "location") : X!Last(X!Named(headers, "location")) = headers[q]
      BY <1>5, <3>3, NamedFrom DEF Formed
    <3>5. X!Link(e) = one.told
      BY <1>2, <1>4, <3>1, <3>3, <3>4 DEF X!Link
    <3>6. [i \in DOMAIN <<y>> |-> <<y>>[i][2]] = <<one.told>>
      BY <3>2
    <3>7. QED
      BY <3>2, <3>5, <3>6
  <2>10. X!AnswersAsRaised'
    BY <1>1, <1>2, <2>2, <2>3, <2>4, <2>7, <2>8, <2>9 DEF X!AnswersAsRaised, X!Content
  <2>11. (answer # None /\ ~answer.failed =>
            answer.exc \in DOMAIN excs /\ (excs[answer.exc].list = 0 => X!Named(answer.headers, "location") = <<>>))'
    BY <1>1, <1>2, <2>2, <2>3, <2>6
  <2>12. QED
    BY <1>1, <2>10, <2>11, SameErrors DEF ErrorsInv
<1>8. QED
  BY <1>6, <1>7 DEF X!Answer

LEMMA ErrorsStep ==
    ASSUME ErrorsInv, HttpErrorsAssumed, [X!ErrorsNext]_errorVars PROVE ErrorsInv'
<1>1. CASE X!ErrorsNext
  BY <1>1, BuildListKeeps, HttpErrorsMakeKeeps, MakeMoveKeeps, RelativeRedirectKeeps,
     HttpErrorsAnswerKeeps DEF X!ErrorsNext
<1>2. CASE UNCHANGED errorVars
  <2>1. lists' = lists /\ UNCHANGED <<excs, answer>>
    BY <1>2 DEF errorVars
  <2>2. QED
    BY <2>1, SameLists, SameExcs
<1>3. QED
  BY <1>1, <1>2

-----------------------------------------------------------------------------
(* The theorems.  A component steps only in the behaviours that look at it.  *)

LEMMA OneComponent ==
    ASSUME [Next]_vars
    PROVE  /\ component' = component
           /\ component = "fileapp" => [F!FileNext]_fileVars
           /\ component = "response" => [R!ResponseNext]_responseVars
           /\ component = "wsgi" => [W!WsgiNext]_wsgiVars
           /\ component = "auth" => [A!Next]_authVars
           /\ component = "reports" => [E!ReportsNext]_reportVars
           /\ component = "errors" => [X!ErrorsNext]_errorVars
           /\ component = "url" => [U!UrlNext]_urlVars
           /\ component = "debugger" => [B!DebuggerNext]_debuggerVars
  BY DEF Next, vars

LEMMA OneStarts ==
    ASSUME Init
    PROVE  /\ component = "fileapp" => F!FileInit
           /\ component = "response" => R!ResponseInit
           /\ component = "wsgi" => W!WsgiInit
           /\ component = "auth" => A!Init
           /\ component = "reports" => E!ReportsInit
           /\ component = "errors" => X!ErrorsInit
           /\ component = "url" => U!UrlInit
           /\ component = "debugger" => B!DebuggerInit
  BY DEF Init

\* However many threads answer from the object and fill it, however often the file is rewritten,
\* removed and made again meanwhile, and whichever requests fail on the way, a client is told
\* that its copy is good when the file had changed before it asked only if two threads met in
\* the object: one filled it while another filled it or answered from it, and this answer, or
\* the one that the copy came with, was made of that (fileapp.py 126-153, 208-229).
THEOREM StaleOnlyIfDisturbed == Spec => []NeverStale
<1> DEFINE Inv == component = "fileapp" => FileAppInv
<1>1. Init => Inv
  BY OneStarts, FileInitHolds, ServicesAssumption
<1>2. Inv /\ [Next]_vars => Inv'
  <2> SUFFICES ASSUME Inv, [Next]_vars, component' = "fileapp" PROVE FileAppInv'
    OBVIOUS
  <2>1. component = "fileapp" /\ [F!FileNext]_fileVars /\ FileAppInv
    BY OneComponent
  <2>2. QED
    BY <2>1, FileAppStep, ServicesAssumption
<1>3. Inv => NeverStale
  BY FileAppInvGives DEF NeverStale
<1>4. QED
  BY <1>1, <1>2, <1>3, PTL DEF Spec

\* Whatever is set, added, deleted and copied, and whichever lists the default headers hold, a
\* response is sent only with headers that it was told to send, or the defaults or a response
\* that the same list came to (wsgiwrappers.py 290-461, response.py 25-86).
THEOREM ResponsesStayApart == Spec => []ResponsesApart
<1> DEFINE Inv == component = "response" => ResponseInv
<1>1. Init => Inv
  BY OneStarts, ResponseInitHolds, ServicesAssumption
<1>2. Inv /\ [Next]_vars => Inv'
  <2> SUFFICES ASSUME Inv, [Next]_vars, component' = "response" PROVE ResponseInv'
    OBVIOUS
  <2>1. component = "response" /\ [R!ResponseNext]_responseVars /\ ResponseInv
    BY OneComponent
  <2>2. QED
    BY <2>1, ResponseStep, ServicesAssumption
<1>3. Inv => ResponsesApart
  BY ResponseInvGives DEF ResponsesApart
<1>4. QED
  BY <1>1, <1>2, <1>3, PTL DEF Spec

\* Wherever an application, its iterator or its close fails, the iterator it returned has been
\* closed once when the request is over (wsgilib.py 142-173), but for the three cases in which
\* ClosedOnce says that the code leaves it open: mod_python after a failure, a cgitb that is not
\* read to the end, and intercept_output without a status.
THEOREM BodiesAreClosedOnce == Spec => []ClosedOnce
<1> DEFINE Inv == component = "wsgi" => WsgiInv
<1>1. Init => Inv
  BY OneStarts, WsgiInitHolds, ServicesAssumption
<1>2. Inv /\ [Next]_vars => Inv'
  <2> SUFFICES ASSUME Inv, [Next]_vars, component' = "wsgi" PROVE WsgiInv'
    OBVIOUS
  <2>1. component = "wsgi" /\ [W!WsgiNext]_wsgiVars /\ WsgiInv
    BY OneComponent
  <2>2. QED
    BY <2>1, WsgiStep, ServicesAssumption
<1>3. Inv => ClosedOnce
  BY WsgiInvGives DEF ClosedOnce
<1>4. QED
  BY <1>1, <1>2, <1>3, PTL DEF Spec

\* However many threads check the requests of a browser, and whatever becomes of its nonces
\* between the steps of one check, a request with the right password is refused or ends in an
\* error only if one that was sent after it, with the same nonce, passed before it, or if it
\* came with a cookie that cannot be read (auth/digest.py 88-188).
THEOREM RightPasswordPasses == Spec => []RefusedIfOvertaken
<1> DEFINE Inv == component = "auth" => AuthInv
<1>1. Init => Inv
  BY OneStarts, AuthInitHolds
<1>2. Inv /\ [Next]_vars => Inv'
  <2> SUFFICES ASSUME Inv, [Next]_vars, component' = "auth" PROVE AuthInv'
    OBVIOUS
  <2>1. component = "auth" /\ [A!Next]_authVars /\ AuthInv
    BY OneComponent
  <2>2. QED
    BY <2>1, AuthSteps
<1>3. Inv => RefusedIfOvertaken
  BY DEF RefusedIfOvertaken, AuthInv
<1>4. QED
  BY <1>1, <1>2, <1>3, PTL DEF Spec

\* However often exceptions are raised, and whichever lists of headers they were made from, an
\* answer has one content type, the one that was asked for, and a redirection whose list went to
\* no other exception one location, the one it was told; those of any other were told with its
\* own list (httpexceptions.py 174-263, 317-349).
THEOREM ExceptionsAnswerAsRaised == Spec => []AnswersAsRaised
<1> DEFINE Inv == component = "errors" => ErrorsInv
<1>1. Init => Inv
  BY OneStarts, ErrorsInitHolds, ServicesAssumption
<1>2. Inv /\ [Next]_vars => Inv'
  <2> SUFFICES ASSUME Inv, [Next]_vars, component' = "errors" PROVE ErrorsInv'
    OBVIOUS
  <2>1. component = "errors" /\ [X!ErrorsNext]_errorVars /\ ErrorsInv
    BY OneComponent
  <2>2. QED
    BY <2>1, ErrorsStep, ServicesAssumption
<1>3. Inv => AnswersAsRaised
  BY ErrorsInvGives DEF AnswersAsRaised
<1>4. QED
  BY <1>1, <1>2, <1>3, PTL DEF Spec

\* Whichever reports fail, and however frames are hidden, an exception that was handled was told
\* to somebody with the frame that raised it (errormiddleware.py 319-417, formatter.py 93-135);
\* and whatever requests print meanwhile, who evaluates code in a frame is answered with all
\* that it printed, in order, and its traceback (evalcontext.py 26-48).
THEOREM ErrorsAreTold == Spec => []EveryErrorIsTold
<1> DEFINE Inv == /\ component = "reports" => ReportsInv
                  /\ component = "debugger" => DebuggerInv
<1>1. Init => Inv
  BY OneStarts, ReportsInitHolds, DebuggerInitHolds, ServicesAssumption
<1>2. Inv /\ [Next]_vars => Inv'
  <2> SUFFICES ASSUME Inv, [Next]_vars PROVE Inv'
    OBVIOUS
  <2>1. CASE component = "reports"
    <3>1. ReportsInv /\ [E!ReportsNext]_reportVars /\ component' = "reports"
      BY <2>1, OneComponent
    <3>2. ReportsInv'
      BY <3>1, ReportsStep, ServicesAssumption
    <3>3. QED
      BY <3>1, <3>2
  <2>2. CASE component = "debugger"
    <3>1. DebuggerInv /\ [B!DebuggerNext]_debuggerVars /\ component' = "debugger"
      BY <2>2, OneComponent
    <3>2. DebuggerInv'
      BY <3>1, DebuggerStep, ServicesAssumption
    <3>3. QED
      BY <3>1, <3>2
  <2>3. CASE component \notin {"reports", "debugger"}
    BY <2>3, OneComponent
  <2>4. QED
    BY <2>1, <2>2, <2>3
<1>3. Inv => EveryErrorIsTold
  BY ReportsInvGives, DebuggerInvGives DEF EveryErrorIsTold
<1>4. QED
  BY <1>1, <1>2, <1>3, PTL DEF Spec

\* No operation on any URL, neither one that makes another from it nor one that renders it,
\* changes what a URL that the program holds shows (url.py 49-63, 120-199, 415-432).
THEOREM UrlsAreNotChanged == Spec => UrlsStay
<1> DEFINE Inv == component = "url" => UrlInv
<1>1. Init => Inv
  BY OneStarts, UrlInitHolds
<1>2. Inv /\ [Next]_vars => Inv'
  <2> SUFFICES ASSUME Inv, [Next]_vars, component' = "url" PROVE UrlInv'
    OBVIOUS
  <2>1. component = "url" /\ [U!UrlNext]_urlVars /\ UrlInv
    BY OneComponent
  <2>2. QED
    BY <2>1, UrlStep
<1>3. Inv /\ [Next]_vars => [\A n \in DOMAIN urls : U!Shown(n)' = U!Shown(n)]_(U!urlVars)
  <2> SUFFICES ASSUME Inv, [Next]_vars, ~ UNCHANGED U!urlVars
               PROVE  \A n \in DOMAIN urls : U!Shown(n)' = U!Shown(n)
    OBVIOUS
  <2>1. component = "url"
    BY DEF Next, vars, urlVars, U!urlVars
  <2>2. QED
    BY <2>1, OneComponent, UrlStep
<1>4. QED
  BY <1>1, <1>2, <1>3, PTL DEF Spec, UrlsStay, U!UrlsStay
=============================================================================
