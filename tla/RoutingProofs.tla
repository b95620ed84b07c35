---------------------------- MODULE RoutingProofs ----------------------------
(***************************************************************************)
(* Theorems about Routing, for any constants that RoutingAssumption allows:  *)
(* those of Dispatch hold of every behaviour; which application URLMap calls  *)
(* and which module makes a page; the path that URLParser keeps; and what a   *)
(* script that TestFileEnvironment runs has changed.                          *)
(***************************************************************************)
EXTENDS Routing, DispatchProofs, FiniteSetTheorems, SequenceTheorems

LEMMA OneComponent ==
    ASSUME [Next]_vars
    PROVE  /\ component' = component
           /\ component = "dispatch" => [DispatchNext]_dispatchVars
           /\ component # "dispatch" => UNCHANGED dispatchVars
           /\ component = "urlmap" => [M!UrlMapNext]_urlmapVars
           /\ component = "urlparser" => [P!UrlParserNext]_urlparserVars
           /\ component = "pages" => [G!PagesNext]_pagesVars
           /\ component = "filetest" => [T!FileTestNext]_fileTestVars
  BY DEF Next, vars

LEMMA OneStarts ==
    ASSUME Init
    PROVE  /\ component = "dispatch" => DispatchInit
           /\ component # "dispatch" => DispatchIdle
           /\ component = "urlmap" => M!UrlMapInit
           /\ component = "urlparser" => P!UrlParserInit
           /\ component = "pages" => G!PagesInit
           /\ component = "filetest" => T!FileTestInit
  BY DEF Init

LEMMA ChainsAssumed == Assumed
  BY RoutingAssumption DEF DispatchAssumed, Assumed, Layers

\* Whatever becomes of the forwarded requests, in whichever order the middlewares are,
\* the client is told a status of an application that was not serving an error document
\* (errordocument.py 63-86).
THEOREM RoutedStatusKept == Spec => []ErrorDocumentKeepsStatus
<1> DEFINE Inv == IF component = "dispatch" THEN Typed /\ StatusInv ELSE told = <<>>
<1>1. Init => Inv
  BY OneStarts, ChainsAssumed, InitTyped, StatusInit DEF DispatchIdle
<1>2. Inv /\ [Next]_vars => Inv'
  <2> SUFFICES ASSUME Inv, [Next]_vars PROVE Inv'
    OBVIOUS
  <2>1. CASE component = "dispatch"
    <3>1. component' = "dispatch" /\ [DispatchNext]_dispatchVars /\ Typed /\ StatusInv
      BY <2>1, OneComponent
    <3>2. QED
      BY <3>1, ChainsAssumed, StepTyped, StatusStep
  <2>2. CASE component # "dispatch"
    BY <2>2, OneComponent DEF dispatchVars
  <2>3. QED
    BY <2>1, <2>2
<1>3. Inv => ErrorDocumentKeepsStatus
  BY DEF StatusInv, ErrorDocumentKeepsStatus
<1>4. QED
  BY <1>1, <1>2, <1>3, PTL DEF Spec

\* In whatever order the middlewares are, cascades in cascades among them, an application
\* that was not called for a forwarded request finds the body whole, however much of it
\* those tried before have read (cascade.py 86-121).
THEOREM RoutedBodiesWhole == Spec => []BodyIsWhole
<1> DEFINE Inv == IF component = "dispatch" THEN Typed /\ BodyInv ELSE hungry = FALSE
<1>1. Init => Inv
  BY OneStarts, ChainsAssumed, InitTyped, BodyInit DEF DispatchIdle
<1>2. Inv /\ [Next]_vars => Inv'
  <2> SUFFICES ASSUME Inv, [Next]_vars PROVE Inv'
    OBVIOUS
  <2>1. CASE component = "dispatch"
    <3>1. component' = "dispatch" /\ [DispatchNext]_dispatchVars /\ Typed /\ BodyInv
      BY <2>1, OneComponent
    <3>2. QED
      BY <3>1, ChainsAssumed, StepTyped, BodyStep
  <2>2. CASE component # "dispatch"
    BY <2>2, OneComponent DEF dispatchVars
  <2>3. QED
    BY <2>1, <2>2
<1>3. Inv => BodyIsWhole
  BY DEF BodyInv, BodyIsWhole
<1>4. QED
  BY <1>1, <1>2, <1>3, PTL DEF Spec

-----------------------------------------------------------------------------
(* UrlMap: the most specific application answers.                            *)

IsSeq(s) == \E S : s \in Seq(S)

\* What the components call by these names is what is called so here.
LEMMA SameCount == \A S : M!Cardinality(S) = Cardinality(S)
  BY DEF M!Cardinality, Cardinality

LEMMA IsSeqFacts ==
    ASSUME NEW s, IsSeq(s)
    PROVE  /\ Len(s) \in Nat /\ DOMAIN s = 1..Len(s)
           /\ \A x : IsSeq(Append(s, x))
           /\ SubSeq(s, 1, Len(s)) = s
<1>1. PICK S : s \in Seq(S)
  BY DEF IsSeq
<1>2. ASSUME NEW x PROVE IsSeq(Append(s, x))
  <2>1. s \in Seq(S \cup {x})
    BY <1>1
  <2>2. Append(s, x) \in Seq(S \cup {x})
    BY <2>1
  <2>3. QED
    BY <2>2 DEF IsSeq
<1>3. SubSeq(s, 1, Len(s)) = s
  BY <1>1
<1>4. QED
  BY <1>1, <1>2, <1>3

LEMMA PathIsSeq == ASSUME NEW path, P!IsPath(path) PROVE IsSeq(path)
<1>1. PICK R : R = {path[i] : i \in 1..Len(path)}
  OBVIOUS
<1>2. PICK n : n = Len(path)
  OBVIOUS
<1>3. n \in Nat /\ path = [i \in 1..n |-> path[i]]
  BY <1>2 DEF P!IsPath
<1>4. path \in Seq(R)
  BY <1>1, <1>2, <1>3
<1>5. QED
  BY <1>4 DEF IsSeq

LEMMA ElementsIsSeq ==
    ASSUME NEW s, IsSeq(s), NEW S, S \subseteq DOMAIN s PROVE IsSeq(M!ElementsAt(s, S))
<1>1. Len(s) \in Nat /\ S \subseteq 1..Len(s)
  BY IsSeqFacts
<1>2. IsFiniteSet(1..Len(s))
  BY <1>1, FS_Interval
<1>3. Cardinality(S) \in Nat
  BY <1>1, <1>2, FS_Subset, FS_CardinalityType
<1>4. PICK a, c : a = M!ElementsAt(s, S) /\ c = M!Cardinality(S)
  OBVIOUS
<1>5. c \in Nat
  BY <1>3, <1>4, SameCount
<1>6. PICK R : R = {s[M!Nth(S, k)] : k \in 1..c}
  OBVIOUS
<1>7. a = [k \in 1..c |-> s[M!Nth(S, k)]]
  BY <1>4 DEF M!ElementsAt
<1>8. \A k \in 1..c : s[M!Nth(S, k)] \in R
  BY <1>6
<1>9. a \in Seq(R)
  BY <1>5, <1>7, <1>8
<1>10. QED
  BY <1>4, <1>9 DEF IsSeq

\* What is left of a path is one.
LEMMA NormalIsSeq ==
    ASSUME NEW path, P!IsPath(path), NEW trim PROVE IsSeq(M!NormalPath(path, trim))
<1>1. PICK S : S = {i \in DOMAIN path : path[i] # ""}
  OBVIOUS
<1>2. PICK names : names = M!ElementsAt(path, S)
  OBVIOUS
<1>3. IsSeq(names)
  BY <1>1, <1>2, PathIsSeq, ElementsIsSeq
<1>4. M!NormalPath(path, trim) \in {names, Append(names, "")}
  BY <1>1, <1>2 DEF M!NormalPath
<1>5. QED
  BY <1>3, <1>4, IsSeqFacts

\* A path is what comes up to a position and what comes after it.
LEMMA SplitAt ==
    ASSUME NEW path, IsSeq(path), NEW k \in 0..Len(path)
    PROVE  SubSeq(path, 1, k) \o SubSeq(path, k + 1, Len(path)) = path
<1>1. PICK S : path \in Seq(S)
  BY DEF IsSeq
<1>2. Len(path) \in Nat /\ k \in Nat /\ k <= Len(path)
  BY <1>1
<1>3. PICK n : n = Len(path) /\ n \in Nat /\ k \in 0..n
  BY <1>2
<1>4. PICK a : a = SubSeq(path, 1, k)
  OBVIOUS
<1>5. PICK b : b = SubSeq(path, k + 1, n)
  OBVIOUS
<1>6. a \in Seq(S) /\ Len(a) = k /\ \A i \in 1..k : a[i] = path[i]
  BY <1>1, <1>2, <1>4
<1>7. b \in Seq(S) /\ Len(b) = n - k /\ \A i \in 1..(n - k) : b[i] = path[k + i]
  BY <1>1, <1>3, <1>5
<1>8. PICK c : c = a \o b
  OBVIOUS
<1>9. c \in Seq(S) /\ Len(c) = n
  BY <1>3, <1>6, <1>7, <1>8
<1>10. ASSUME NEW i \in 1..n PROVE c[i] = path[i]
  <2>1. c[i] = IF i <= k THEN a[i] ELSE b[i - k]
    BY <1>3, <1>6, <1>7, <1>8, ConcatProperties
  <2>2. CASE i <= k
    BY <1>3, <1>6, <2>1, <2>2
  <2>3. CASE ~(i <= k)
    <3>1. i - k \in 1..(n - k) /\ k + (i - k) = i
      BY <1>3, <2>3
    <3>2. QED
      BY <1>7, <2>1, <2>3, <3>1
  <2>4. QED
    BY <2>2, <2>3
<1>11. c = path
  BY <1>1, <1>3, <1>9, <1>10
<1>12. QED
  BY <1>3, <1>4, <1>5, <1>8, <1>11

\* An application under a URL that was normalised.
Urls == {M!NormalUrl(key) : key \in Keys}
Mounted == [domain : {u.domain : u \in Urls}, url : {u.url : u \in Urls}, app : Apps]

LEMMA UrlOfKey ==
    ASSUME UrlMapAssumed, NEW u \in Urls
    PROVE  u = [domain |-> u.domain, url |-> u.url] /\ IsSeq(u.url)
<1>1. PICK key \in Keys : u = M!NormalUrl(key)
  BY DEF Urls
<1>2. IsSeq(M!NormalPath(key.url, TRUE))
  BY NormalIsSeq DEF UrlMapAssumed
<1>3. QED
  BY <1>1, <1>2 DEF M!NormalUrl

LEMMA MountedUrl == ASSUME UrlMapAssumed, NEW e \in Mounted PROVE Len(e.url) \in Nat /\ IsSeq(e.url)
<1>1. PICK u \in Urls : e.url = u.url
  BY DEF Mounted
<1>2. QED
  BY <1>1, UrlOfKey, IsSeqFacts

\* The list has no URL twice, ...
Differ(apps) == \A i, j \in DOMAIN apps : M!UrlOf(apps[i]) = M!UrlOf(apps[j]) => i = j
\* ... what is to be asked later is not to be asked before, ...
Sorted(apps) == \A i, j \in DOMAIN apps : i < j => ~M!Before(apps[j], apps[i])
\* ... and it has what a dictionary has.
Holds(apps, m) ==
    /\ \A i \in DOMAIN apps : M!UrlOf(apps[i]) \in Urls /\ m[M!UrlOf(apps[i])] = apps[i].app
    /\ \A u \in Urls : m[u] # None => \E i \in DOMAIN apps : M!UrlOf(apps[i]) = u

UrlMapInv ==
    /\ applications \in Seq(Mounted) /\ mapping \in [Urls -> Apps \cup {None}]
    /\ Differ(applications) /\ Sorted(applications) /\ Holds(applications, mapping)

LEMMA UrlMapInitHolds == ASSUME M!UrlMapInit PROVE UrlMapInv
<1>1. applications = <<>> /\ mapping = [u \in Urls |-> None]
  BY DEF M!UrlMapInit, Urls
<1>2. QED
  BY <1>1 DEF UrlMapInv, Differ, Sorted, Holds

\* The first of a sequence that passes.
LEMMA FirstOf ==
    ASSUME NEW n \in Nat, NEW I, I \subseteq 1..n, I # {}
    PROVE  /\ (CHOOSE x \in I : \A y \in I : x =< y) \in I
           /\ \A y \in I : (CHOOSE x \in I : \A y_1 \in I : x =< y_1) =< y
<1>1. PICK k \in I : \A y \in I : k =< y
  <2>1. I \in SUBSET Nat /\ I # {}
    OBVIOUS
  <2>2. PICK k \in I : \A y \in I : ~(<<y, k>> \in OpToRel(<, Nat))
    BY <2>1, NatLessThanWellFounded, WFMin
  <2>3. ASSUME NEW y \in I PROVE k <= y
    <3>1. k \in Nat /\ y \in Nat
      BY <2>1
    <3>2. ~(y < k)
      BY <2>2, <3>1, Zenon DEF OpToRel
    <3>3. QED
      BY <3>1, <3>2
  <2>4. QED
    BY <2>3
<1>2. QED
  BY <1>1

\* __delitem__: the entry is gone, and those behind it move up.
LEMMA WithoutIs ==
    ASSUME NEW apps \in Seq(Mounted), NEW u
    PROVE  \/ /\ M!Without(apps, u) = apps
              /\ \A i \in DOMAIN apps : M!UrlOf(apps[i]) # u
           \/ \E k \in 1..Len(apps) :
                /\ M!UrlOf(apps[k]) = u
                /\ M!Without(apps, u) \in Seq(Mounted)
                /\ Len(M!Without(apps, u)) = Len(apps) - 1
                /\ \A i \in 1..(Len(apps) - 1) :
                      M!Without(apps, u)[i] = IF i < k THEN apps[i] ELSE apps[i + 1]
<1>1. CASE ~\E i \in 1..Len(apps) : M!UrlOf(apps[i]) = u
  BY <1>1 DEF M!Without, M!RemoveFirstMatch
<1>2. CASE \E i \in 1..Len(apps) : M!UrlOf(apps[i]) = u
  <2> DEFINE I == {i \in 1..Len(apps) : M!UrlOf(apps[i]) = u}
             k == CHOOSE x \in I : \A y \in I : x =< y
             front == SubSeq(apps, 1, k - 1)
             back == SubSeq(apps, k + 1, Len(apps))
  <2>0. Len(apps) \in Nat
    OBVIOUS
  <2>1. k \in I
    BY <1>2, <2>0, FirstOf
  <2>2. M!Without(apps, u) = front \o back
    BY <1>2, <2>1 DEF M!Without, M!RemoveFirstMatch, M!RemoveAt, M!SelectInSeq, M!Min
  <2>3. k \in 1..Len(apps) /\ M!UrlOf(apps[k]) = u
    BY <2>1
  <2> HIDE DEF k, I
  <2>4. /\ front \in Seq(Mounted) /\ Len(front) = k - 1
        /\ \A i \in 1..(k - 1) : front[i] = apps[i]
    <3>1. 1 \in Int /\ k - 1 \in Int /\ \A i \in 1..(k - 1) : apps[i] \in Mounted
      BY <2>0, <2>3
    <3>2. QED
      BY <2>3, <3>1, SubSeqProperties
  <2>5. /\ back \in Seq(Mounted) /\ Len(back) = Len(apps) - k
        /\ \A i \in 1..(Len(apps) - k) : back[i] = apps[k + i]
    <3>1. k + 1 \in Int /\ Len(apps) \in Int /\ \A i \in (k + 1)..Len(apps) : apps[i] \in Mounted
      BY <2>0, <2>3
    <3>2. /\ back \in Seq(Mounted)
          /\ Len(back) = IF k + 1 <= Len(apps) THEN Len(apps) - (k + 1) + 1 ELSE 0
          /\ \A i \in 1..(Len(apps) - (k + 1) + 1) : back[i] = apps[(k + 1) + i - 1]
      BY <3>1, SubSeqProperties
    <3> HIDE DEF back
    <3>3. Len(back) = Len(apps) - k
      BY <2>0, <2>3, <3>2
    <3>4. \A i \in 1..(Len(apps) - k) :
            i \in 1..(Len(apps) - (k + 1) + 1) /\ (k + 1) + i - 1 = k + i
      BY <2>0, <2>3
    <3>5. QED
      BY <3>2, <3>3, <3>4
  <2> HIDE DEF front, back
  <2>6. /\ front \o back \in Seq(Mounted) /\ Len(front \o back) = Len(front) + Len(back)
        /\ \A i \in 1..Len(front) + Len(back) :
              (front \o back)[i] = IF i <= Len(front) THEN front[i] ELSE back[i - Len(front)]
    BY <2>4, <2>5, ConcatProperties
  <2>7. Len(front) + Len(back) = Len(apps) - 1
    BY <2>0, <2>3, <2>4, <2>5
  <2>8. ASSUME NEW i \in 1..(Len(apps) - 1)
        PROVE  (front \o back)[i] = IF i < k THEN apps[i] ELSE apps[i + 1]
    <3>1. CASE i < k
      BY <2>0, <2>3, <2>4, <2>6, <2>7, <3>1
    <3>2. CASE ~(i < k)
      <4>1. /\ i - Len(front) \in 1..(Len(apps) - k) /\ k + (i - Len(front)) = i + 1
            /\ ~(i <= Len(front))
        BY <2>0, <2>3, <2>4, <3>2
      <4>2. (front \o back)[i] = back[i - Len(front)]
        BY <2>6, <2>7, <4>1
      <4>3. QED
        BY <2>5, <3>2, <4>1, <4>2
    <3>3. QED
      BY <3>1, <3>2
  <2>9. QED
    BY <2>2, <2>3, <2>6, <2>7, <2>8
<1>3. QED
  BY <1>1, <1>2

\* What passes is another list of the same entries but one.
LEMMA WithoutKeeps ==
    ASSUME NEW apps \in Seq(Mounted), Differ(apps), Sorted(apps), NEW u \in Urls,
           NEW m \in [Urls -> Apps \cup {None}], Holds(apps, m), NEW w, w = M!Without(apps, u)
    PROVE  /\ w \in Seq(Mounted) /\ Differ(w) /\ Sorted(w) /\ Holds(w, [m EXCEPT ![u] = None])
           /\ \A i \in DOMAIN w : M!UrlOf(w[i]) # u
<1>0. Len(apps) \in Nat /\ DOMAIN apps = 1..Len(apps)
  OBVIOUS
<1>1. CASE w = apps /\ \A i \in DOMAIN apps : M!UrlOf(apps[i]) # u
  BY <1>1 DEF Holds
<1>2. ASSUME NEW k \in 1..Len(apps), M!UrlOf(apps[k]) = u, w \in Seq(Mounted),
             Len(w) = Len(apps) - 1,
             \A i \in 1..(Len(apps) - 1) : w[i] = IF i < k THEN apps[i] ELSE apps[i + 1]
      PROVE  /\ Differ(w) /\ Sorted(w) /\ Holds(w, [m EXCEPT ![u] = None])
             /\ \A i \in DOMAIN w : M!UrlOf(w[i]) # u
  <2> DEFINE from(i) == IF i < k THEN i ELSE i + 1
             back(i) == IF i < k THEN i ELSE i - 1
  <2>1. DOMAIN w = 1..(Len(apps) - 1)
    BY <1>2
  <2>2. \A i \in DOMAIN w : from(i) \in DOMAIN apps /\ from(i) # k /\ w[i] = apps[from(i)]
    BY <1>0, <1>2, <2>1
  <2>3. \A i, j \in DOMAIN w : (i < j => from(i) < from(j)) /\ (from(i) = from(j) => i = j)
    BY <1>0, <2>1
  <2>4. \A i \in DOMAIN apps : i # k => back(i) \in DOMAIN w /\ from(back(i)) = i
    BY <1>0, <2>1
  <2>5. k \in DOMAIN apps
    BY <1>0
  <2> HIDE DEF from, back
  <2>6. Differ(w)
    BY <2>2, <2>3 DEF Differ
  <2>7. Sorted(w)
    BY <2>2, <2>3 DEF Sorted
  <2>8. \A i \in DOMAIN w : M!UrlOf(w[i]) # u
    BY <1>2, <2>2, <2>5 DEF Differ
  <2>9. ASSUME NEW i \in DOMAIN w
        PROVE  M!UrlOf(w[i]) \in Urls /\ [m EXCEPT ![u] = None][M!UrlOf(w[i])] = w[i].app
    <3>1. M!UrlOf(apps[from(i)]) \in Urls /\ m[M!UrlOf(apps[from(i)])] = apps[from(i)].app
      BY <2>2 DEF Holds
    <3>2. QED
      BY <3>1, <2>2, <2>8
  <2>10. ASSUME NEW v \in Urls, [m EXCEPT ![u] = None][v] # None
         PROVE  \E i \in DOMAIN w : M!UrlOf(w[i]) = v
    <3>1. v # u /\ m[v] # None
      BY <2>10
    <3>2. PICK i \in DOMAIN apps : M!UrlOf(apps[i]) = v
      BY <3>1 DEF Holds
    <3>3. back(i) \in DOMAIN w /\ from(back(i)) = i
      BY <1>2, <2>4, <3>1, <3>2
    <3>4. QED
      BY <2>2, <3>2, <3>3
  <2>11. QED
    BY <2>6, <2>7, <2>8, <2>9, <2>10 DEF Holds
<1>3. CASE w \in Seq(Mounted) /\ \E k \in 1..Len(apps) :
               /\ M!UrlOf(apps[k]) = u /\ Len(w) = Len(apps) - 1
               /\ \A i \in 1..(Len(apps) - 1) : w[i] = IF i < k THEN apps[i] ELSE apps[i + 1]
  BY <1>2, <1>3
<1>4. QED
  BY <1>1, <1>3, WithoutIs

\* A sorted list has the same entries.
LEMMA SortKeeps ==
    ASSUME NEW list \in Seq(Mounted), Differ(list), NEW s \in M!SortApps(list)
    PROVE  /\ s \in Seq(Mounted) /\ Differ(s) /\ Sorted(s)
           /\ \A i \in DOMAIN s : \E j \in DOMAIN list : s[i] = list[j]
           /\ \A j \in DOMAIN list : \E i \in DOMAIN s : s[i] = list[j]
<1>1. PICK n : n = Len(list)
  OBVIOUS
<1>2. n \in Nat /\ DOMAIN list = 1..n
  BY <1>1
<1>3. PICK order \in M!Orders(list) : s = [i \in 1..n |-> list[order[i]]]
  BY <1>2 DEF M!SortApps
<1>4. /\ order \in [1..n -> 1..n]
      /\ \A i, j \in 1..n :
            i < j => order[i] # order[j] /\ ~M!Before(list[order[j]], list[order[i]])
  BY <1>2, <1>3 DEF M!Orders
<1>5. \A i, j \in 1..n : order[i] = order[j] => i = j
  BY <1>2, <1>4
<1>6. \A j \in 1..n : \E i \in 1..n : order[i] = j
  <2>1. order \in Injection(1..n, 1..n)
    BY <1>4, <1>5 DEF Injection, IsInjective
  <2>2. IsFiniteSet(1..n)
    BY <1>2, FS_Interval
  <2>3. order \in Surjection(1..n, 1..n)
    BY <2>1, <2>2, FS_Injection
  <2>4. QED
    BY <2>3 DEF Surjection
<1>7. \A i \in 1..n : s[i] = list[order[i]] /\ list[order[i]] \in Mounted /\ order[i] \in 1..n
  BY <1>2, <1>3, <1>4
<1>8. s \in [1..n -> Mounted]
  BY <1>3, <1>7
<1>9. s \in Seq(Mounted) /\ DOMAIN s = 1..n
  BY <1>2, <1>8
<1>10. Differ(s)
  BY <1>2, <1>5, <1>7, <1>9 DEF Differ
<1>11. Sorted(s)
  BY <1>4, <1>7, <1>9 DEF Sorted
<1>12. \A i \in DOMAIN s : \E j \in DOMAIN list : s[i] = list[j]
  BY <1>2, <1>7, <1>9
<1>13. ASSUME NEW j \in DOMAIN list PROVE \E i \in DOMAIN s : s[i] = list[j]
  <2>1. PICK i \in 1..n : order[i] = j
    BY <1>2, <1>6
  <2>2. QED
    BY <1>7, <1>9, <2>1
<1>14. QED
  BY <1>9, <1>10, <1>11, <1>12, <1>13

LEMMA SetItemKeeps ==
    ASSUME UrlMapAssumed, UrlMapInv, NEW key \in Keys, NEW app \in Apps, M!SetItem(key, app)
    PROVE  UrlMapInv'
<1> DEFINE u == M!NormalUrl(key)
           e == [domain |-> u.domain, url |-> u.url, app |-> app]
<1>1. u \in Urls
  BY DEF Urls
<1>2. e \in Mounted /\ M!UrlOf(e) = u /\ e.app = app
  <2>1. e \in Mounted
    BY <1>1 DEF Mounted
  <2>2. M!UrlOf(e) = u
    BY <1>1, UrlOfKey DEF M!UrlOf
  <2>3. QED
    BY <2>1, <2>2
<1> HIDE DEF u
<1>3. PICK w : w = M!Without(applications, u)
  OBVIOUS
<1>4. applications' \in M!SortApps(Append(w, e)) /\ mapping' = [mapping EXCEPT ![u] = app]
  BY <1>3 DEF M!SetItem, u
<1> HIDE DEF e
<1>5. /\ w \in Seq(Mounted) /\ Differ(w) /\ Holds(w, [mapping EXCEPT ![u] = None])
      /\ \A i \in DOMAIN w : M!UrlOf(w[i]) # u
  BY <1>1, <1>3, WithoutKeeps DEF UrlMapInv
<1>6. PICK list : list = Append(w, e)
  OBVIOUS
<1>7. /\ list \in Seq(Mounted) /\ DOMAIN list = 1..(Len(w) + 1)
      /\ Len(w) \in Nat /\ DOMAIN w = 1..Len(w)
      /\ \A i \in DOMAIN w : list[i] = w[i] 
      /\ list[Len(w) + 1] = e
  BY <1>2, <1>5, <1>6
<1>8. \A i \in DOMAIN list : i \in DOMAIN w \/ i = Len(w) + 1
  BY <1>7
<1>9. Differ(list)
  BY <1>2, <1>5, <1>7, <1>8 DEF Differ
<1>10. mapping \in [Urls -> Apps \cup {None}]
  BY DEF UrlMapInv
<1>11. Holds(list, mapping')
  <2>1. ASSUME NEW i \in DOMAIN list
        PROVE  M!UrlOf(list[i]) \in Urls /\ mapping'[M!UrlOf(list[i])] = list[i].app
    <3>1. CASE i \in DOMAIN w
      BY <1>4, <1>5, <1>7, <1>10, <3>1 DEF Holds
    <3>2. CASE i = Len(w) + 1
      BY <1>1, <1>2, <1>4, <1>7, <1>10, <3>2
    <3>3. QED
      BY <1>8, <3>1, <3>2
  <2>2. ASSUME NEW v \in Urls, mapping'[v] # None PROVE \E i \in DOMAIN list : M!UrlOf(list[i]) = v
    <3>1. CASE v = u
      BY <1>2, <1>7, <3>1
    <3>2. CASE v # u
      <4>1. [mapping EXCEPT ![u] = None][v] # None
        BY <1>4, <1>10, <2>2, <3>2
      <4>2. PICK i \in DOMAIN w : M!UrlOf(w[i]) = v
        BY <1>5, <4>1 DEF Holds
      <4>3. i \in DOMAIN list
        BY <1>7
      <4>4. QED
        BY <1>7, <4>2, <4>3
    <3>3. QED
      BY <3>1, <3>2
  <2>3. QED
    BY <2>1, <2>2 DEF Holds
<1>12. /\ applications' \in Seq(Mounted) /\ Differ(applications') /\ Sorted(applications')
       /\ \A i \in DOMAIN applications' : \E j \in DOMAIN list : applications'[i] = list[j]
       /\ \A j \in DOMAIN list : \E i \in DOMAIN applications' : applications'[i] = list[j]
  BY <1>4, <1>6, <1>7, <1>9, SortKeeps
<1>13. Holds(applications', mapping')
  <2>1. ASSUME NEW v \in Urls, mapping'[v] # None
        PROVE  \E i \in DOMAIN applications' : M!UrlOf(applications'[i]) = v
    <3>1. PICK j \in DOMAIN list : M!UrlOf(list[j]) = v
      BY <1>11, <2>1 DEF Holds
    <3>2. QED
      BY <1>12, <3>1
  <2>2. QED
    BY <1>11, <1>12, <2>1 DEF Holds
<1>14. mapping' \in [Urls -> Apps \cup {None}]
  BY <1>4, <1>10
<1>15. QED
  BY <1>12, <1>13, <1>14 DEF UrlMapInv

LEMMA DelItemKeeps ==
    ASSUME UrlMapInv, NEW key \in Keys, M!DelItem(key) PROVE UrlMapInv'
<1> DEFINE u == M!NormalUrl(key)
<1>1. u \in Urls
  BY DEF Urls
<1>2. applications' = M!Without(applications, u) /\ mapping' = [mapping EXCEPT ![u] = None]
  BY DEF M!DelItem
<1> HIDE DEF u
<1>3. /\ applications' \in Seq(Mounted) /\ Differ(applications') /\ Sorted(applications')
      /\ Holds(applications', [mapping EXCEPT ![u] = None])
  BY <1>1, <1>2, WithoutKeeps DEF UrlMapInv
<1>4. mapping' \in [Urls -> Apps \cup {None}]
  BY <1>2 DEF UrlMapInv
<1>5. QED
  BY <1>2, <1>3, <1>4 DEF UrlMapInv

LEMMA UrlMapStep ==
    ASSUME UrlMapAssumed, UrlMapInv, [M!UrlMapNext]_urlmapVars PROVE UrlMapInv'
<1>1. CASE UNCHANGED urlmapVars
  BY <1>1 DEF urlmapVars, UrlMapInv
<1>2. CASE M!UrlMapNext
  BY <1>2, SetItemKeeps, DelItemKeeps DEF M!UrlMapNext
<1>3. QED
  BY <1>1, <1>2

\* The first that matches is the most specific.
LEMMA UrlMapInvGives == ASSUME UrlMapAssumed, UrlMapInv PROVE M!MostSpecificAnswers
<1> SUFFICES ASSUME NEW req \in Requests
             PROVE  LET d == M!Dispatched(req)  u == [domain |-> d.domain, url |-> d.script_name]
                    IN  IF d.app = None THEN M!Candidates(req) = {}
                        ELSE /\ u \in M!Candidates(req) /\ mapping[u] = d.app
                             /\ d.script_name \o d.path_info = M!NormalPath(req.path, FALSE)
                             /\ \A c \in M!Candidates(req) :
                                   /\ c.domain = d.domain => Len(c.url) <= Len(d.script_name)
                                   /\ d.domain = None => c.domain = None
  BY DEF M!MostSpecificAnswers
<1> DEFINE I == {i \in 1..Len(applications) : M!Matches(applications[i], req)}
           k == CHOOSE x \in I : \A y \in I : x =< y
<1>1. PICK path : path = M!NormalPath(req.path, FALSE)
  OBVIOUS
<1>2. IsSeq(path)
  BY <1>1, NormalIsSeq DEF UrlMapAssumed
<1>3. /\ applications \in Seq(Mounted) /\ DOMAIN applications = 1..Len(applications)
      /\ Len(applications) \in Nat
      /\ mapping \in [Urls -> Apps \cup {None}] /\ DOMAIN mapping = Urls
      /\ Sorted(applications) /\ Holds(applications, mapping)
  BY DEF UrlMapInv
\* An entry for each candidate.
<1>4. ASSUME NEW c \in M!Candidates(req)
      PROVE  \E j \in I : applications[j].domain = c.domain /\ applications[j].url = c.url
  <2>1. c \in Urls /\ mapping[c] # None /\ M!Matches(c, req)
    BY <1>3 DEF M!Candidates
  <2>2. PICK j \in DOMAIN applications : M!UrlOf(applications[j]) = c
    BY <1>3, <2>1 DEF Holds
  <2>3. applications[j].domain = c.domain /\ applications[j].url = c.url
    BY <2>2 DEF M!UrlOf
  <2>4. M!Matches(applications[j], req)
    BY <2>1, <2>3 DEF M!Matches, M!DomainMatches
  <2>5. QED
    BY <1>3, <2>3, <2>4
<1>5. CASE I = {}
  <2>1. M!Dispatched(req).app = None
    BY <1>5 DEF M!Dispatched, M!SelectInSeq
  <2>2. M!Candidates(req) = {}
    BY <1>4, <1>5
  <2>3. QED
    BY <2>1, <2>2
<1>6. CASE I # {}
  <2>1. k \in I /\ \A y \in I : k =< y
    BY <1>3, <1>6, FirstOf
  <2>2. M!SelectInSeq(applications, LAMBDA entry : M!Matches(entry, req)) = k
    BY <1>6 DEF M!SelectInSeq, M!Min
  <2>3. k \in DOMAIN applications /\ k # 0 /\ M!Matches(applications[k], req)
    BY <1>3, <2>1
  <2> DEFINE e == applications[k]
  <2>4. M!Dispatched(req) =
            [app |-> e.app, domain |-> e.domain, script_name |-> e.url,
             path_info |-> SubSeq(path, Len(e.url) + 1, Len(path))]
    BY <1>1, <2>2, <2>3 DEF M!Dispatched
  <2> HIDE DEF k, I
  <2>5. e \in Mounted /\ e.app \in Apps
    <3>1. e \in Mounted
      BY <1>3, <2>3
    <3>2. QED
      BY <3>1 DEF Mounted
  <2>6. Len(e.url) \in Nat /\ IsSeq(e.url)
    BY <2>5, MountedUrl
  <2>7. /\ M!UrlOf(e) = [domain |-> e.domain, url |-> e.url]
        /\ M!UrlOf(e) \in Urls /\ mapping[M!UrlOf(e)] = e.app
    BY <1>3, <2>3 DEF Holds, M!UrlOf
  <2>8. M!Matches(M!UrlOf(e), req)
    <3>1. PICK u : u = M!UrlOf(e)
      OBVIOUS
    <3>2. u.domain = e.domain /\ u.url = e.url
      BY <2>7, <3>1
    <3>3. M!Matches(u, req)
      BY <2>3, <3>2 DEF M!Matches, M!DomainMatches
    <3>4. QED
      BY <3>1, <3>3
  <2>9. e.app # None
    BY <2>5 DEF UrlMapAssumed
  <2>10. M!UrlOf(e) \in M!Candidates(req)
    BY <1>3, <2>7, <2>8, <2>9 DEF M!Candidates
  <2>11. e.url \o SubSeq(path, Len(e.url) + 1, Len(path)) = path
    <3>1. Len(e.url) <= Len(path) /\ SubSeq(e.url, 1, Len(e.url)) = SubSeq(path, 1, Len(e.url))
      BY <1>1, <2>3 DEF M!Matches, M!IsPrefix
    <3>2. e.url = SubSeq(path, 1, Len(e.url))
      BY <2>6, <3>1, IsSeqFacts
    <3>3. QED
      <4>1. PICK n : n = Len(e.url)
        OBVIOUS
      <4>2. n \in 0..Len(path)
        BY <1>2, <2>6, <3>1, <4>1, IsSeqFacts
      <4>3. SubSeq(path, 1, n) \o SubSeq(path, n + 1, Len(path)) = path
        BY <1>2, <4>2, SplitAt
      <4>4. QED
        BY <3>2, <4>1, <4>3
  <2>12. ASSUME NEW c \in M!Candidates(req)
         PROVE  /\ c.domain = e.domain => Len(c.url) <= Len(e.url)
                /\ e.domain = None => c.domain = None
    <3>1. PICK j \in I : applications[j].domain = c.domain /\ applications[j].url = c.url
      BY <1>4
    <3>2. j \in DOMAIN applications /\ k =< j
      BY <1>3, <2>1, <3>1 DEF I
    <3>3. Len(c.url) \in Nat
      BY <1>3, <3>1, <3>2, MountedUrl
    <3>4. CASE j = k
      BY <2>6, <3>1, <3>3, <3>4
    <3>5. CASE k < j
      <4>1. ~M!Before(applications[j], e)
        BY <1>3, <2>3, <3>2, <3>5 DEF Sorted
      <4>2. QED
        BY <2>6, <3>1, <3>3, <4>1 DEF M!Before
    <3>6. QED
      BY <1>3, <2>3, <3>2, <3>4, <3>5
  <2>13. PICK d : d = M!Dispatched(req)
    OBVIOUS
  <2>14. /\ d.app = e.app /\ d.domain = e.domain /\ d.script_name = e.url
         /\ d.path_info = SubSeq(path, Len(e.url) + 1, Len(path))
    BY <2>4, <2>13
  <2>15. [domain |-> d.domain, url |-> d.script_name] = M!UrlOf(e)
    BY <2>7, <2>14
  <2>16. /\ M!UrlOf(e) \in M!Candidates(req) /\ mapping[M!UrlOf(e)] = d.app
         /\ d.script_name \o d.path_info = path /\ d.app # None
    BY <2>7, <2>9, <2>10, <2>11, <2>14
  <2>17. QED
    BY <1>1, <2>12, <2>13, <2>14, <2>15, <2>16
<1>7. QED
  BY <1>5, <1>6

Modules == [page : PageFiles, state : {"running", "failed", "done"}]
Doings ==
    [step : {"load", "again", "run", "find", "served", "notfound"}, page : PageFiles, module : Nat]

PagesTyped ==
    /\ made \in Seq(Modules)
    /\ at \in [PagesThread -> {G!Idle} \cup Doings]

\* A module is stored under a name without dots.
StoredByLastName ==
    \A name \in DOMAIN sysModules : Len(name) = 1 /\ sysModules[name] \in 1..Len(made)

\* Whether a module of a sequence is that of the page a thread is asked for.
HoldsModule(job, modules, state) ==
    job.module \in 1..Len(modules) /\ modules[job.module] = [page |-> job.page, state |-> state]

\* Who runs a module made it for its page.
RunsModule(job, modules) == job.step = "run" => HoldsModule(job, modules, "running")

\* And nobody else runs it.
RunApart(one, other) == one.step = "run" /\ other.step = "run" => one.module # other.module

\* The module that was found for a page in a package, if there is one, is that of the page.
InPackage(b, page) == Len(b \o page.dir \o <<page.name>>) > 1
FoundOwn(b, job, modules) ==
    job.step \in {"find", "served", "notfound"} /\ InPackage(b, job.page) =>
        \/ job.step # "served" /\ job.module = G!NoModule
        \/ HoldsModule(job, modules, "done")

RunsItsOwn ==
    /\ \A t \in PagesThread : RunsModule(at[t], made)
    /\ \A t, u \in PagesThread : t # u => RunApart(at[t], at[u])
FoundIsOwn == \A t \in PagesThread : FoundOwn(base, at[t], made)

PagesInv == PagesTyped /\ StoredByLastName /\ RunsItsOwn /\ FoundIsOwn

-----------------------------------------------------------------------------

\* A step of a thread that does not begin to run a module, and leaves all of them as
\* they are, keeps the invariant if it does for what the thread has found.
LEMMA StepElsewhere ==
    ASSUME PagesInv, NEW t \in PagesThread, NEW job \in {G!Idle} \cup Doings,
           at' = [at EXCEPT ![t] = job], UNCHANGED <<base, made, sysModules>>,
           job.step # "run", FoundOwn(base, job, made)
    PROVE  PagesInv'
<1>1. /\ at' \in [PagesThread -> {G!Idle} \cup Doings] /\ at'[t] = job
      /\ \A u \in PagesThread \ {t} : at'[u] = at[u]
  BY DEF PagesInv, PagesTyped
<1>2. PagesTyped' /\ StoredByLastName'
  BY <1>1 DEF PagesInv, PagesTyped, StoredByLastName
<1>3. RunsItsOwn'
  <2>1. \A u \in PagesThread : RunsModule(at'[u], made)
    BY <1>1 DEF PagesInv, RunsItsOwn, RunsModule
  <2>2. \A u, v \in PagesThread : u # v => RunApart(at'[u], at'[v])
    BY <1>1 DEF PagesInv, RunsItsOwn, RunApart
  <2> QED BY <2>1, <2>2 DEF RunsItsOwn
<1>4. FoundIsOwn'
  <2>1. \A u \in PagesThread : FoundOwn(base, at'[u], made)
    BY <1>1 DEF PagesInv, FoundIsOwn
  <2> QED BY <2>1 DEF FoundIsOwn
<1> QED BY <1>2, <1>3, <1>4 DEF PagesInv

-----------------------------------------------------------------------------

LEMMA PagesInitHolds == G!PagesInit => PagesInv
<1> SUFFICES ASSUME G!PagesInit PROVE PagesInv
  OBVIOUS
<1>1. at = [t \in PagesThread |-> G!Idle] /\ made = <<>> /\ sysModules = << >>
  BY DEF G!PagesInit
<1>2. PagesTyped /\ StoredByLastName
  BY <1>1 DEF PagesTyped, StoredByLastName
<1>3. \A t \in PagesThread : at[t].step = "idle"
  BY <1>1 DEF G!Idle
<1>4. RunsItsOwn /\ FoundIsOwn
  BY <1>3 DEF RunsItsOwn, FoundIsOwn, RunsModule, RunApart, FoundOwn
<1> QED BY <1>2, <1>4 DEF PagesInv

LEMMA RequestKeeps ==
    ASSUME PagesInv, NEW t \in PagesThread, NEW page \in PageFiles, G!Request(t, page)
    PROVE  PagesInv'
<1> DEFINE job == [step |-> "load", page |-> page, module |-> G!NoModule]
<1>1. job \in Doings /\ job.step # "run" /\ FoundOwn(base, job, made)
  BY DEF Doings, G!NoModule, FoundOwn
<1>2. at' = [at EXCEPT ![t] = job] /\ UNCHANGED <<base, made, sysModules>>
  BY DEF G!Request
<1> QED BY <1>1, <1>2, StepElsewhere

\* A thread that is asked for a page.
LEMMA AskedFor ==
    ASSUME PagesInv, NEW t \in PagesThread, at[t].step # "idle"
    PROVE  at[t] \in Doings
BY DEF PagesInv, PagesTyped, G!Idle

\* What is found for a page in a package is not looked up, as its name has a dot.
LEMMA NotStored ==
    ASSUME PagesInv, NEW page, InPackage(base, page)
    PROVE  G!ModuleName(page) \notin DOMAIN sysModules
<1>1. PICK stored : stored = G!ModuleName(page)
  OBVIOUS
<1>2. Len(stored) > 1
  BY <1>1, Zenon DEF InPackage, G!ModuleName
<1>3. \A name \in DOMAIN sysModules : Len(name) = 1
  BY DEF PagesInv, StoredByLastName
<1>4. stored \notin DOMAIN sysModules
  BY <1>2, <1>3
<1> QED BY <1>1, <1>4

LEMMA LoadKeeps ==
    ASSUME PagesInv, NEW t \in PagesThread, G!Load(t)
    PROVE  PagesInv'
<1>1. at[t].step = "load" /\ at[t] \in Doings /\ UNCHANGED <<base, made, sysModules>>
  BY AskedFor DEF G!Load
<1> DEFINE found(m) == [at[t] EXCEPT !.step = "find", !.module = m]
           again == [at[t] EXCEPT !.step = "again"]
           name == G!ModuleName(at[t].page)
<1>2. CASE name \in DOMAIN sysModules /\ at' = [at EXCEPT ![t] = found(sysModules[name])]
  <2>1. sysModules[name] \in Nat /\ ~InPackage(base, at[t].page)
    BY <1>2, NotStored DEF PagesInv, StoredByLastName
  <2>2. found(sysModules[name]) \in Doings /\ found(sysModules[name]).step = "find"
        /\ found(sysModules[name]).page = at[t].page
    BY <1>1, <2>1 DEF Doings
  <2>3. FoundOwn(base, found(sysModules[name]), made)
    BY <2>1, <2>2 DEF FoundOwn
  <2> QED BY <1>1, <1>2, <2>2, <2>3, StepElsewhere
<1>3. CASE at' = [at EXCEPT ![t] = found(G!NoModule)]
  <2>1. /\ found(G!NoModule) \in Doings
        /\ found(G!NoModule).step = "find" /\ found(G!NoModule).module = G!NoModule
    BY <1>1 DEF Doings, G!NoModule
  <2>2. FoundOwn(base, found(G!NoModule), made)
    BY <2>1 DEF FoundOwn
  <2> QED BY <1>1, <1>3, <2>1, <2>2, StepElsewhere
<1>4. CASE at' = [at EXCEPT ![t] = again]
  <2>1. again \in Doings /\ again.step = "again"
    BY <1>1 DEF Doings
  <2>2. FoundOwn(base, again, made)
    BY <2>1 DEF FoundOwn
  <2> QED BY <1>1, <1>4, <2>1, <2>2, StepElsewhere
<1>5. at[t] \in Doings /\ at \in [PagesThread -> {G!Idle} \cup Doings]
  BY <1>1 DEF PagesInv, PagesTyped
<1>6. \/ name \in DOMAIN sysModules /\ at' = [at EXCEPT ![t] = found(sysModules[name])]
      \/ at' = [at EXCEPT ![t] = found(G!NoModule)]
      \/ at' = [at EXCEPT ![t] = again]
  BY DEF G!Load, G!Has
<1> QED BY <1>2, <1>3, <1>4, <1>6

\* A module that is made and stored: nobody has it yet, and what is in place stays.
LEMMA MakeKeeps ==
    ASSUME PagesInv, NEW t \in PagesThread, NEW job \in Doings,
           at' = [at EXCEPT ![t] = job], job.step = "run", job.module = Len(made) + 1,
           made' = Append(made, [page |-> job.page, state |-> "running"]),
           base' = base,
           \A name \in DOMAIN sysModules' :
               \/ Len(name) = 1 /\ sysModules'[name] = Len(made')
               \/ name \in DOMAIN sysModules /\ sysModules'[name] = sysModules[name]
    PROVE  PagesInv'
<1>1. /\ at' \in [PagesThread -> {G!Idle} \cup Doings] /\ at'[t] = job
      /\ \A u \in PagesThread \ {t} : at'[u] = at[u]
  BY DEF PagesInv, PagesTyped
<1>2. [page |-> job.page, state |-> "running"] \in Modules
  BY DEF Doings, Modules
<1>3. /\ made' \in Seq(Modules) /\ Len(made') = Len(made) + 1 /\ Len(made) \in Nat
      /\ made'[Len(made) + 1] = [page |-> job.page, state |-> "running"]
      /\ \A m \in 1..Len(made) : made'[m] = made[m]
  BY <1>2 DEF PagesInv, PagesTyped
<1>4. PagesTyped' /\ StoredByLastName'
  BY <1>1, <1>3 DEF PagesInv, PagesTyped, StoredByLastName
<1>5. RunsItsOwn'
  <2>1. \A u \in PagesThread : RunsModule(at'[u], made')
    BY <1>1, <1>3 DEF PagesInv, RunsItsOwn, RunsModule, HoldsModule
  <2>2. \A u \in PagesThread \ {t} : at[u].step = "run" => at[u].module \in 1..Len(made)
    BY DEF PagesInv, RunsItsOwn, RunsModule, HoldsModule
  <2>3. \A u, v \in PagesThread : u # v => RunApart(at'[u], at'[v])
    BY <1>1, <1>3, <2>2 DEF PagesInv, RunsItsOwn, RunApart
  <2> QED BY <2>1, <2>3 DEF RunsItsOwn
<1>6. FoundIsOwn'
  <2>1. \A u \in PagesThread : FoundOwn(base, at'[u], made')
    BY <1>1, <1>3 DEF PagesInv, FoundIsOwn, FoundOwn, HoldsModule
  <2> QED BY <2>1 DEF FoundIsOwn
<1> QED BY <1>4, <1>5, <1>6 DEF PagesInv

LEMMA StoreKeeps ==
    ASSUME PagesInv, NEW t \in PagesThread, G!Store(t)
    PROVE  PagesInv'
<1> DEFINE page == at[t].page
           name == G!ModuleName(page)
           found == [at[t] EXCEPT !.step = "find", !.module = sysModules[name]]
           runs == [at[t] EXCEPT !.step = "run", !.module = Len(made')]
<1>1. at[t].step = "again" /\ at[t] \in Doings /\ base' = base
  BY AskedFor DEF G!Store
<1>2. CASE name \in DOMAIN sysModules
  <2>1. at' = [at EXCEPT ![t] = found] /\ UNCHANGED <<base, made, sysModules>>
    <3>1. at' = [at EXCEPT ![t].step = "find", ![t].module = sysModules[name]]
          /\ UNCHANGED <<base, made, sysModules>>
      BY <1>2 DEF G!Store, G!Has
    <3> QED BY <3>1 DEF PagesInv, PagesTyped
  <2>2. sysModules[name] \in Nat /\ ~InPackage(base, page)
    BY <1>2, NotStored DEF PagesInv, StoredByLastName
  <2>3. found \in Doings /\ found.step = "find" /\ found.page = page
    BY <1>1, <2>2 DEF Doings
  <2>4. FoundOwn(base, found, made)
    BY <2>2, <2>3 DEF FoundOwn
  <2> QED BY <2>1, <2>3, <2>4, StepElsewhere
<1>3. CASE name \notin DOMAIN sysModules
  <2>1. /\ made' = Append(made, [page |-> page, state |-> "running"])
        /\ sysModules' = [n \in DOMAIN sysModules \cup {<<page.name>>} |->
                              IF n = <<page.name>> THEN Len(made') ELSE sysModules[n]]
        /\ at' = [at EXCEPT ![t].step = "run", ![t].module = Len(made')]
    BY <1>3 DEF G!Store
  <2>2. at' = [at EXCEPT ![t] = runs]
    BY <2>1 DEF PagesInv, PagesTyped
  <2>3. Len(made') = Len(made) + 1 /\ Len(made') \in Nat
    <3>1. [page |-> page, state |-> "running"] \in Modules
      BY <1>1 DEF Doings, Modules
    <3> QED BY <2>1, <3>1 DEF PagesInv, PagesTyped
  <2>4. runs \in Doings /\ runs.step = "run" /\ runs.module = Len(made) + 1 /\ runs.page = page
    BY <1>1, <2>3 DEF Doings
  <2>5. \A n \in DOMAIN sysModules' :
            \/ Len(n) = 1 /\ sysModules'[n] = Len(made')
            \/ n \in DOMAIN sysModules /\ sysModules'[n] = sysModules[n]
    <3>1. Len(<<page.name>>) = 1
      OBVIOUS
    <3> QED BY <2>1, <3>1
  <2> QED BY <1>1, <2>1, <2>2, <2>4, <2>5, MakeKeeps
<1> QED BY <1>2, <1>3

LEMMA RunKeeps ==
    ASSUME PagesInv, NEW t \in PagesThread, G!Run(t)
    PROVE  PagesInv'
<1> DEFINE page == at[t].page
           m == at[t].module
           state == IF page \in Broken THEN "failed" ELSE "done"
           job == IF page \in Broken THEN G!Idle ELSE [at[t] EXCEPT !.step = "find"]
<1>1. at[t].step = "run" /\ at[t] \in Doings /\ UNCHANGED <<base, sysModules>>
  BY AskedFor DEF G!Run
<1>2. m \in 1..Len(made) /\ made[m] = [page |-> page, state |-> "running"]
  BY <1>1 DEF PagesInv, RunsItsOwn, RunsModule, HoldsModule
<1>3. at' = [at EXCEPT ![t] = job] /\ made' = [made EXCEPT ![m] = [page |-> page, state |-> state]]
  <2>1. /\ at' = [at EXCEPT ![t] = IF page \in Broken THEN G!Idle
                                    ELSE [at[t] EXCEPT !.step = "find"]]
        /\ made' = [made EXCEPT ![m].state = state]
    BY DEF G!Run
  <2>2. [made[m] EXCEPT !.state = state] = [page |-> page, state |-> state]
    BY <1>2
  <2> QED BY <2>1, <2>2, <1>2 DEF PagesInv, PagesTyped
<1>4. [page |-> page, state |-> state] \in Modules
  BY <1>1 DEF Doings, Modules
<1>5. /\ made' \in Seq(Modules) /\ Len(made') = Len(made)
      /\ made'[m] = [page |-> page, state |-> state]
      /\ \A n \in 1..Len(made) \ {m} : made'[n] = made[n]
  BY <1>2, <1>3, <1>4 DEF PagesInv, PagesTyped
<1>6. /\ job \in {G!Idle} \cup Doings
      /\ job = G!Idle \/ (page \notin Broken /\ job.step = "find" /\ job.page = page /\ job.module = m)
  BY <1>1 DEF Doings
<1>7. /\ at' \in [PagesThread -> {G!Idle} \cup Doings] /\ at'[t] = job
      /\ \A u \in PagesThread \ {t} : at'[u] = at[u]
  BY <1>3, <1>6 DEF PagesInv, PagesTyped
<1>8. PagesTyped' /\ StoredByLastName'
  BY <1>1, <1>5, <1>7 DEF PagesInv, PagesTyped, StoredByLastName
<1>9. \A u \in PagesThread \ {t} : at[u].step = "run" => at[u].module # m
  BY <1>1 DEF PagesInv, RunsItsOwn, RunApart
<1>10. G!Idle.step = "idle" /\ job.step # "run"
  BY <1>6 DEF G!Idle
<1>11. RunsItsOwn'
  <2>1. \A u \in PagesThread : RunsModule(at'[u], made')
    <3>1. RunsModule(job, made')
      BY <1>10 DEF RunsModule
    <3>2. ASSUME NEW u \in PagesThread \ {t}, at[u].step = "run"
          PROVE  HoldsModule(at[u], made', "running")
      <4>1. HoldsModule(at[u], made, "running") /\ at[u].module # m
        BY <1>9, <3>2 DEF PagesInv, RunsItsOwn, RunsModule
      <4> HIDE DEF m
      <4> QED BY <1>5, <4>1 DEF HoldsModule
    <3> QED BY <1>7, <3>1, <3>2 DEF RunsModule
  <2>2. \A u, v \in PagesThread : u # v => RunApart(at'[u], at'[v])
    <3> HIDE DEF job
    <3>1. ASSUME NEW u \in PagesThread, NEW v \in PagesThread, u # v
          PROVE  RunApart(at'[u], at'[v])
      <4>1. CASE u = t \/ v = t
        BY <1>7, <1>10, <4>1 DEF RunApart
      <4>2. CASE u # t /\ v # t
        BY <1>7, <4>2, <3>1 DEF PagesInv, RunsItsOwn
      <4> QED BY <4>1, <4>2
    <3> QED BY <3>1
  <2> QED BY <2>1, <2>2 DEF RunsItsOwn
<1>12. FoundIsOwn'
  <2>1. FoundOwn(base, job, made')
    BY <1>2, <1>5, <1>6, <1>10 DEF FoundOwn, HoldsModule
  <2>2. ASSUME NEW u \in PagesThread \ {t}
        PROVE  FoundOwn(base, at[u], made')
    <3>1. at[u].module \in 1..Len(made) /\ made[at[u].module] = [page |-> at[u].page, state |-> "done"]
             => at[u].module # m
      BY <1>2
    <3> QED BY <1>5, <3>1 DEF PagesInv, FoundIsOwn, FoundOwn, HoldsModule
  <2> QED BY <1>1, <1>7, <2>1, <2>2 DEF FoundIsOwn
<1> QED BY <1>8, <1>11, <1>12 DEF PagesInv

\* make_py: nothing is served where nothing was found.
LEMMA FindKeeps ==
    ASSUME PagesInv, NEW t \in PagesThread, G!Find(t)
    PROVE  PagesInv'
<1>1. at[t].step = "find" /\ at[t] \in Doings /\ UNCHANGED <<base, made, sysModules>>
  BY AskedFor DEF G!Find
<1> DEFINE job(step) == [at[t] EXCEPT !.step = step]
<1>2. ASSUME NEW step \in {"served", "notfound"}, at' = [at EXCEPT ![t].step = step],
             step = "served" => at[t].module # G!NoModule
      PROVE  PagesInv'
  <2>1. at' = [at EXCEPT ![t] = job(step)]
    BY <1>2 DEF PagesInv, PagesTyped
  <2>2. /\ job(step) \in Doings /\ job(step).step = step
        /\ job(step).page = at[t].page /\ job(step).module = at[t].module
    BY <1>1 DEF Doings
  <2>3. FoundOwn(base, job(step), made)
    BY <1>1, <1>2, <2>2 DEF PagesInv, FoundIsOwn, FoundOwn, HoldsModule
  <2> QED BY <1>1, <2>1, <2>2, <2>3, StepElsewhere
<1> QED BY <1>2 DEF G!Find

LEMMA AnswerKeeps ==
    ASSUME PagesInv, NEW t \in PagesThread, G!Answer(t)
    PROVE  PagesInv'
<1>1. G!Idle.step = "idle" /\ FoundOwn(base, G!Idle, made)
  BY DEF G!Idle, FoundOwn
<1> QED BY <1>1, StepElsewhere DEF G!Answer

LEMMA PagesStep == ASSUME PagesInv, [G!PagesNext]_pagesVars PROVE PagesInv'
<1>1. CASE UNCHANGED pagesVars
  BY <1>1 DEF pagesVars, PagesInv, PagesTyped, StoredByLastName, RunsItsOwn, FoundIsOwn
<1>2. CASE G!PagesNext
  BY <1>2, RequestKeeps, LoadKeeps, StoreKeeps, RunKeeps, FindKeeps, AnswerKeeps DEF G!PagesNext
<1> QED BY <1>1, <1>2

LEMMA PagesInvGives == ASSUME PagesInv PROVE G!OwnPageAnswers
<1> SUFFICES ASSUME NEW t \in PagesThread,
                    at[t].step = "served", Len(G!ModuleName(at[t].page)) > 1
             PROVE  made[at[t].module] = [page |-> at[t].page, state |-> "done"]
  BY DEF G!OwnPageAnswers
<1>1. InPackage(base, at[t].page)
  BY Zenon DEF InPackage, G!ModuleName
<1> QED BY <1>1 DEF PagesInv, FoundIsOwn, FoundOwn, HoldsModule

\* However many threads load the modules of pages, and whatever names the pages share, a
\* page in a package is answered by the module made from its own file, run to its end
\* (urlparser.py 365-418).
THEOREM OwnPagesAnswer == Spec => [](component = "pages" => G!OwnPageAnswers)
<1> DEFINE Inv == component = "pages" => PagesInv
<1>1. Init => Inv
  BY OneStarts, PagesInitHolds
<1>2. Inv /\ [Next]_vars => Inv'
  BY OneComponent, PagesStep
<1>3. Inv => (component = "pages" => G!OwnPageAnswers)
  BY PagesInvGives
<1>4. QED
  BY <1>1, <1>2, <1>3, PTL DEF Spec

\* Whatever was set, replaced and deleted in whichever order, a request goes to the
\* application last set for the most specific URL that matches it (urlmap.py 72-88); and a
\* page is answered as above.
THEOREM MostSpecificAlways == Spec => []MostSpecificAnswers
<1> DEFINE Inv == component = "urlmap" => UrlMapInv
<1>1. Init => Inv
  BY OneStarts, UrlMapInitHolds
<1>2. Inv /\ [Next]_vars => Inv'
  BY OneComponent, RoutingAssumption, UrlMapStep
<1>3. Inv /\ (component = "pages" => G!OwnPageAnswers) => MostSpecificAnswers
  BY RoutingAssumption, UrlMapInvGives DEF MostSpecificAnswers
<1>4. QED
  BY <1>1, <1>2, <1>3, OwnPagesAnswer, PTL DEF Spec

-----------------------------------------------------------------------------
(* UrlParser: SCRIPT_NAME and PATH_INFO are the path that came in.           *)

LEMMA ConcatIsSeq ==
    ASSUME NEW s, IsSeq(s), NEW t, IsSeq(t), NEW c, c = s \o t
    PROVE  /\ IsSeq(c) /\ Len(c) = Len(s) + Len(t) /\ DOMAIN c = 1..(Len(s) + Len(t))
           /\ \A i \in 1..(Len(s) + Len(t)) : c[i] = IF i <= Len(s) THEN s[i] ELSE t[i - Len(s)]
<1>1. PICK S, R : s \in Seq(S) /\ t \in Seq(R)
  BY DEF IsSeq
<1>2. s \in Seq(S \cup R) /\ t \in Seq(S \cup R)
  BY <1>1
<1>3. /\ c \in Seq(S \cup R) /\ Len(c) = Len(s) + Len(t)
      /\ \A i \in 1..(Len(s) + Len(t)) : c[i] = IF i <= Len(s) THEN s[i] ELSE t[i - Len(s)]
  BY <1>2, ConcatProperties
<1>4. QED
  BY <1>3 DEF IsSeq

LEMMA NoneIsSeq == IsSeq(<<>>) /\ Len(<<>>) = 0
<1>1. <<>> \in Seq({})
  OBVIOUS
<1>2. QED
  BY <1>1 DEF IsSeq

\* What is behind the k-th element.
LEMMA BehindIsSeq ==
    ASSUME NEW s, IsSeq(s), NEW k \in 1..Len(s), NEW b, b = SubSeq(s, k + 1, Len(s))
    PROVE  IsSeq(b) /\ Len(b) = Len(s) - k /\ \A i \in 1..(Len(s) - k) : b[i] = s[k + i]
<1>1. PICK S : s \in Seq(S)
  BY DEF IsSeq
<1>2. PICK n : n = Len(s) /\ n \in Nat /\ k \in 1..n
  BY <1>1
<1>3. b \in Seq(S) /\ Len(b) = n - k /\ \A i \in 1..(n - k) : b[i] = s[k + i]
  BY <1>1, <1>2
<1>4. QED
  BY <1>2, <1>3 DEF IsSeq

\* f takes the names of s to those of t.
Takes(f, s, t) ==
    /\ f \in [P!Named(s) -> P!Named(t)]
    /\ \A i \in P!Named(s) : t[f[i]] = s[i]
    /\ \A i, j \in P!Named(s) : i < j => f[i] < f[j]
    /\ \A k \in P!Named(t) : \E i \in P!Named(s) : f[i] = k

LEMMA TakesGives == \A s, t : P!SameNames(s, t) <=> \E f : Takes(f, s, t)
<1>1. ASSUME NEW s, NEW t PROVE P!SameNames(s, t) <=> \E f : Takes(f, s, t)
  BY DEF P!SameNames, Takes
<1>2. QED
  BY <1>1

LEMMA SameAsItself == ASSUME NEW s PROVE P!SameNames(s, s)
<1> DEFINE f == [i \in P!Named(s) |-> i]
<1>1. Takes(f, s, s)
  BY DEF Takes
<1>2. QED
  BY <1>1, TakesGives

LEMMA SameAsSame ==
    ASSUME NEW s, NEW t, NEW u, P!SameNames(s, t), P!SameNames(t, u) PROVE P!SameNames(s, u)
<1>1. PICK f : Takes(f, s, t)
  BY TakesGives
<1>2. PICK g : Takes(g, t, u)
  BY TakesGives
<1> DEFINE h == [i \in P!Named(s) |-> g[f[i]]]
<1>3. \A i \in P!Named(s) : /\ f[i] \in P!Named(t) /\ t[f[i]] = s[i]
                           /\ g[f[i]] \in P!Named(u) /\ u[g[f[i]]] = t[f[i]]
  BY <1>1, <1>2 DEF Takes
<1>4. \A i, j \in P!Named(s) : i < j => g[f[i]] < g[f[j]]
  BY <1>1, <1>2, <1>3 DEF Takes
<1>5. \A k \in P!Named(u) : \E i \in P!Named(s) : g[f[i]] = k
  BY <1>1, <1>2 DEF Takes
<1>6. Takes(h, s, u)
  BY <1>3, <1>4, <1>5 DEF Takes
<1>7. QED
  BY <1>6, TakesGives

\* The first segment that is not empty.
LEMMA NoSlashIs ==
    ASSUME NEW p, IsSeq(p), NEW k, k = P!NoSlash(p)
    PROVE  \/ k = 0 /\ \A i \in 1..Len(p) : p[i] = <<>>
           \/ k \in 1..Len(p) /\ p[k] # <<>> /\ \A i \in 1..Len(p) : i < k => p[i] = <<>>
<1>1. PICK n : n = Len(p) /\ n \in Nat
  BY IsSeqFacts
<1>2. PICK I : I = {i \in 1..n : p[i] # <<>>}
  OBVIOUS
<1>3. k = IF I # {} THEN CHOOSE x \in I : \A y \in I : x =< y ELSE 0
  BY <1>1, <1>2 DEF P!NoSlash, P!SelectInSeq, P!Min, P!NotEmpty
<1>4. CASE I = {}
  BY <1>1, <1>2, <1>3, <1>4
<1>5. CASE I # {}
  <2>1. I \subseteq 1..n
    BY <1>2
  <2>2. k \in I /\ \A y \in I : k =< y
    BY <1>1, <1>3, <1>5, <2>1, FirstOf
  <2>3. \A i \in 1..n : i < k => p[i] = <<>>
    BY <1>1, <1>2, <2>1, <2>2
  <2>4. QED
    BY <1>1, <1>2, <2>2, <2>3
<1>6. QED
  BY <1>4, <1>5

\* Where what is behind the k-th of m goes, when the k-th goes behind n.
LEMMA Behind ==
    \A n \in Nat, m \in Nat : \A k \in 1..m : \A d \in 1..(m - k), i \in Int :
        i = n + 1 + d =>
            /\ k + d \in 1..m /\ i - 1 + k = n + (k + d) /\ ~(i <= n)
            /\ n + (k + d) \in 1..(n + m) /\ ~(n + (k + d) <= n) /\ (n + (k + d)) - n = k + d
  OBVIOUS

\* A segment that goes from one to the other.
LEMMA DescendKeeps ==
    ASSUME NEW s, IsSeq(s), NEW p, IsSeq(p)
    PROVE  /\ IsSeq(Append(s, P!Segment(p))) /\ IsSeq(P!Rest(p))
           /\ P!SameNames(Append(s, P!Segment(p)) \o P!Rest(p), s \o p)
<1>1. PICK k : k = P!NoSlash(p)
  OBVIOUS
<1>2. PICK a : a = Append(s, P!Segment(p))
  OBVIOUS
<1>3. PICK b : b = P!Rest(p)
  OBVIOUS
<1>4. PICK n, m : n = Len(s) /\ n \in Nat /\ m = Len(p) /\ m \in Nat
  BY IsSeqFacts
<1>5. /\ IsSeq(a) /\ Len(a) = n + 1 /\ a[n + 1] = P!Segment(p)
      /\ \A i \in 1..n : a[i] = s[i]
  <2>1. PICK S : s \in Seq(S)
    BY DEF IsSeq
  <2>2. PICK e : e = P!Segment(p)
    OBVIOUS
  <2>3. s \in Seq(S \cup {e})
    BY <2>1
  <2>4. a \in Seq(S \cup {e}) /\ Len(a) = n + 1 /\ a[n + 1] = e /\ \A i \in 1..n : a[i] = s[i]
    BY <1>2, <1>4, <2>2, <2>3
  <2>5. QED
    BY <2>2, <2>4 DEF IsSeq
<1>6. PICK q : q = s \o p
  OBVIOUS
<1>7. /\ DOMAIN q = 1..(n + m)
      /\ \A i \in 1..(n + m) : q[i] = IF i <= n THEN s[i] ELSE p[i - n]
  BY <1>4, <1>6, ConcatIsSeq
<1>8. PICK r : r = a \o b
  OBVIOUS
<1>9. CASE k = 0 /\ \A i \in 1..m : p[i] = <<>>
  <2>1. P!Segment(p) = <<>> /\ b = <<>>
    BY <1>1, <1>3, <1>9 DEF P!Segment, P!Rest
  <2>2. IsSeq(b) /\ Len(b) = 0
    BY <2>1, NoneIsSeq
  <2>3. DOMAIN r = 1..(n + 1) /\ \A i \in 1..(n + 1) : r[i] = a[i]
    BY <1>4, <1>5, <1>8, <2>2, ConcatIsSeq
  <2>4. r[n + 1] = <<>>
    BY <1>4, <1>5, <2>1, <2>3
  <2>5. P!Named(r) = {i \in 1..n : s[i] # <<>>}
    BY <1>4, <1>5, <2>3, <2>4 DEF P!Named, P!NotEmpty
  <2>6. \A i \in 1..(n + m) : i > n => i - n \in 1..m /\ q[i] = <<>>
    BY <1>4, <1>7, <1>9
  <2>7. P!Named(q) = {i \in 1..n : s[i] # <<>>}
    BY <1>4, <1>7, <2>6 DEF P!Named, P!NotEmpty
  <2>8. \A i \in 1..n : r[i] = q[i]
    BY <1>4, <1>5, <1>7, <2>3
  <2> DEFINE f == [i \in P!Named(r) |-> i]
  <2>9. Takes(f, r, q)
    BY <2>5, <2>7, <2>8 DEF Takes
  <2>10. P!SameNames(r, q)
    BY <2>9, TakesGives
  <2>11. QED
    BY <1>2, <1>3, <1>5, <1>6, <1>8, <2>2, <2>10
<1>10. CASE k \in 1..m /\ p[k] # <<>> /\ \A i \in 1..m : i < k => p[i] = <<>>
  <2>1. P!Segment(p) = p[k] /\ b = SubSeq(p, k + 1, m)
    BY <1>1, <1>3, <1>4, <1>10 DEF P!Segment, P!Rest
  <2>2. IsSeq(b) /\ Len(b) = m - k /\ \A i \in 1..(m - k) : b[i] = p[k + i]
    BY <1>4, <1>10, <2>1, BehindIsSeq
  <2>3. /\ DOMAIN r = 1..(n + 1 + (m - k))
        /\ \A i \in 1..(n + 1 + (m - k)) : r[i] = IF i <= n + 1 THEN a[i] ELSE b[i - (n + 1)]
    BY <1>5, <1>8, <2>2, ConcatIsSeq
  <2> DEFINE to(i) == IF i <= n THEN i ELSE i - 1 + k
             from(j) == IF j <= n THEN j ELSE j - k + 1
  <2>4. ASSUME NEW i \in DOMAIN r PROVE to(i) \in DOMAIN q /\ q[to(i)] = r[i]
    <3>1. CASE i <= n
      BY <1>4, <1>5, <1>7, <1>10, <2>3, <3>1
    <3>2. CASE i = n + 1
      <4>1. to(i) = n + k /\ (n + k) - n = k /\ n + k \in 1..(n + m)
        BY <1>4, <1>10, <3>2
      <4>2. q[n + k] = p[k]
        BY <1>4, <1>7, <1>10, <4>1
      <4>3. QED
        <5>1. r[i] = p[k]
          BY <1>4, <1>5, <1>10, <2>1, <2>3, <3>2
        <5>2. QED
          BY <1>7, <4>1, <4>2, <5>1
    <3>3. CASE i > n + 1
      <4>1. PICK d \in 1..(m - k) : i = n + 1 + d
        <5>1. n \in Nat /\ m - k \in Int /\ i \in Int
          BY <1>4, <1>10, <2>3
        <5>2. i > n + 1 /\ i <= n + 1 + (m - k)
          BY <2>3, <3>3
        <5>3. i - (n + 1) \in 1..(m - k) /\ i = n + 1 + (i - (n + 1))
          BY <5>1, <5>2
        <5>4. QED
          BY <5>3
      <4>2. /\ k + d \in 1..m /\ i - 1 + k = n + (k + d) /\ ~(i <= n)
            /\ n + (k + d) \in 1..(n + m) /\ ~(n + (k + d) <= n) /\ (n + (k + d)) - n = k + d
        <5>1. n \in Nat /\ m \in Nat /\ k \in 1..m /\ d \in 1..(m - k) /\ i \in Int
          BY <1>4, <1>10, <2>3, <4>1
        <5>2. QED
          BY <4>1, <5>1, Behind
      <4>3. to(i) = n + (k + d) /\ q[n + (k + d)] = p[k + d]
        BY <1>7, <4>2
      <4>4. r[i] = p[k + d]
        BY <1>4, <2>2, <2>3, <3>3, <4>1, <4>2
      <4>5. QED
        BY <1>7, <4>2, <4>3, <4>4
    <3>4. QED
      BY <1>4, <1>10, <2>3, <3>1, <3>2, <3>3
  <2>5. \A i, j \in DOMAIN r : i < j => to(i) < to(j)
    BY <1>4, <1>10, <2>3
  <2>6. ASSUME NEW j \in DOMAIN q, q[j] # <<>> PROVE from(j) \in DOMAIN r /\ to(from(j)) = j
    <3>1. CASE j <= n
      BY <1>4, <1>7, <1>10, <2>3, <3>1
    <3>2. CASE j > n
      <4>1. j - n \in 1..m /\ q[j] = p[j - n]
        BY <1>4, <1>7, <3>2
      <4>2. j - n >= k
        BY <1>4, <1>10, <2>6, <4>1
      <4>3. QED
        BY <1>4, <1>7, <1>10, <2>3, <3>2, <4>1, <4>2
    <3>3. QED
      BY <1>4, <1>7, <3>1, <3>2
  <2> HIDE DEF to, from
  <2>7. \A i \in P!Named(r) : to(i) \in P!Named(q) /\ q[to(i)] = r[i]
    BY <2>4 DEF P!Named, P!NotEmpty
  <2>8. \A i, j \in P!Named(r) : i < j => to(i) < to(j)
    BY <2>5 DEF P!Named
  <2>9. ASSUME NEW j \in P!Named(q) PROVE \E i \in P!Named(r) : to(i) = j
    <3>1. j \in DOMAIN q /\ q[j] # <<>>
      BY DEF P!Named, P!NotEmpty
    <3>2. from(j) \in DOMAIN r /\ to(from(j)) = j
      BY <2>6, <3>1
    <3>3. r[from(j)] # <<>>
      BY <2>4, <3>1, <3>2
    <3>4. QED
      BY <3>2, <3>3 DEF P!Named, P!NotEmpty
  <2> DEFINE f == [i \in P!Named(r) |-> to(i)]
  <2>10. Takes(f, r, q)
    BY <2>7, <2>8, <2>9 DEF Takes
  <2>11. P!SameNames(r, q)
    BY <2>10, TakesGives
  <2>12. QED
    BY <1>2, <1>3, <1>5, <1>6, <1>8, <2>2, <2>11
<1>11. QED
  BY <1>1, <1>4, <1>9, <1>10, NoSlashIs

UrlParserInv ==
    IsSeq(script_name) /\ IsSeq(path_info) /\ IsSeq(asked) /\ P!PathIsKept

LEMMA UrlParserInitHolds == ASSUME UrlParserAssumed, P!UrlParserInit PROVE UrlParserInv
<1>1. script_name = <<>> /\ path_info \in Asked /\ asked = path_info
  BY DEF P!UrlParserInit
<1>2. IsSeq(path_info)
  BY <1>1, PathIsSeq DEF UrlParserAssumed
<1>3. script_name \o path_info = path_info
  BY <1>1, <1>2 DEF IsSeq
<1>4. QED
  BY <1>1, <1>2, <1>3, NoneIsSeq, SameAsItself DEF UrlParserInv, P!PathIsKept

LEMMA MovedKeeps ==
    ASSUME UrlParserInv, script_name' = Append(script_name, P!Segment(path_info)),
           path_info' = P!Rest(path_info), asked' = asked
    PROVE  UrlParserInv'
  BY DescendKeeps, SameAsSame DEF UrlParserInv, P!PathIsKept

LEMMA StaysKeeps ==
    ASSUME UrlParserInv, UNCHANGED <<script_name, path_info, asked>> PROVE UrlParserInv'
  BY DEF UrlParserInv, P!PathIsKept

\* The hook gives the request back with a path.
LEMMA HookKeeps == ASSUME UrlParserAssumed, UrlParserInv, P!NotFoundHook PROVE UrlParserInv'
<1>1. CASE UNCHANGED <<script_name, path_info, asked>>
  BY <1>1, StaysKeeps
<1>2. ASSUME NEW p \in {path_info} \cup Rewritten, path_info' = p, asked' = script_name \o p,
             script_name' = script_name
      PROVE  UrlParserInv'
  <2>1. IsSeq(p)
    BY PathIsSeq DEF UrlParserAssumed, UrlParserInv
  <2>2. IsSeq(script_name)
    BY DEF UrlParserInv
  <2>3. IsSeq(asked')
    BY <1>2, <2>1, <2>2, ConcatIsSeq
  <2>4. QED
    BY <1>2, <2>1, <2>2, <2>3, SameAsItself DEF UrlParserInv, P!PathIsKept
<1>3. QED
  BY <1>1, <1>2 DEF P!NotFoundHook

LEMMA UrlParserStep ==
    ASSUME UrlParserAssumed, UrlParserInv, [P!UrlParserNext]_urlparserVars PROVE UrlParserInv'
<1>1. CASE UNCHANGED urlparserVars
  BY <1>1, StaysKeeps DEF urlparserVars
<1>2. CASE P!AddSlash
  BY <1>2, StaysKeeps DEF P!AddSlash, P!Ends
<1>3. CASE P!UrlparserHook
  BY <1>3, StaysKeeps, MovedKeeps DEF P!UrlparserHook
<1>4. CASE P!FindOverriding \/ P!ModuleApplication
  BY <1>4, StaysKeeps DEF P!FindOverriding, P!ModuleApplication
<1>5. CASE P!FindApplication
  BY <1>5, MovedKeeps DEF P!FindApplication, P!Descend
<1>6. CASE P!NotFound
  BY <1>6, StaysKeeps, MovedKeeps DEF P!NotFound, P!Descend
<1>7. CASE P!NotFoundHook
  BY <1>7, HookKeeps
<1>8. ASSUME NEW answers, P!Step(answers) PROVE UrlParserInv'
  BY <1>8, StaysKeeps, MovedKeeps DEF P!Step, P!Descend
<1>9. CASE P!StaticStep \/ P!EggStep
  BY <1>8, <1>9 DEF P!StaticStep, P!EggStep
<1>10. QED
  BY <1>1, <1>2, <1>3, <1>4, <1>5, <1>6, <1>7, <1>9 DEF P!UrlParserNext

\* Whichever parsers, hooks and overriding applications a request passes, SCRIPT_NAME and
\* PATH_INFO are together the path that was asked for, but for empty segments, however
\* deep the directories are and whatever their names (urlparser.py 51-56, 196-207).
THEOREM PathAlwaysKept == Spec => []PathIsKept
<1> DEFINE Inv == component = "urlparser" => UrlParserInv
<1>1. Init => Inv
  BY OneStarts, RoutingAssumption, UrlParserInitHolds
<1>2. Inv /\ [Next]_vars => Inv'
  BY OneComponent, RoutingAssumption, UrlParserStep
<1>3. Inv => PathIsKept
  BY DEF UrlParserInv, PathIsKept
<1>4. QED
  BY <1>1, <1>2, <1>3, PTL DEF Spec

-----------------------------------------------------------------------------
(* FileTest: what runs report adds up.                                       *)

FileEntries == [dir : {FALSE}, mtime : Nat]
Entries == {None, T!Directory} \cup FileEntries

\* What is known of a tree is all that can be seen of it.
KnownOf(k, t) ==
    \A p \in TestPath :
        IF T!Visible(p) /\ t[p] # None
        THEN k[p] # None /\ k[p].dir = t[p].dir /\ (~t[p].dir => k[p].mtime >= t[p].mtime)
        ELSE k[p] = None

\* While a script runs, what is known is what was there when it began.
FileTestInv ==
    /\ tree \in [TestPath -> Entries] /\ known \in [TestPath -> Entries]
    /\ clock \in 1..TestMaxTime \cup {1} /\ raised \in BOOLEAN
    /\ running = None /\ ~raised => KnownOf(known, tree)
    /\ running # None => /\ running \in [TestPath -> Entries] /\ KnownOf(known, running)
                         /\ \A p \in TestPath : ~T!Visible(p) => running[p] = None

LEMMA FileTestInvGives == ASSUME FileTestInv PROVE T!ChangesAddUp
  BY DEF FileTestInv, KnownOf, T!ChangesAddUp

LEMMA Ignores == \A p : T!Ignored(p) <=> ~T!Visible(p)
  BY DEF T!Ignored, T!Visible

\* An entry is nothing, a directory or a file.
LEMMA EntryKinds ==
    ASSUME FileTestAssumed, NEW e \in Entries, e # None
    PROVE  /\ e.dir \in BOOLEAN /\ (~e.dir => e \in FileEntries /\ e.mtime \in Nat)
           /\ e.dir => e = T!Directory
<1>1. CASE e = T!Directory
  BY <1>1 DEF T!Directory
<1>2. CASE e \in FileEntries
  BY <1>2 DEF FileEntries
<1>3. QED
  BY <1>1, <1>2 DEF Entries

LEMMA FileTestInitHolds == ASSUME FileTestAssumed, T!FileTestInit PROVE FileTestInv
<1>1. tree = [p \in TestPath |-> None] /\ known = [p \in TestPath |-> None]
  BY DEF T!FileTestInit
<1>2. KnownOf(known, tree)
  BY <1>1 DEF KnownOf
<1>3. tree \in [TestPath -> Entries] /\ known \in [TestPath -> Entries]
  BY <1>1 DEF Entries
<1>4. clock = 1 /\ raised = FALSE /\ running = None
  BY DEF T!FileTestInit
<1>5. QED
  BY <1>2, <1>3, <1>4 DEF FileTestInv

LEMMA FindOf ==
    ASSUME NEW t \in [TestPath -> Entries]
    PROVE  /\ T!Find(t) \in [TestPath -> Entries]
           /\ \A p \in TestPath : T!Find(t)[p] = IF T!Visible(p) THEN t[p] ELSE None
<1>1. T!Find(t) = [p \in TestPath |-> IF T!Visible(p) THEN t[p] ELSE None]
  BY Ignores DEF T!Find
<1>2. QED
  BY <1>1 DEF Entries

\* A path that is written to.
LEMMA WrittenOf ==
    ASSUME FileTestAssumed, FileTestInv, NEW p \in TestPath, NEW time \in Nat
    PROVE  /\ T!Written(p, time) \in [TestPath -> Entries]
           /\ \A q \in TestPath : IF q \in Above[p] THEN T!Written(p, time)[q] # None
                                  ELSE T!Written(p, time)[q] = tree[q]
<1>1. T!File(time) \in FileEntries
  BY DEF T!File, FileEntries
<1>2. None \notin FileEntries /\ None # T!Directory
  BY DEF FileTestAssumed, FileEntries
<1>3. p \in Above[p] /\ tree \in [TestPath -> Entries]
  BY DEF FileTestAssumed, FileTestInv
<1>4. QED
  BY <1>1, <1>2, <1>3 DEF T!Written, Entries

LEMMA WriteFileKeeps ==
    ASSUME FileTestAssumed, FileTestInv, NEW p \in TestPath, T!WriteFile(p) PROVE FileTestInv'
<1>1. /\ running = None /\ ~raised /\ tree' = T!Written(p, clock) /\ UNCHANGED <<clock, running, raised>>
      /\ known' = [q \in TestPath |-> IF q \in Above[p] /\ T!Visible(q) THEN tree'[q] ELSE known[q]]
  BY Ignores DEF T!WriteFile
<1>2. clock \in Nat
  BY DEF FileTestInv, FileTestAssumed
<1>3. /\ tree' \in [TestPath -> Entries]
      /\ \A q \in TestPath : IF q \in Above[p] THEN tree'[q] # None ELSE tree'[q] = tree[q]
  BY <1>1, <1>2, WrittenOf
<1>4. known' \in [TestPath -> Entries]
  BY <1>1, <1>3 DEF FileTestInv
<1>5. KnownOf(known, tree)
  BY <1>1 DEF FileTestInv
<1>6. ASSUME NEW q \in TestPath
      PROVE IF T!Visible(q) /\ tree'[q] # None
            THEN /\ known'[q] # None /\ known'[q].dir = tree'[q].dir
                 /\ ~tree'[q].dir => known'[q].mtime >= tree'[q].mtime
            ELSE known'[q] = None
  <2>1. CASE q \in Above[p] /\ T!Visible(q)
    <3>1. known'[q] = tree'[q] /\ tree'[q] # None /\ tree'[q] \in Entries
      BY <2>1, <1>1, <1>3
    <3>2. ~tree'[q].dir => tree'[q].mtime \in Nat
      BY <3>1, EntryKinds
    <3>3. QED
      BY <2>1, <3>1, <3>2
  <2>2. CASE ~(q \in Above[p] /\ T!Visible(q))
    <3>1. known'[q] = known[q] /\ (T!Visible(q) => tree'[q] = tree[q])
      BY <2>2, <1>1, <1>3
    <3>2. QED
      BY <3>1, <1>5 DEF KnownOf
  <2>3. QED
    BY <2>1, <2>2
<1>7. KnownOf(known', tree')
  BY <1>6 DEF KnownOf
<1>8. QED
  BY <1>1, <1>3, <1>4, <1>7 DEF FileTestInv

LEMMA ClearKeeps == ASSUME FileTestAssumed, FileTestInv, T!Clear PROVE FileTestInv'
<1>1. /\ running = None /\ UNCHANGED <<clock, running, raised>>
      /\ tree' = [p \in TestPath |-> None] /\ known' = [p \in TestPath |-> None]
  BY DEF T!Clear
<1>2. KnownOf(known', tree')
  BY <1>1 DEF KnownOf
<1>3. tree' \in [TestPath -> Entries] /\ known' \in [TestPath -> Entries]
  BY <1>1 DEF Entries
<1>4. QED
  BY <1>1, <1>2, <1>3 DEF FileTestInv

\* A script may do to the tree what it likes: what is known is what was there before.
LEMMA ScriptKeeps ==
    ASSUME FileTestInv, running # None, tree' \in [TestPath -> Entries],
           UNCHANGED <<clock, running, raised, known>>
    PROVE  FileTestInv'
  BY DEF FileTestInv, KnownOf

LEMMA ScriptsKeep ==
    ASSUME FileTestAssumed, FileTestInv, NEW p \in TestPath,
           T!ScriptWrites(p) \/ T!ScriptMakesDir(p) \/ T!ScriptRemoves(p)
    PROVE  FileTestInv'
<1>1. tree \in [TestPath -> Entries]
  BY DEF FileTestInv
<1>2. CASE T!ScriptWrites(p)
  <2>1. PICK time \in 1..clock : tree' = T!Written(p, time)
    BY <1>2 DEF T!ScriptWrites
  <2>2. tree' \in [TestPath -> Entries]
    BY <2>1, WrittenOf
  <2>3. QED
    BY <1>2, <2>2, ScriptKeeps DEF T!ScriptWrites
<1>3. CASE T!ScriptMakesDir(p)
  <2>1. tree' = [tree EXCEPT ![p] = T!Directory]
    BY <1>3 DEF T!ScriptMakesDir
  <2>2. tree' \in [TestPath -> Entries]
    BY <1>1, <2>1 DEF Entries
  <2>3. QED
    BY <1>3, <2>2, ScriptKeeps DEF T!ScriptMakesDir
<1>4. CASE T!ScriptRemoves(p)
  <2>1. tree' = [q \in TestPath |-> IF q \in T!Within(p) THEN None ELSE tree[q]]
    BY <1>4 DEF T!ScriptRemoves
  <2>2. tree' \in [TestPath -> Entries]
    BY <1>1, <2>1 DEF Entries
  <2>3. QED
    BY <1>4, <2>2, ScriptKeeps DEF T!ScriptRemoves
<1>5. QED
  BY <1>2, <1>3, <1>4

LEMMA TickKeeps == ASSUME FileTestAssumed, FileTestInv, T!Tick PROVE FileTestInv'
  BY DEF T!Tick, FileTestInv, KnownOf, FileTestAssumed

LEMMA FileRunKeeps == ASSUME FileTestInv, T!Run PROVE FileTestInv'
<1>1. running = None /\ ~raised /\ running' = T!Find(tree) /\ UNCHANGED <<tree, clock, raised, known>>
  BY DEF T!Run
<1>2. tree \in [TestPath -> Entries] /\ KnownOf(known, tree)
  BY <1>1 DEF FileTestInv
<1>3. /\ running' \in [TestPath -> Entries]
      /\ \A p \in TestPath : running'[p] = IF T!Visible(p) THEN tree[p] ELSE None
  BY <1>1, <1>2, FindOf
<1>4. KnownOf(known, running')
  BY <1>2, <1>3 DEF KnownOf
<1>5. QED
  BY <1>1, <1>2, <1>3, <1>4 DEF FileTestInv

\* What is new, changed or gone is told, and the rest is as it was.
LEMMA RunEndsKeeps ==
    ASSUME FileTestAssumed, FileTestInv, NEW printresult, NEW expect_error, NEW expect_stderr,
           T!RunEnds(printresult, expect_error, expect_stderr)
    PROVE  FileTestInv'
<1> DEFINE after == T!Find(tree)
           told_ == [p \in TestPath |->
                        CASE p \in T!Deleted(running, after) -> None
                          [] p \in T!Created(running, after) \cup T!Updated(running, after) -> after[p]
                          [] OTHER -> known[p]]
<1>1. running # None /\ running' = None /\ UNCHANGED <<tree, clock>>
  BY DEF T!RunEnds
<1>2. \/ raised' = TRUE /\ known' = known
      \/ T!Incomparable(running, after) = {} /\ known' = told_ /\ raised' = FALSE
  BY DEF T!RunEnds
<1>3. CASE raised' = TRUE /\ known' = known
  BY <1>1, <1>3 DEF FileTestInv
<1>4. CASE T!Incomparable(running, after) = {} /\ known' = told_ /\ raised' = FALSE
  <2>1. /\ tree \in [TestPath -> Entries] /\ running \in [TestPath -> Entries] /\ KnownOf(known, running)
        /\ known \in [TestPath -> Entries]
        /\ \A p \in TestPath : ~T!Visible(p) => running[p] = None
    BY <1>1 DEF FileTestInv
  <2>2. /\ after \in [TestPath -> Entries]
        /\ \A p \in TestPath : after[p] = IF T!Visible(p) THEN tree[p] ELSE None
    BY <2>1, FindOf
  <2>3. ASSUME NEW p \in TestPath
        PROVE  /\ known'[p] \in Entries
               /\ IF T!Visible(p) /\ tree[p] # None
                  THEN /\ known'[p] # None /\ known'[p].dir = tree[p].dir
                       /\ ~tree[p].dir => known'[p].mtime >= tree[p].mtime
                  ELSE known'[p] = None
    <3> DEFINE b == running[p]
               a == after[p]
    <3>1. known'[p] = CASE b # None /\ a = None -> None
                        [] \/ b = None /\ a # None
                           \/ b # None /\ a # None /\ ~b.dir /\ b.mtime < a.mtime -> a
                        [] OTHER -> known[p]
      <4>1. /\ p \in T!Deleted(running, after) <=> b # None /\ a = None
            /\ p \in T!Created(running, after) <=> b = None /\ a # None
            /\ p \in T!Updated(running, after) <=> b # None /\ a # None /\ ~b.dir /\ b.mtime < a.mtime
        BY DEF T!Deleted, T!Created, T!Updated, T!Both, T!Found
      <4>2. QED
        BY <1>4, <4>1
    <3>2. b # None /\ a # None => b.dir = a.dir
      BY <1>4 DEF T!Incomparable, T!Both, T!Found
    <3>3. a \in Entries /\ b \in Entries /\ known[p] \in Entries
      BY <2>1, <2>2
    <3>4. /\ a # None => a.dir \in BOOLEAN /\ (~a.dir => a.mtime \in Nat)
          /\ b # None => b.dir \in BOOLEAN /\ (~b.dir => b.mtime \in Nat)
          /\ known[p] # None => known[p].dir \in BOOLEAN /\ (~known[p].dir => known[p].mtime \in Nat)
      BY <3>3, EntryKinds
    <3>5. IF T!Visible(p) /\ b # None
          THEN known[p] # None /\ known[p].dir = b.dir /\ (~b.dir => known[p].mtime >= b.mtime)
          ELSE known[p] = None
      BY <2>1 DEF KnownOf
    <3>6. (~T!Visible(p) => b = None) /\ a = IF T!Visible(p) THEN tree[p] ELSE None
      BY <2>1, <2>2
    <3> HIDE DEF a, b, after, told_
    <3>7. CASE b # None /\ a = None
      BY <3>1, <3>3, <3>6, <3>7
    <3>8. CASE (b = None /\ a # None) \/ (b # None /\ a # None /\ ~b.dir /\ b.mtime < a.mtime)
      BY <3>1, <3>3, <3>4, <3>6, <3>8
    <3>9. CASE b = None /\ a = None
      BY <3>1, <3>3, <3>5, <3>6, <3>9
    <3>10. CASE b # None /\ a # None /\ ~(~b.dir /\ b.mtime < a.mtime)
      <4>1. known'[p] = known[p] /\ T!Visible(p) /\ tree[p] = a
        BY <3>1, <3>6, <3>10
      <4>2. known[p] # None /\ known[p].dir = b.dir /\ (~b.dir => known[p].mtime >= b.mtime)
        BY <3>5, <3>10, <4>1
      <4>3. ~a.dir => known[p].mtime >= a.mtime
        BY <3>2, <3>4, <3>10, <4>2
      <4>4. QED
        BY <3>2, <3>3, <3>10, <4>1, <4>2, <4>3
    <3>11. QED
      BY <3>7, <3>8, <3>9, <3>10
  <2>4. DOMAIN known' = TestPath /\ known' = [p \in TestPath |-> known'[p]]
    BY <1>4
  <2>5. known' \in [TestPath -> Entries]
    BY <2>3, <2>4
  <2>6. KnownOf(known', tree')
    BY <1>1, <2>3 DEF KnownOf
  <2>7. QED
    BY <1>1, <1>4, <2>1, <2>5, <2>6 DEF FileTestInv
<1>5. QED
  BY <1>2, <1>3, <1>4

LEMMA FileTestStep ==
    ASSUME FileTestAssumed, FileTestInv, [T!FileTestNext]_fileTestVars PROVE FileTestInv'
<1>1. CASE UNCHANGED fileTestVars
  BY <1>1 DEF fileTestVars, FileTestInv, KnownOf
<1>2. CASE T!FileTestNext
  BY <1>2, WriteFileKeeps, ClearKeeps, ScriptsKeep, TickKeeps, FileRunKeeps, RunEndsKeeps
  DEF T!FileTestNext
<1>3. QED
  BY <1>1, <1>2

\* What the runs and the test itself say was written, changed and deleted adds up to what
\* is on disk, for any tree of paths, until a run raises (fixture.py 1404-1443, 1539-1560).
THEOREM ChangesAlwaysAddUp == Spec => []ChangesAddUp
<1> DEFINE Inv == component = "filetest" => FileTestInv
<1>1. Init => Inv
  BY OneStarts, RoutingAssumption, FileTestInitHolds
<1>2. Inv /\ [Next]_vars => Inv'
  BY OneComponent, RoutingAssumption, FileTestStep
<1>3. Inv => ChangesAddUp
  BY FileTestInvGives DEF ChangesAddUp
<1>4. QED
  BY <1>1, <1>2, <1>3, PTL DEF Spec
==============================================================================
