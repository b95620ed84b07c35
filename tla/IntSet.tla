------------------------------- MODULE IntSet -------------------------------
(***************************************************************************)
(* One operation on two IntSets (util/intset.py), which are kept as sequences *)
(* of ranges <<start, stop>>, stop excluded: the sets are constructed from    *)
(* inclusive ranges, and _iterranges walks over the bounds of both.  The      *)
(* infinities are the numbers Low and High beside those that occur.           *)
(***************************************************************************)
EXTENDS Integers, Sequences, SequencesExt, FiniteSetsExt

CONSTANTS
    Low, High,   \* _MININF, _MAXINF
    Arguments,   \* arguments of constructors: [ranges, min, max], ranges of inclusive ones
    Operation    \* names of operations

VARIABLES
    args,        \* of the two constructors
    operation,
    i, j,        \* how many bounds of the two sets were passed
    curval,      \* the bound reached
    states,      \* is it in the first, in the second set?
    segments     \* what _iterranges has yielded: [states, start, stop]; None in the end

intsetVars == <<args, operation, i, j, curval, states, segments>>

Less(a, b) == a[1] < b[1] \/ (a[1] = b[1] /\ a[2] <= b[2])

\* A mutant: the later of two overlapping ranges ends the merged one.
MergedPlain(a, b) == <<a[1], b[2]>>

Merged(a, b) == <<a[1], Max({a[2], b[2]})>>

\* _normalize: ranges are sorted, overlapping ones merged, adjacent ones kept.
Normalize(ranges) ==
    LET step(done, r) ==
            IF done # <<>> /\ r[1] < Last(done)[2] THEN Append(Front(done), Merged(Last(done), r))
            ELSE Append(done, r)
    IN  FoldLeft(step, <<>>, SortSeq(ranges, Less))

\* __init__: what is outside of min and max is cut off.
StopOf(max) == IF max = High THEN High ELSE max + 1
Construct(arg) ==
    LET max == StopOf(arg.max)
        stops == [k \in DOMAIN arg.ranges |-> <<arg.ranges[k][1], StopOf(arg.ranges[k][2])>>]
        in == SelectSeq(stops, LAMBDA r : r[1] < r[2] /\ r[1] <= max /\ r[2] >= arg.min)
    IN  Normalize([k \in DOMAIN in |-> <<Max({in[k][1], arg.min}), Min({in[k][2], max})>>])

Ranges == [s \in 1..2 |-> Construct(args[s])]

\* The k-th bound of a sequence of ranges, from 0.
Bound(ranges, k) == ranges[(k \div 2) + 1][(k % 2) + 1]

MinVal == Min({args[1].min, args[2].min})
MaxVal == Max({StopOf(args[1].max), StopOf(args[2].max)})

\* pall and pany of _make_function.
InSet(op, s) ==
    CASE op = "intersection" -> s[1] /\ s[2]  [] op = "union" -> s[1] \/ s[2]
      [] op = "difference" -> s[1] /\ ~s[2]  [] op = "symmetric_difference" -> s[1] # s[2]
PAll(op, s) ==
    CASE op \in {"issubset", "istruesubset"} -> s[2] \/ ~s[1]
      [] op = "issuperset" -> s[1] \/ ~s[2]  [] op = "eq" -> s[1] = s[2]
      [] op = "overlaps" -> TRUE
PAny(op, s) ==
    CASE op = "istruesubset" -> s[2] /\ ~s[1]  [] op = "overlaps" -> s[1] /\ s[2]  [] OTHER -> TRUE

-----------------------------------------------------------------------------

IntSetInit ==
    /\ args \in Arguments \X Arguments /\ operation \in Operation
    /\ i = 0 /\ j = 0 /\ curval = MinVal /\ states = <<FALSE, FALSE>> /\ segments = <<>>

Bounds(s) == 2 * Len(Ranges[s])

\* Which set has the next bound: on a tie the second.
First == i < Bounds(1) /\ (j = Bounds(2) \/ Bound(Ranges[1], i) < Bound(Ranges[2], j))
Next == IF First THEN Bound(Ranges[1], i) ELSE Bound(Ranges[2], j)

\* Bounds are left, and the next one is not beyond the end.
More == (i < Bounds(1) \/ j < Bounds(2)) /\ (curval < Next => Next <= MaxVal)

\* One turn of _iterranges: a segment up to the bound is yielded.
Turn ==
    /\ More
    /\ curval' = Max({curval, Next})
    /\ segments' = IF curval < Next
                   THEN Append(segments, [states |-> states, start |-> curval, stop |-> Next])
                   ELSE segments
    /\ IF First
       THEN i' = i + 1 /\ j' = j /\ states' = [states EXCEPT ![1] = i % 2 = 0]
       ELSE i' = i /\ j' = j + 1 /\ states' = [states EXCEPT ![2] = j % 2 = 0]
    /\ UNCHANGED <<args, operation>>

Rest ==
    /\ ~More /\ curval < MaxVal
    /\ segments' = Append(segments, [states |-> states, start |-> curval, stop |-> MaxVal])
    /\ curval' = MaxVal
    /\ UNCHANGED <<args, operation, i, j, states>>

IntSetNext == Turn \/ Rest

IntSetSpec == IntSetInit /\ [][IntSetNext]_intsetVars

-----------------------------------------------------------------------------
(* The result, of the segments that were yielded.                            *)

\* Segments in the set, consecutive ones joined.
ResultRanges ==
    LET step(done, s) ==
            IF ~InSet(operation, s.states) THEN done
            ELSE IF done # <<>> /\ Last(done)[2] = s.start
            THEN Append(Front(done), <<Last(done)[1], s.stop>>)
            ELSE Append(done, <<s.start, s.stop>>)
    IN  FoldLeft(step, <<>>, segments)

HasAny == operation \in {"istruesubset", "overlaps"}
Answer ==
    /\ \A k \in DOMAIN segments : PAll(operation, segments[k].states)
    /\ HasAny => \E k \in DOMAIN segments : PAny(operation, segments[k].states)

\* The numbers of ranges, and of the arguments of a constructor.
Members(ranges) == {v \in Low..(High - 1) : \E k \in DOMAIN ranges : ranges[k][1] <= v /\ v < ranges[k][2]}
Meant(arg) ==
    {v \in Low..(High - 1) : /\ v >= arg.min /\ (arg.max = High \/ v <= arg.max)
        /\ \E k \in DOMAIN arg.ranges :
              v >= arg.ranges[k][1] /\ (arg.ranges[k][2] = High \/ v <= arg.ranges[k][2])}

\* Union, intersection, difference and symmetric difference and the comparisons of
\* two sets give what they give on sets of numbers, however the ranges of the
\* arguments overlap, touch, or reach over the bounds (intset.py 160-185,
\* 190-203, 239-333).
OperationIsRight ==
    LET a == Meant(args[1])  b == Meant(args[2])
    IN  ~More /\ curval >= MaxVal =>
          CASE operation = "intersection" -> Members(ResultRanges) = a \intersect b
            [] operation = "union" -> Members(ResultRanges) = a \cup b
            [] operation = "difference" -> Members(ResultRanges) = a \ b
            [] operation = "symmetric_difference" -> Members(ResultRanges) = (a \ b) \cup (b \ a)
            [] operation = "issubset" -> Answer <=> a \subseteq b
            [] operation = "istruesubset" -> Answer <=> a \subseteq b /\ a # b
            [] operation = "issuperset" -> Answer <=> b \subseteq a
            [] operation = "eq" -> Answer <=> a = b
            [] operation = "overlaps" -> Answer <=> a \intersect b # {}
=============================================================================
