------------------------------ MODULE MultiDict ------------------------------
(***************************************************************************)
(* MultiDict (util/multidict.py) as a sequence of items [key, value].  A key *)
(* is [word, type]: comparisons of keys look at both, but for those of       *)
(* __getitem__ and setdefault.                                               *)
(***************************************************************************)
EXTENDS Integers, Sequences, SequencesExt, Functions

Item(key, value) == [key |-> key, value |-> value]
ValuesOf(items) == [i \in DOMAIN items |-> items[i].value]
KeysOf(items) == [i \in DOMAIN items |-> items[i].key]

GetAll(items, key) == ValuesOf(SelectSeq(items, LAMBDA item : item.key = key))

\* The position of the first item whose key is equal; 0 is a KeyError.
Equal(items, key) == SelectInSeq(items, LAMBDA item : item.key.word = key.word)
GetOne(items, key) == IF Len(GetAll(items, key)) = 1 THEN GetAll(items, key) ELSE <<>>

AddItem(items, key, value) == Append(items, Item(key, value))
DeleteItem(items, key) == SelectSeq(items, LAMBDA item : item.key # key)

\* What was there goes, and the new value comes last.
SetItem(items, key, value) == AddItem(DeleteItem(items, key), key, value)

SetDefault(items, key, value) == IF Equal(items, key) # 0 THEN items ELSE AddItem(items, key, value)

\* Only the first value of the key goes.
PopKey(items, key) ==
    LET i == SelectInSeq(items, LAMBDA item : item.key = key)
    IN  IF i = 0 THEN items ELSE RemoveAt(items, i)

PopItem(items) == Front(items)
Updated(items, other) == items \o other

\* The values of a key in the result of mixed, which is built item by item:
\* some keys have a value, some (multi) a list of values.
Mixed(items) ==
    LET step(result, item) ==
            IF item.key \notin DOMAIN result THEN [k \in DOMAIN result \cup {item.key} |->
                IF k = item.key THEN [multi |-> FALSE, values |-> <<item.value>>] ELSE result[k]]
            ELSE [result EXCEPT ![item.key] = [multi |-> TRUE, values |-> Append(@.values, item.value)]]
    IN  FoldLeft(step, [k \in {} |-> 0], items)

\* dict_of_lists
DictOfLists(items) == [key \in {items[i].key : i \in DOMAIN items} |-> GetAll(items, key)]

\* UnicodeMultiDict.__init__ with decode_keys: the keys become bytes, in the
\* MultiDict it is given.
Encoded(items) == [i \in DOMAIN items |-> [items[i] EXCEPT !.key.type = "bytes"]]
Decoded(items) == [i \in DOMAIN items |-> [items[i] EXCEPT !.key.type = "str"]]
=============================================================================
