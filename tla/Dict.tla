-------------------------------- MODULE Dict --------------------------------
(***************************************************************************)
(* The hash table of hiredis (dict.c), in which an asynchronous context    *)
(* keeps the callbacks of its subscriptions: chains of entries, the newest *)
(* first, in a table that doubles when there are as many entries as slots. *)
(***************************************************************************)
EXTENDS Integers, Sequences, SequencesExt

CONSTANTS
    Hash,        \* the hash of every key (callbackHash)
    InitialSize  \* DICT_HT_INITIAL_SIZE

ASSUME HashAssumption == Hash \in [DOMAIN Hash -> Nat]
ASSUME InitialSizeAssumption == InitialSize \in Nat \ {0}

\* An empty dictionary, as dictCreate makes it and _dictReset leaves it.
dictCreate == [used |-> 0, table |-> <<>>]

size(d) == Len(d.table)
Slot(k, n) == (Hash[k] % n) + 1

\* The entries in the order in which an iterator meets them.
dictNext(d) == FlattenSeq(d.table)

\* _dictNextPower: the table grows by doubling only.
dictNextPower(n) ==
    LET power[i \in Nat] == IF i = 0 THEN InitialSize ELSE 2 * power[i - 1]
    IN  power[CHOOSE i \in 0..n : power[i] >= n /\ \A j \in 0..i - 1 : power[j] < n]

\* dictExpand: every entry met is put in front of the chain of its new slot.
\* Mutant: the entries keep their slots.
BugExpand(d, n) ==
    IF d.used > n THEN d
    ELSE [d EXCEPT !.table = @ \o [i \in 1..dictNextPower(n) - size(d) |-> <<>>]]
dictExpand(d, n) ==
    LET to == dictNextPower(n)
    IN  IF d.used > n THEN d
        ELSE [d EXCEPT !.table = [s \in 1..to |->
                Reverse(FlattenSeq([i \in DOMAIN dictNext(d) |->
                    IF Slot(dictNext(d)[i].key, to) = s THEN <<dictNext(d)[i]>> ELSE <<>>]))]]

\* _dictExpandIfNeeded
dictExpandIfNeeded(d) ==
    IF size(d) = 0 THEN dictExpand(d, InitialSize)
    ELSE IF d.used = size(d) THEN dictExpand(d, size(d) * 2) ELSE d

Place(d, k) ==
    IF size(d) = 0 THEN 0
    ELSE SelectInSeq(d.table[Slot(k, size(d))], LAMBDA e : e.key = k)

dictHas(d, k) == Place(d, k) > 0

\* dictFind of a key that is there.
dictFind(d, k) == d.table[Slot(k, size(d))][Place(d, k)].val

\* dictAdd: the table grows first, also for a key that turns out to be there.
dictAdd(d, k, v) ==
    LET x == dictExpandIfNeeded(d)
    IN  IF dictHas(x, k) THEN x
        ELSE [used  |-> x.used + 1,
              table |-> [x.table EXCEPT ![Slot(k, size(x))] = <<[key |-> k, val |-> v]>> \o @]]

\* A value is changed in place.
dictSetVal(d, k, v) ==
    [d EXCEPT !.table[Slot(k, size(d))][Place(d, k)].val = v]

dictReplace(d, k, v) ==
    IF dictHas(dictExpandIfNeeded(d), k)
    THEN dictSetVal(dictAdd(d, k, v), k, v) ELSE dictAdd(d, k, v)

dictDelete(d, k) ==
    IF ~dictHas(d, k) THEN d
    ELSE [used  |-> d.used - 1,
          table |-> [d.table EXCEPT ![Slot(k, size(d))] = RemoveAt(@, Place(d, k))]]

\* Each entry is in the chain where its key is looked for, no key has two, used
\* counts them, and there are never more entries than slots.
DictOK(d) ==
    /\ d.used = Len(dictNext(d)) /\ d.used <= size(d)
    /\ \A s \in 1..size(d) : \A i \in DOMAIN d.table[s] : Slot(d.table[s][i].key, size(d)) = s
    /\ \A i, j \in DOMAIN dictNext(d) : dictNext(d)[i].key = dictNext(d)[j].key => i = j
=============================================================================
