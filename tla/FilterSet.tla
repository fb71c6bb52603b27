------------------------------ MODULE FilterSet ------------------------------
(***************************************************************************)
(* FilterSetBytes (filters.h): a list of filter values, sorted and without *)
(* duplicates, searched with a binary search for the upper bound that      *)
(* compares first bytes before it compares the values.  A value is a       *)
(* sequence of bytes, possibly empty (the values of one-letter tags other  *)
(* than e and p may be).                                                   *)
(***************************************************************************)
EXTENDS Integers, Sequences, FiniteSets

CONSTANTS
    Bytes,      \* the bytes used, a set of numbers
    MaxLen,     \* bound: length of a value
    MaxItems    \* bound: values in a filter

ASSUME FilterSetAssumption == Bytes \subseteq 0..255 /\ MaxLen \in Nat /\ MaxItems \in Nat

Values == UNION {[1..n -> Bytes] : n \in 0..MaxLen}

\* The members of S in the order `Less`.
SortedBy(S, Less(_, _)) ==
    [k \in 1..Cardinality(S) |-> CHOOSE x \in S : Cardinality({y \in S : Less(y, x)}) = k - 1]

\* operator< of std::string and std::string_view: bytes as unsigned.
StringLess(x, y) ==
    \E i \in 1..(Len(x) + 1) :
        /\ i <= Len(y)
        /\ \A j \in 1..(i-1) : x[j] = y[j]
        /\ i = Len(x) + 1 \/ x[i] < y[i]

\* The constructor: std::sort, then one of each.
Items(vals) == SortedBy(vals, StringLess)

\* Mutant: the first bytes are compared as signed characters.
MutComp(x, y) ==
    IF x # <<>> /\ y # <<>> /\ x[1] # y[1]
    THEN (x[1] + 128) % 256 < (y[1] + 128) % 256
    ELSE StringLess(x, y)

\* Is the candidate below the item?  firstByte decides when it can.
Comp(x, y) ==
    IF x # <<>> /\ y # <<>> /\ x[1] # y[1] THEN x[1] < y[1] ELSE StringLess(x, y)

\* One round of the loop.  first counts from 0 as in the code, items from 1.
Halve(items, candidate, at) ==
    LET step == at.count \div 2
        curr == at.first + step
    IN  IF at.count = 0 THEN at
        ELSE IF ~Comp(candidate, items[curr + 1])
        THEN [first |-> curr + 1, count |-> at.count - (step + 1)]
        ELSE [first |-> at.first, count |-> step]

\* Where the loop is after so many rounds as there are items.  first is then
\* the number of items at or below the candidate.
UpperBound(items, candidate) ==
    LET loop[n \in 0..Len(items)] ==
          IF n = 0 THEN [first |-> 0, count |-> Len(items)]
          ELSE Halve(items, candidate, loop[n - 1])
    IN  loop[Len(items)]

\* doesMatch: the item before the upper bound is the candidate, or none is.
SetMatches(items, candidate) ==
    LET first == UpperBound(items, candidate).first IN first # 0 /\ items[first] = candidate

\* The filter under test; {} when there is none.
VARIABLE values

Tables == {v \in SUBSET Values : Cardinality(v) <= MaxItems}

\* FilterSetBytes::doesMatch says yes exactly for the values of the filter,
\* whichever their first bytes and lengths; the search stays within the items
\* and ends.
SearchExact ==
    LET items == Items(values) IN
    \A candidate \in Values :
        /\ UpperBound(items, candidate).count = 0
        /\ SetMatches(items, candidate) <=> candidate \in values
=============================================================================
