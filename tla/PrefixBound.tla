---------------------------- MODULE PrefixBound ----------------------------
(***************************************************************************)
(* _prefix_upper: the least string above all those that start with a given *)
(* prefix, so that a prefix query is a range of the index.  The loop runs  *)
(* from the last character to the first and increments the first that can  *)
(* be incremented.  Strings are sequences of code points; some are no      *)
(* characters (the surrogates), and none is above the largest.             *)
(***************************************************************************)
EXTENDS Integers, Sequences, SequencesExt

CONSTANTS
    MaxCode,        \* the largest code point: 0x10FFFF
    FirstSurrogate, \* 0xD800
    LastSurrogate,  \* 0xDFFF
    MaxLen,         \* bound: length of a prefix
    NoBound         \* returned when no string is above

ASSUME CodesAssumption ==
    /\ MaxCode \in Nat /\ FirstSurrogate \in Nat /\ LastSurrogate \in Nat /\ MaxLen \in Nat
    /\ 0 < FirstSurrogate /\ FirstSurrogate <= LastSurrogate /\ LastSurrogate < MaxCode
ASSUME NoBoundAssumption == NoBound \notin Seq(Nat)

VARIABLES
    prefix,     \* the argument
    i,          \* the position of the loop, counted from 1
    upper,      \* what is returned
    returned    \* whether it is

prefixVars == <<prefix, i, upper, returned>>

Surrogates == FirstSurrogate .. LastSurrogate
Chars == (0 .. MaxCode) \ Surrogates

StartBound ==
    /\ prefix \in BoundedSeq(Chars, MaxLen)
    /\ i = Len(prefix)
    /\ upper = NoBound
    /\ returned = FALSE

Successor(code) == IF code + 1 \in Surrogates THEN LastSurrogate + 1 ELSE code + 1

\* The largest code point has no successor: on to the one before.
Carry ==
    /\ ~returned
    /\ i > 0
    /\ prefix[i] = MaxCode
    /\ i' = i - 1
    /\ UNCHANGED <<prefix, upper, returned>>

\* Faulty: keeps what follows the incremented character.
ReturnWithRest ==
    /\ ~returned
    /\ i > 0
    /\ prefix[i] < MaxCode
    /\ upper' = [prefix EXCEPT ![i] = Successor(@)]
    /\ returned' = TRUE
    /\ UNCHANGED <<prefix, i>>

Return ==
    /\ ~returned
    /\ i > 0
    /\ prefix[i] < MaxCode
    /\ upper' = Append(SubSeq(prefix, 1, i - 1), Successor(prefix[i]))
    /\ returned' = TRUE
    /\ UNCHANGED <<prefix, i>>

Unbounded ==
    /\ ~returned
    /\ i = 0
    /\ returned' = TRUE
    /\ UNCHANGED <<prefix, i, upper>>

Done == returned /\ UNCHANGED prefixVars

FindBound == Carry \/ Return \/ Unbounded \/ Done

BoundSpec == StartBound /\ [][FindBound]_prefixVars

-----------------------------------------------------------------------------
(***************************************************************************)
(* Properties.                                                             *)
(***************************************************************************)
\* The order of SQLite's BINARY collation on UTF-8, which is that of the code
\* points.
Below(s, t) ==
    \E n \in 0 .. Len(s) :
        /\ n < Len(t)
        /\ SubSeq(s, 1, n) = SubSeq(t, 1, n)
        /\ n < Len(s) => s[n + 1] < t[n + 1]

\* The rows of a prefix query, prefix <= key < upper, are those whose key starts
\* with the prefix, for every string and every prefix.  The bound is itself a
\* string that SQLite can be given: no surrogate is in it, for which there is no
\* UTF-8.
BoundIsExact ==
    returned =>
      /\ upper # NoBound => upper \in Seq(Chars)
      /\ \A s \in BoundedSeq(Chars, MaxLen + 1) :
            IsPrefix(prefix, s) <=> /\ ~Below(s, prefix)
                                    /\ upper # NoBound => Below(s, upper)
=============================================================================
