------------------------------- MODULE BitMask -------------------------------
(***************************************************************************)
(* The bit masks of Adapter/common/BitMask.js: sets of column numbers held *)
(* in words of Radix bits.  A word is the set of the offsets that are on;  *)
(* the first word of _mask is words[1].                                    *)
(***************************************************************************)
LOCAL INSTANCE Integers
LOCAL INSTANCE Sequences

Radix == 24

\* _grow adds words until the size is reached.
Grow(mask, size) ==
  LET missing == size - Radix * Len(mask.words)
      more == IF missing > 0 THEN (missing + Radix - 1) \div Radix ELSE 0
  IN  [words |-> mask.words \o [i \in 1..more |-> {}],
       size |-> Radix * (Len(mask.words) + more)]

NewMask(size) == Grow([words |-> <<>>, size |-> 0], size)

Grown(mask, bit) == IF bit >= mask.size THEN Grow(mask, bit) ELSE mask
Part(mask, n) == IF n <= Len(mask.words) THEN mask.words[n] ELSE {}

\* set: the assignment creates the word when the mask was not grown enough.
SetBit(mask, bit) ==
  LET m == Grown(mask, bit)
      loc == bit \div Radix + 1
      last == IF loc > Len(m.words) THEN loc ELSE Len(m.words)
  IN  [m EXCEPT !.words = [n \in 1..last |->
                             Part(m, n) \cup (IF n = loc THEN {bit % Radix} ELSE {})]]

BitIsSet(mask, bit) == bit % Radix \in Part(mask, bit \div Radix + 1)

\* _binaryOp: the result has the words of the greater size, as many as that
\* size counts.
Joint(m, n) == NewMask(IF m.size > n.size THEN m.size ELSE n.size)

OrMasks(m, n) == [Joint(m, n) EXCEPT !.words = [i \in DOMAIN @ |-> Part(m, i) \cup Part(n, i)]]
AndMasks(m, n) == [Joint(m, n) EXCEPT !.words = [i \in DOMAIN @ |-> Part(m, i) \cap Part(n, i)]]

EqualMasks(m, n) ==
  \A i \in 1..(IF Len(m.words) > Len(n.words) THEN Len(m.words) ELSE Len(n.words)) :
    Part(m, i) = Part(n, i)

\* toArray
BitsOf(mask) == {Radix * (i - 1) + b : i \in DOMAIN mask.words, b \in 0..(Radix - 1)}
                  \cap {b \in 0..(Radix * Len(mask.words)) : BitIsSet(mask, b)}
==============================================================================
