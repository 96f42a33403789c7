------------------------------- MODULE Bitmap --------------------------------
(***************************************************************************)
(* The bitmap of lib/bitmap (bitmap.c, bitmap.h): bits in an array of      *)
(* unsigned longs.  A word is the set of the numbers of its bits that are  *)
(* 1, so & is an intersection, | a union and a shift a translation; a      *)
(* length or a bit number is an unsigned long and wraps.  A step is one    *)
(* call, one round of the loop of a search, or a return to the caller.     *)
(*                                                                         *)
(* Name_Fault is Name with a plausible mistake; see Workqueue.             *)
(***************************************************************************)
EXTENDS Integers

CONSTANTS
    BITS_PER_LONG,
    ULongs,         \* how many values an unsigned long has, 2^BITS_PER_LONG
    Lengths,        \* the lengths of the bitmaps that callers allocate
    Used,           \* bound: the bits that callers set, clear and test
    NoAnswer,       \* a call has not returned yet
    Void            \* what a void function returns

\* The callers' lengths are those whose BITS_TO_LONGS does not wrap.
ASSUME BitmapAssumption ==
    /\ BITS_PER_LONG \in {2, 4, 8, 16, 32, 64}
    /\ ULongs \in Nat /\ ULongs > BITS_PER_LONG /\ ULongs % BITS_PER_LONG = 0
    /\ Lengths \subseteq 1..(ULongs - BITS_PER_LONG)
    /\ Used \subseteq Nat
    /\ NoAnswer \notin Nat /\ Void \notin Nat /\ NoAnswer # Void

VARIABLES
    nbits,          \* the length of the bitmap, 0 while there is none
    words,          \* the array
    call,           \* the running call with its arguments
    search,         \* Idle, or the locals of _find_next_bit
    ret             \* what the running call is about to return

vars == <<nbits, words, call, search, ret>>

Bits == 0..(BITS_PER_LONG - 1)
Idle == [on |-> FALSE]
NoCall == [op |-> "none"]
Zeroed(n) == [i \in 0..(n - 1) |-> {}]

Init == nbits = 0 /\ words = Zeroed(0) /\ call = NoCall /\ search = Idle /\ ret = NoAnswer

-----------------------------------------------------------------------------
(* bitmap.h, common.h                                                      *)

BIT_WORD(nr) == nr \div BITS_PER_LONG
BIT_MASK(nr) == {nr % BITS_PER_LONG}
BITMAP_FIRST_WORD_MASK_All(start) == Bits
BITMAP_FIRST_WORD_MASK(start) == {b \in Bits : b >= start % BITS_PER_LONG}
round_down(n) == n - (n % BITS_PER_LONG)
BITS_TO_LONGS(n) == ((n + BITS_PER_LONG - 1) % ULongs) \div BITS_PER_LONG
min(a, b) == IF a < b THEN a ELSE b

-----------------------------------------------------------------------------
(* Allocation and single bits.                                             *)

bitmap_alloc(n) ==
    /\ call = NoCall /\ nbits = 0
    /\ nbits' = n /\ words' = Zeroed(BITS_TO_LONGS(n))
    /\ UNCHANGED <<call, search, ret>>

bitmap_free ==
    /\ call = NoCall /\ nbits > 0
    /\ nbits' = 0 /\ words' = Zeroed(0)
    /\ UNCHANGED <<call, search, ret>>

IsSet(nr) == nr % BITS_PER_LONG \in words[BIT_WORD(nr)]
test_bit(nr) == IF IsSet(nr) THEN 1 ELSE 0
With(nr) == words[BIT_WORD(nr)] \cup BIT_MASK(nr)
Without(nr) == words[BIT_WORD(nr)] \ BIT_MASK(nr)

BitCall(op, nr, word, answer) ==
    /\ call = NoCall /\ call' = [op |-> op, nr |-> nr]
    /\ words' = [words EXCEPT ![BIT_WORD(nr)] = word]
    /\ ret' = answer
    /\ UNCHANGED <<nbits, search>>

set_bit(nr) == BitCall("set_bit", nr, With(nr), Void)
clear_bit(nr) == BitCall("clear_bit", nr, Without(nr), Void)
test_and_set_bit(nr) == BitCall("test_and_set_bit", nr, With(nr), test_bit(nr))
test_and_clear_bit(nr) == BitCall("test_and_clear_bit", nr, Without(nr), test_bit(nr))
TestBit(nr) == BitCall("test_bit", nr, words[BIT_WORD(nr)], test_bit(nr))

-----------------------------------------------------------------------------
(* __ffs: the number of the lowest bit of a word that has one.             *)

\* if ((word & (1 << k) - 1) == 0) { num += k; word >>= k; }
Halve(f, k) ==
    IF f.word \cap 0..(k - 1) = {}
    THEN [num |-> f.num + k, word |-> {b - k : b \in f.word}]
    ELSE f

ffs(w) ==
    LET f64 == [num |-> 0, word |-> w]
        f32 == IF BITS_PER_LONG = 64 THEN Halve(f64, 32) ELSE f64
    IN  Halve(Halve(Halve(Halve(Halve(f32, 16), 8), 4), 2), 1).num

-----------------------------------------------------------------------------
(* find_next_bit (member) and find_next_zero_bit, by _find_next_bit.       *)

Fetch(start, member) ==
    IF member THEN words[BIT_WORD(start)] ELSE Bits \ words[BIT_WORD(start)]

Answer(n) == search' = Idle /\ ret' = n

find_next(size, offset, member) ==
    /\ call = NoCall /\ nbits > 0
    /\ call' = [op |-> "find_next", size |-> size, offset |-> offset, member |-> member]
    /\ IF offset >= size
       THEN Answer(size)
       ELSE /\ search' = [on |-> TRUE, start |-> round_down(offset),
                          tmp |-> Fetch(offset, member) \cap BITMAP_FIRST_WORD_MASK(offset)]
            /\ UNCHANGED ret
    /\ UNCHANGED <<nbits, words>>

SearchRound ==
    /\ search.on /\ search.tmp = {}
    /\ LET start == (search.start + BITS_PER_LONG) % ULongs
       IN  IF start >= call.size
           THEN Answer(call.size)
           ELSE search' = [on |-> TRUE, start |-> start, tmp |-> Fetch(start, call.member)] /\ UNCHANGED ret
    /\ UNCHANGED <<nbits, words, call>>

Found_Unbounded == search.start + ffs(search.tmp)
Found == min(search.start + ffs(search.tmp), call.size)

SearchEnd ==
    /\ search.on /\ search.tmp # {}
    /\ Answer(Found)
    /\ UNCHANGED <<nbits, words, call>>

-----------------------------------------------------------------------------
Return ==
    /\ ret # NoAnswer /\ call' = NoCall /\ ret' = NoAnswer
    /\ UNCHANGED <<nbits, words, search>>

\* Callers keep to the bits of their bitmap.
Next ==
    \/ bitmap_free \/ SearchRound \/ SearchEnd \/ Return
    \/ \E n \in Lengths : bitmap_alloc(n)
    \/ \E nr \in Used \cap 0..(nbits - 1) :
         set_bit(nr) \/ clear_bit(nr) \/ test_and_set_bit(nr) \/ test_and_clear_bit(nr) \/ TestBit(nr)
    \/ \E size \in 0..nbits, offset \in 0..nbits, member \in BOOLEAN : find_next(size, offset, member)

Spec == Init /\ [][Next]_vars
=============================================================================
