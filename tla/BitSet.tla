------------------------------- MODULE BitSet --------------------------------
(***************************************************************************)
(* What lib/bitmap promises to its callers: a set of numbers below nbits,  *)
(* which is changed and asked number by number, and searched for the next  *)
(* number that is in it, or is not.  A call is seen with its arguments and *)
(* what it returns.                                                        *)
(*                                                                         *)
(* Bitmap.tla is shown to implement this module.                           *)
(***************************************************************************)
EXTENDS Integers

CONSTANTS Lengths, NoAnswer, Void

VARIABLES
    nbits,      \* the length, 0 while there is no set
    bits,       \* the members
    call,       \* the running call
    ret         \* its answer

vars == <<nbits, bits, call, ret>>

NoCall == [op |-> "none"]

Init == nbits = 0 /\ bits = {} /\ call = NoCall /\ ret = NoAnswer

Alloc(n) == call = NoCall /\ nbits = 0 /\ nbits' = n /\ UNCHANGED <<bits, call, ret>>
Free == call = NoCall /\ nbits > 0 /\ nbits' = 0 /\ bits' = {} /\ UNCHANGED <<call, ret>>

\* 1 or 0, an int of the library.
Asked(nr) == IF nr \in bits THEN 1 ELSE 0

Change(op, nr, changed, answer) ==
    /\ call = NoCall /\ call' = [op |-> op, nr |-> nr]
    /\ bits' = changed /\ ret' = answer
    /\ UNCHANGED nbits

OneBit(nr) ==
    \/ Change("set_bit", nr, bits \cup {nr}, Void)
    \/ Change("clear_bit", nr, bits \ {nr}, Void)
    \/ Change("test_and_set_bit", nr, bits \cup {nr}, Asked(nr))
    \/ Change("test_and_clear_bit", nr, bits \ {nr}, Asked(nr))
    \/ Change("test_bit", nr, bits, Asked(nr))

\* n is the first number from offset on that is in the set, or is not; size if
\* there is none below size.
IsNext(n, size, offset, member) ==
    LET Matching == {m \in offset..(size - 1) : (m \in bits) = member}
    IN  IF Matching = {} THEN n = size ELSE n \in Matching /\ \A m \in Matching : n <= m

Search(size, offset, member) ==
    /\ call = NoCall /\ nbits > 0
    /\ call' = [op |-> "find_next", size |-> size, offset |-> offset, member |-> member]
    /\ ret' = NoAnswer \/ IsNext(ret', size, offset, member)
    /\ UNCHANGED <<nbits, bits>>

Found ==
    /\ call.op = "find_next" /\ ret = NoAnswer
    /\ IsNext(ret', call.size, call.offset, call.member)
    /\ UNCHANGED <<nbits, bits, call>>

Return == ret # NoAnswer /\ call' = NoCall /\ ret' = NoAnswer /\ UNCHANGED <<nbits, bits>>

Next ==
    \/ Free \/ Found \/ Return \/ \E n \in Lengths : Alloc(n)
    \/ \E nr \in 0..(nbits - 1) : OneBit(nr)
    \/ \E size \in 0..nbits, offset \in 0..nbits, member \in BOOLEAN : Search(size, offset, member)

Spec == Init /\ [][Next]_vars
=============================================================================
