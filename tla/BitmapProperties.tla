--------------------------- MODULE BitmapProperties ---------------------------
(***************************************************************************)
(* What makes lib/bitmap correct.                                          *)
(***************************************************************************)
EXTENDS Bitmap

Searches == [on : {TRUE}, start : Nat, tmp : SUBSET Bits]
SearchCalls == [op : {"find_next"}, size : 0..nbits, offset : 0..nbits, member : BOOLEAN]

\* The type of every variable; no answer is there when no call runs, nor while a
\* search does.
TypeOK ==
    /\ nbits \in Lengths \cup {0}
    /\ words \in [0..(BITS_TO_LONGS(nbits) - 1) -> SUBSET Bits]
    /\ call = NoCall => ret = NoAnswer
    /\ \/ search = Idle
       \/ search \in Searches /\ call \in SearchCalls /\ ret = NoAnswer

\* The numbers that are set.
Members == {nr \in 0..(nbits - 1) : IsSet(nr)}

\* What _find_next_bit relies on at the head of its loop: start is the beginning
\* of a word of the bitmap, tmp holds the bits of that word that are looked for
\* and are not before offset, and none lies between offset and start.  So the
\* search reads no word outside the bitmap and passes no bit.
SearchInvariant ==
    search.on =>
      /\ search.start % BITS_PER_LONG = 0 /\ BIT_WORD(search.start) \in DOMAIN words
      /\ call.offset < search.start + BITS_PER_LONG
      /\ search.start < call.size /\ call.size <= nbits
      /\ search.tmp = {b \in Bits : /\ search.start + b >= call.offset
                                    /\ (b \in words[BIT_WORD(search.start)]) = call.member}
      /\ \A n \in call.offset..(search.start - 1) : IsSet(n) # call.member

-----------------------------------------------------------------------------
\* The bitmap implements the set of BitSet: each call answers and changes what
\* the set would, in the first word, in the last one and across words, and a
\* search returns the first number it could, for sizes and offsets that are not
\* multiples of the word.
Numbers == INSTANCE BitSet WITH bits <- Members
ImplementsSet == Numbers!Spec
=============================================================================
