----------------------------- MODULE BitmapProofs -----------------------------
(***************************************************************************)
(* Theorems about lib/bitmap, for every width of a word, every length and  *)
(* every bit: the invariant of a search, what __ffs finds, and that the    *)
(* bitmap implements a set of numbers.                                     *)
(***************************************************************************)
EXTENDS BitmapProperties, DataTheorems, TLAPS

-----------------------------------------------------------------------------
(* Arithmetic of words.  The divisor is one of six numbers; each fact is   *)
(* one about a literal divisor in each of six cases.                       *)

Widths == {2, 4, 8, 16, 32, 64}

LEMMA WordOfNumber ==
    ASSUME NEW d \in Widths, NEW n \in Nat
    PROVE  /\ n \div d \in Nat /\ n % d \in 0..(d - 1)
           /\ n - (n % d) \in Nat /\ n - (n % d) <= n /\ n < n - (n % d) + d
           /\ (n - (n % d)) % d = 0 /\ (n - (n % d)) \div d = n \div d
<1>1. CASE d = 2   BY <1>1
<1>2. CASE d = 4   BY <1>2
<1>3. CASE d = 8   BY <1>3
<1>4. CASE d = 16  BY <1>4
<1>5. CASE d = 32  BY <1>5
<1>6. CASE d = 64  BY <1>6
<1>. QED  BY <1>1, <1>2, <1>3, <1>4, <1>5, <1>6 DEF Widths

LEMMA NumberOfWord ==
    ASSUME NEW d \in Widths, NEW m \in Nat, NEW n \in Nat, m \div d = n \div d, m % d = n % d
    PROVE  m = n
<1>1. CASE d = 2   BY <1>1
<1>2. CASE d = 4   BY <1>2
<1>3. CASE d = 8   BY <1>3
<1>4. CASE d = 16  BY <1>4
<1>5. CASE d = 32  BY <1>5
<1>6. CASE d = 64  BY <1>6
<1>. QED  BY <1>1, <1>2, <1>3, <1>4, <1>5, <1>6 DEF Widths

LEMMA BitOfWord ==
    ASSUME NEW d \in Widths, NEW start \in Nat, start % d = 0, NEW b \in 0..(d - 1)
    PROVE  (start + b) \div d = start \div d /\ (start + b) % d = b /\ (start + d) % d = 0
<1>1. CASE d = 2   BY <1>1
<1>2. CASE d = 4   BY <1>2
<1>3. CASE d = 8   BY <1>3
<1>4. CASE d = 16  BY <1>4
<1>5. CASE d = 32  BY <1>5
<1>6. CASE d = 64  BY <1>6
<1>. QED  BY <1>1, <1>2, <1>3, <1>4, <1>5, <1>6 DEF Widths

LEMMA WordsOfLength ==
    ASSUME NEW d \in Widths, NEW n \in Nat
    PROVE  /\ (n + d - 1) \div d \in Nat
           /\ \A m \in 0..(n - 1) : m \div d \in 0..((n + d - 1) \div d - 1)
<1>1. CASE d = 2   BY <1>1
<1>2. CASE d = 4   BY <1>2
<1>3. CASE d = 8   BY <1>3
<1>4. CASE d = 16  BY <1>4
<1>5. CASE d = 32  BY <1>5
<1>6. CASE d = 64  BY <1>6
<1>. QED  BY <1>1, <1>2, <1>3, <1>4, <1>5, <1>6 DEF Widths

\* A sum below the last unsigned long does not wrap.
LEMMA NoWrap == ASSUME NEW u \in Nat, NEW n \in Nat, n < u PROVE n % u = n
  BY SMT

\* The same for the definitions of Bitmap.
LEMMA Words ==
    ASSUME BitmapAssumption, NEW n \in Nat
    PROVE  /\ BIT_WORD(n) \in Nat /\ n % BITS_PER_LONG \in Bits
           /\ round_down(n) \in Nat /\ round_down(n) <= n /\ n < round_down(n) + BITS_PER_LONG
           /\ round_down(n) % BITS_PER_LONG = 0 /\ BIT_WORD(round_down(n)) = BIT_WORD(n)
  BY WordOfNumber DEF BitmapAssumption, Widths, BIT_WORD, Bits, round_down

LEMMA SameBit ==
    ASSUME BitmapAssumption, NEW m \in Nat, NEW n \in Nat,
           BIT_WORD(m) = BIT_WORD(n), m % BITS_PER_LONG = n % BITS_PER_LONG
    PROVE  m = n
  BY NumberOfWord DEF BitmapAssumption, Widths, BIT_WORD

LEMMA BitOf ==
    ASSUME BitmapAssumption, NEW start \in Nat, start % BITS_PER_LONG = 0, NEW b \in Bits
    PROVE  /\ BIT_WORD(start + b) = BIT_WORD(start) /\ (start + b) % BITS_PER_LONG = b
           /\ (start + BITS_PER_LONG) % BITS_PER_LONG = 0
<1>1. BITS_PER_LONG \in Widths /\ b \in 0..(BITS_PER_LONG - 1)
  BY DEF BitmapAssumption, Widths, Bits
<1>. QED  BY <1>1, BitOfWord, Zenon DEF BIT_WORD

\* The words of a bitmap hold all of its bits, and adding a word to a number
\* below its length does not wrap.
LEMMA WordsHold ==
    ASSUME BitmapAssumption, NEW n \in Lengths \cup {0}
    PROVE  /\ n \in Nat /\ BITS_TO_LONGS(n) \in Nat
           /\ \A m \in 0..(n - 1) : /\ BIT_WORD(m) \in 0..(BITS_TO_LONGS(n) - 1)
                                    /\ (m + BITS_PER_LONG) % ULongs = m + BITS_PER_LONG
<1>1. n \in Nat /\ BITS_PER_LONG \in Nat \ {0} /\ BITS_PER_LONG \in Widths /\ ULongs \in Nat
  BY SMT DEF BitmapAssumption, Widths
<1>2. n + BITS_PER_LONG - 1 < ULongs /\ n + BITS_PER_LONG - 1 \in Nat
  BY <1>1, SMT DEF BitmapAssumption
<1>3. BITS_TO_LONGS(n) = (n + BITS_PER_LONG - 1) \div BITS_PER_LONG
  BY <1>1, <1>2, NoWrap DEF BITS_TO_LONGS
<1>4. \A m \in 0..(n - 1) : m + BITS_PER_LONG \in Nat /\ m + BITS_PER_LONG < ULongs
  BY <1>1, <1>2, SMT
<1>5. \A m \in 0..(n - 1) : (m + BITS_PER_LONG) % ULongs = m + BITS_PER_LONG
  BY <1>1, <1>4, NoWrap
<1>. QED  BY <1>1, <1>3, <1>5, WordsOfLength DEF BIT_WORD

-----------------------------------------------------------------------------
(* __ffs.                                                                  *)

Lowest(b, w) == b \in w /\ \A c \in w : b <= c

\* What is left of the search for the lowest bit of w: it is bit b of f.word.
Left(f, b, w) ==
    /\ f = [num |-> f.num, word |-> f.word] /\ f.num \in Nat /\ f.word \subseteq Nat
    /\ b \in Nat /\ Lowest(b, f.word) /\ Lowest(f.num + b, w)

\* ... and among the first n bits of it.
Within(f, n, w) == \E b : Left(f, b, w) /\ b < n

\* One step of __ffs halves the range of the bit that is looked for.
LEMMA HalveStep ==
    ASSUME NEW f, NEW w, NEW k \in Nat, NEW n, n = 2 * k, Within(f, n, w)
    PROVE  Within(Halve(f, k), k, w)
<1>1. PICK b : Left(f, b, w) /\ b < 2 * k
  BY DEF Within
<1> USE DEF Left
<1>2. CASE f.word \cap 0..(k - 1) = {}
  <2>1. \A c \in f.word : c \in Nat /\ c >= k
    BY <1>1, <1>2, SMT
  <2> DEFINE g == [num |-> f.num + k, word |-> {c - k : c \in f.word}]
  <2>2. Halve(f, k) = g
    BY <1>2 DEF Halve
  <2>3. g.num \in Nat /\ g.word \subseteq Nat /\ b - k \in Nat /\ b - k < k
    BY <1>1, <2>1, SMT DEF Lowest
  <2>4. Lowest(b - k, g.word)
    BY <1>1, <2>1, SMT DEF Lowest
  <2>5. g.num + (b - k) = f.num + b
    BY <1>1, <2>3, SMT
  <2>6. Left(g, b - k, w)
    BY <1>1, <2>3, <2>4, <2>5
  <2>. QED  BY <2>2, <2>3, <2>6 DEF Within
<1>3. CASE f.word \cap 0..(k - 1) # {}
  <2>1. Halve(f, k) = f
    BY <1>3 DEF Halve
  <2>2. b < k
    BY <1>1, <1>3, SMT DEF Lowest
  <2>. QED  BY <1>1, <2>1, <2>2 DEF Within
<1>. QED  BY <1>2, <1>3

\* __ffs finds the lowest bit of every word that has one.
THEOREM FindsFirstBit ==
    ASSUME BitmapAssumption, NEW w \in SUBSET Bits, w # {}
    PROVE  ffs(w) \in Bits /\ Lowest(ffs(w), w)
<1>0. w \subseteq Nat /\ BITS_PER_LONG \in Widths
  BY SMT DEF Bits, BitmapAssumption, Widths
<1>1. PICK b \in w : Lowest(b, w)
  BY <1>0, LeastNumber DEF Lowest
<1> DEFINE f64 == [num |-> 0, word |-> w]
           f32 == IF BITS_PER_LONG = 64 THEN Halve(f64, 32) ELSE f64
           f16 == Halve(f32, 16)
           f8  == Halve(f16, 8)
           f4  == Halve(f8, 4)
           f2  == Halve(f4, 2)
           f1  == Halve(f2, 1)
<1>2. Left(f64, b, w) /\ b < BITS_PER_LONG
  BY <1>0, <1>1, SMT DEF Left, Lowest, Bits, Widths
<1>3. ffs(w) = f1.num
  BY DEF ffs
<1>4. 64 = 2 * 32 /\ 32 = 2 * 16 /\ 16 = 2 * 8 /\ 8 = 2 * 4 /\ 4 = 2 * 2 /\ 2 = 2 * 1
  BY SMT
<1>5. \A k \in {1, 2, 4, 8, 16, 32} : k \in Nat
  BY SMT
<1> HIDE DEF f64
<1>6. Within(f32, 32, w)
  <2>1. CASE BITS_PER_LONG = 64
    <3>1. Within(f64, 64, w)
      BY <1>2, <2>1 DEF Within
    <3>2. Within(Halve(f64, 32), 32, w)
      BY <1>4, <1>5, <3>1, HalveStep, Zenon
    <3>. QED  BY <2>1, <3>2
  <2>2. CASE BITS_PER_LONG # 64
    <3>1. b < 32
      BY <1>0, <1>2, <2>2, SMT DEF Widths, Left
    <3>. QED  BY <1>2, <2>2, <3>1 DEF Within
  <2>. QED  BY <2>1, <2>2
<1> HIDE DEF f32
<1>7. Within(f16, 16, w)
  BY <1>4, <1>5, <1>6, HalveStep, Zenon
<1> HIDE DEF f16
<1>8. Within(f8, 8, w)
  BY <1>4, <1>5, <1>7, HalveStep, Zenon
<1> HIDE DEF f8
<1>9. Within(f4, 4, w)
  BY <1>4, <1>5, <1>8, HalveStep, Zenon
<1> HIDE DEF f4
<1>10. Within(f2, 2, w)
  BY <1>4, <1>5, <1>9, HalveStep, Zenon
<1> HIDE DEF f2
<1>11. Within(f1, 1, w)
  BY <1>4, <1>5, <1>10, HalveStep, Zenon
<1> HIDE DEF f1
<1>12. PICK c : Left(f1, c, w) /\ c < 1
  BY <1>11 DEF Within
<1>13. c = 0 /\ f1.num + c = f1.num
  BY <1>12, SMT DEF Left
<1>. QED  BY <1>3, <1>12, <1>13 DEF Left, Lowest

-----------------------------------------------------------------------------
(* The invariant of a search.                                              *)

BInv == TypeOK /\ SearchInvariant

LEMMA NoWords == ASSUME BitmapAssumption PROVE BITS_TO_LONGS(0) = 0
<1>1. BITS_PER_LONG \in Widths /\ BITS_PER_LONG \in Nat \ {0} /\ ULongs \in Nat /\ 0 + BITS_PER_LONG - 1 < ULongs
  BY SMT DEF BitmapAssumption, Widths
<1>2. BITS_TO_LONGS(0) = (0 + BITS_PER_LONG - 1) \div BITS_PER_LONG
  BY <1>1, NoWrap DEF BITS_TO_LONGS
<1>. QED  BY <1>1, <1>2 DEF Widths

LEMMA NotSearching == ASSUME search = Idle PROVE SearchInvariant
<1>1. ~search.on
  BY DEF Idle
<1>. QED  BY <1>1, Zenon DEF SearchInvariant

LEMMA InitBInv == ASSUME BitmapAssumption, Init PROVE BInv
<1>1. words \in [0..(BITS_TO_LONGS(nbits) - 1) -> SUBSET Bits]
  BY NoWords DEF Init, Zeroed
<1>2. nbits \in Lengths \cup {0} /\ search = Idle /\ ret = NoAnswer
  BY DEF Init
<1>. QED  BY <1>1, <1>2, NotSearching, Zenon DEF BInv, TypeOK

\* A call that finds no search running and starts none keeps the invariant if
\* it leaves an array of the right length.
LEMMA NoSearchStep ==
    ASSUME BInv, call = NoCall, search' = search, nbits' \in Lengths \cup {0},
           words' \in [0..(BITS_TO_LONGS(nbits') - 1) -> SUBSET Bits],
           call' = NoCall => ret' = NoAnswer
    PROVE  search = Idle /\ BInv'
<1>1. search = Idle
  BY DEF BInv, TypeOK, SearchCalls, NoCall
<1>2. (search = Idle)' /\ Idle' = Idle
  BY <1>1 DEF Idle
<1>3. SearchInvariant'
  <2>1. ~search'.on
    BY <1>1 DEF Idle
  <2>. QED  BY <2>1, Zenon DEF SearchInvariant
<1>4. /\ (words \in [0..(BITS_TO_LONGS(nbits) - 1) -> SUBSET Bits])'
      /\ (call = NoCall => ret = NoAnswer)'
  BY DEF Bits, BITS_TO_LONGS, NoCall
<1>. QED  BY <1>1, <1>2, <1>3, <1>4, Zenon DEF BInv, TypeOK

LEMMA AllocStep == ASSUME BitmapAssumption, BInv, NEW n \in Lengths, bitmap_alloc(n) PROVE BInv'
<1>1. words' \in [0..(BITS_TO_LONGS(nbits') - 1) -> SUBSET Bits]
  BY DEF bitmap_alloc, Zeroed
<1>. QED  BY <1>1, NoSearchStep DEF bitmap_alloc, BInv, TypeOK

LEMMA FreeStep == ASSUME BitmapAssumption, BInv, bitmap_free PROVE BInv'
<1>1. BITS_TO_LONGS(0) = 0
  BY NoWords
<1>2. words' \in [0..(BITS_TO_LONGS(nbits') - 1) -> SUBSET Bits]
  BY <1>1 DEF bitmap_free, Zeroed
<1>. QED  BY <1>2, NoSearchStep DEF bitmap_free, BInv, TypeOK

LEMMA BitCallStep ==
    ASSUME BInv, NEW op, op # "none", NEW nr, NEW word \in SUBSET Bits, NEW answer, BitCall(op, nr, word, answer)
    PROVE  BInv'
<1>1. words' \in [0..(BITS_TO_LONGS(nbits) - 1) -> SUBSET Bits]
  BY DEF BInv, TypeOK, BitCall
<1>2. call' # NoCall
  BY DEF BitCall, NoCall
<1>. QED  BY <1>1, <1>2, NoSearchStep DEF BitCall, BInv, TypeOK

LEMMA BitStep ==
    ASSUME BitmapAssumption, BInv, NEW nr \in 0..(nbits - 1),
           set_bit(nr) \/ clear_bit(nr) \/ test_and_set_bit(nr) \/ test_and_clear_bit(nr) \/ TestBit(nr)
    PROVE  BInv'
<1>1. nbits \in Nat /\ nr \in Nat /\ BIT_WORD(nr) \in 0..(BITS_TO_LONGS(nbits) - 1)
  BY WordsHold, SMT DEF BInv, TypeOK
<1>2. words[BIT_WORD(nr)] \in SUBSET Bits /\ nr % BITS_PER_LONG \in Bits
  BY <1>1, Words DEF BInv, TypeOK
<1>3. With(nr) \in SUBSET Bits /\ Without(nr) \in SUBSET Bits
  BY <1>2 DEF With, Without, BIT_MASK
<1>4. \E op, answer : \E word \in SUBSET Bits : op # "none" /\ BitCall(op, nr, word, answer)
  BY <1>2, <1>3 DEF set_bit, clear_bit, test_and_set_bit, test_and_clear_bit, TestBit
<1>. QED  BY <1>4, BitCallStep

\* What is looked for in the word of start.
LEMMA FetchIs ==
    ASSUME BInv, NEW start, BIT_WORD(start) \in DOMAIN words, NEW member \in BOOLEAN
    PROVE  /\ Fetch(start, member) \in SUBSET Bits
           /\ \A b \in Bits : b \in Fetch(start, member) <=> (b \in words[BIT_WORD(start)]) = member
<1>1. words[BIT_WORD(start)] \in SUBSET Bits
  BY DEF BInv, TypeOK
<1>2. CASE member = TRUE
  BY <1>1, <1>2 DEF Fetch
<1>3. CASE member = FALSE
  BY <1>1, <1>3 DEF Fetch
<1>. QED  BY <1>2, <1>3

LEMMA FindStep ==
    ASSUME BitmapAssumption, BInv, NEW size \in 0..nbits, NEW offset \in 0..nbits,
           NEW member \in BOOLEAN, find_next(size, offset, member)
    PROVE  BInv'
<1>1. CASE offset >= size
  <2>1. search = Idle
    BY DEF BInv, TypeOK, SearchCalls, find_next, NoCall
  <2>2. search' = search /\ call = NoCall /\ UNCHANGED <<nbits, words>>
    BY <1>1, <2>1 DEF find_next, Answer
  <2>3. call' # NoCall
    BY DEF find_next, NoCall
  <2>. QED  BY <2>2, <2>3, NoSearchStep DEF BInv, TypeOK
<1>2. CASE ~(offset >= size)
  <2> DEFINE start == round_down(offset)
             tmp == Fetch(offset, member) \cap BITMAP_FIRST_WORD_MASK(offset)
             asked == [op |-> "find_next", size |-> size, offset |-> offset, member |-> member]
  <2>1. /\ search' = [on |-> TRUE, start |-> start, tmp |-> tmp]
        /\ call' = asked /\ UNCHANGED <<nbits, words, ret>>
    BY <1>2, Zenon DEF find_next
  <2>2. nbits \in Nat /\ offset \in Nat /\ size \in Nat /\ offset < size /\ size <= nbits /\ offset \in 0..(nbits - 1)
    BY <1>2, WordsHold, SMT DEF BInv, TypeOK
  <2>3. /\ start \in Nat /\ start <= offset /\ offset < start + BITS_PER_LONG
        /\ start % BITS_PER_LONG = 0 /\ BIT_WORD(start) = BIT_WORD(offset)
    BY <2>2, Words
  <2>4. BIT_WORD(offset) \in DOMAIN words
    BY <2>2, WordsHold DEF BInv, TypeOK
  <2>5. tmp \in SUBSET Bits
    BY <2>4, FetchIs
  <2>6. \A b \in Bits : b >= offset % BITS_PER_LONG <=> start + b >= offset
    <3>1. offset % BITS_PER_LONG \in Nat /\ BITS_PER_LONG \in Nat
      BY <2>2, Words, SMT DEF Bits, BitmapAssumption
    <3>. QED  BY <2>2, <3>1, SMT DEF round_down, Bits
  <2>7. tmp = {b \in Bits : start + b >= offset /\ (b \in words[BIT_WORD(start)]) = member}
    <3>1. \A b \in Bits : b \in Fetch(offset, member) <=> (b \in words[BIT_WORD(start)]) = member
      BY <2>3, <2>4, FetchIs
    <3>2. \A b \in Bits : b \in BITMAP_FIRST_WORD_MASK(offset) <=> start + b >= offset
      BY <2>6 DEF BITMAP_FIRST_WORD_MASK
    <3> HIDE DEF start
    <3>. QED  BY <2>5, <3>1, <3>2, Zenon
  <2>8. \A n \in offset..(start - 1) : FALSE
    BY <2>2, <2>3, SMT
  <2>9. start < size
    BY <2>2, <2>3, SMT
  <2>10. TypeOK'
    <3>1. search' \in Searches
      BY <2>1, <2>3, <2>5 DEF Searches
    <3>2. (call \in SearchCalls)'
      BY <2>1, <2>2 DEF SearchCalls
    <3>3. ret' = NoAnswer
      BY <2>1 DEF BInv, TypeOK, find_next
    <3>. QED  BY <2>1, <3>1, <3>2, <3>3 DEF BInv, TypeOK, Searches, Bits, BITS_TO_LONGS
  <2> HIDE DEF start, tmp
  <2>11. SearchInvariant'
    <3>1. /\ search'.start = start /\ search'.tmp = tmp
          /\ call'.size = size /\ call'.offset = offset /\ call'.member = member
      BY <2>1
    <3>. QED  BY <2>1, <2>2, <2>3, <2>4, <2>7, <2>8, <2>9, <3>1 DEF SearchInvariant, BIT_WORD, Bits
  <2>. QED  BY <2>10, <2>11 DEF BInv
<1>. QED  BY <1>1, <1>2

\* What is known while a search runs.
LEMMA Searching ==
    ASSUME BitmapAssumption, BInv, search.on
    PROVE  /\ search \in Searches /\ call \in SearchCalls /\ ret = NoAnswer /\ call # NoCall
           /\ nbits \in Nat /\ call.size \in 0..nbits /\ call.offset \in 0..nbits /\ call.member \in BOOLEAN
           /\ search.start \in 0..(call.size - 1) /\ search.start \in 0..(nbits - 1)
           /\ search.start % BITS_PER_LONG = 0 /\ BIT_WORD(search.start) \in DOMAIN words
           /\ call.offset < search.start + BITS_PER_LONG
           /\ search.tmp = {b \in Bits : /\ search.start + b >= call.offset
                                         /\ (b \in words[BIT_WORD(search.start)]) = call.member}
           /\ \A n \in call.offset..(search.start - 1) : IsSet(n) # call.member
<1>1. search # Idle
  BY DEF Idle
<1>2. search \in Searches /\ call \in SearchCalls /\ ret = NoAnswer /\ nbits \in Lengths \cup {0}
  BY <1>1, Zenon DEF BInv, TypeOK
<1>3. nbits \in Nat /\ search.start \in Nat
  BY <1>2, WordsHold DEF Searches
<1>4. call.size \in 0..nbits /\ call.offset \in 0..nbits /\ call.member \in BOOLEAN /\ call # NoCall
  BY <1>2 DEF SearchCalls, NoCall
<1>5. /\ search.start % BITS_PER_LONG = 0 /\ BIT_WORD(search.start) \in DOMAIN words
      /\ call.offset < search.start + BITS_PER_LONG /\ search.start < call.size /\ call.size <= nbits
      /\ search.tmp = {b \in Bits : /\ search.start + b >= call.offset
                                    /\ (b \in words[BIT_WORD(search.start)]) = call.member}
      /\ \A n \in call.offset..(search.start - 1) : IsSet(n) # call.member
  BY Zenon DEF BInv, SearchInvariant
<1>6. search.start \in 0..(call.size - 1) /\ search.start \in 0..(nbits - 1)
  BY <1>3, <1>4, <1>5, SMT
<1>. QED  BY <1>2, <1>3, <1>4, <1>5, <1>6

\* A number that is looked for in the word of start is a bit of tmp.
LEMMA InTmp ==
    ASSUME BitmapAssumption, BInv, search.on,
           NEW n \in search.start..(search.start + BITS_PER_LONG - 1), n >= call.offset, IsSet(n) = call.member
    PROVE  \E b \in search.tmp : n = search.start + b
<1>1. search.start \in Nat /\ BITS_PER_LONG \in Nat
  BY Searching, SMT DEF BitmapAssumption
<1>2. PICK b \in Bits : n = search.start + b
  <2>1. n - search.start \in Bits /\ n = search.start + (n - search.start)
    BY <1>1, SMT DEF Bits
  <2>. QED  BY <2>1
<1>3. BIT_WORD(n) = BIT_WORD(search.start) /\ n % BITS_PER_LONG = b
  BY <1>1, <1>2, Searching, BitOf
<1>. QED  BY <1>2, <1>3, Searching DEF IsSet

\* A word without the bits that are looked for is passed.
LEMMA WordPassed ==
    ASSUME BitmapAssumption, BInv, search.on, search.tmp = {}
    PROVE  \A n \in call.offset..(search.start + BITS_PER_LONG - 1) : IsSet(n) # call.member
<1>1. search.start \in Nat /\ BITS_PER_LONG \in Nat /\ call.offset \in Nat
  BY Searching, SMT DEF BitmapAssumption
<1>2. SUFFICES ASSUME NEW n \in search.start..(search.start + BITS_PER_LONG - 1), n >= call.offset
               PROVE  IsSet(n) # call.member
  BY <1>1, Searching, SMT
<1>. QED  BY <1>2, InTmp

LEMMA SearchRoundStep == ASSUME BitmapAssumption, BInv, SearchRound PROVE BInv'
<1> DEFINE start == search.start
           next == start + BITS_PER_LONG
<1>0. search.on /\ search.tmp = {}
  BY DEF SearchRound
<1>1. search \in Searches /\ call \in SearchCalls /\ ret = NoAnswer /\ nbits \in Lengths \cup {0}
  BY <1>0, Searching DEF BInv, TypeOK
<1>2. /\ start \in Nat /\ nbits \in Nat /\ BITS_PER_LONG \in Nat
      /\ call.size \in 0..nbits /\ call.offset \in 0..nbits /\ call.member \in BOOLEAN
      /\ call # NoCall
  BY <1>0, Searching, SMT DEF BitmapAssumption
<1>3. start % BITS_PER_LONG = 0 /\ call.offset < next /\ start < call.size /\ call.size <= nbits
  BY <1>0, Searching, SMT
<1>4. start \in 0..(nbits - 1)
  BY <1>2, <1>3, SMT
<1>5. (start + BITS_PER_LONG) % ULongs = next
  BY <1>1, <1>4, WordsHold
<1>6. \A n \in call.offset..(next - 1) : IsSet(n) # call.member
  <2>1. \A n \in call.offset..(start + BITS_PER_LONG - 1) : IsSet(n) # call.member
    BY <1>0, WordPassed
  <2>2. start + BITS_PER_LONG - 1 = next - 1
    BY <1>2, SMT
  <2>. QED  BY <2>1, <2>2, Zenon
<1>7. CASE next >= call.size
  <2>1. search' = Idle /\ UNCHANGED <<nbits, words, call>>
    BY <1>5, <1>7 DEF SearchRound, Answer
  <2>2. ~search'.on
    BY <2>1 DEF Idle
  <2>3. SearchInvariant'
    BY <2>2, Zenon DEF SearchInvariant
  <2>4. TypeOK'
    BY <1>2, <2>1 DEF BInv, TypeOK, Idle, NoCall, Bits, BITS_TO_LONGS
  <2>. QED  BY <2>3, <2>4 DEF BInv
<1>8. CASE ~(next >= call.size)
  <2>1. /\ search' = [on |-> TRUE, start |-> next, tmp |-> Fetch(next, call.member)]
        /\ UNCHANGED <<nbits, words, call, ret>>
    BY <1>5, <1>8, Zenon DEF SearchRound
  <2>2. /\ next \in Nat /\ next \in 0..(nbits - 1) /\ next < call.size
        /\ call.offset < next + BITS_PER_LONG /\ \A b \in Bits : next + b >= call.offset
    BY <1>2, <1>3, <1>8, SMT DEF Bits, BitmapAssumption
  <2>3. next % BITS_PER_LONG = 0 /\ BIT_WORD(next) \in DOMAIN words
    <3>1. 0 \in Bits
      BY SMT DEF Bits, BitmapAssumption
    <3>2. next % BITS_PER_LONG = 0
      BY <1>2, <1>3, <3>1, BitOf
    <3>. QED  BY <1>1, <2>2, <3>2, WordsHold DEF BInv, TypeOK
  <2>4. /\ Fetch(next, call.member) \in SUBSET Bits
        /\ \A b \in Bits : b \in Fetch(next, call.member) <=> (b \in words[BIT_WORD(next)]) = call.member
    BY <1>2, <2>3, FetchIs
  <2>5. TypeOK'
    <3>1. search' \in Searches
      BY <2>1, <2>2, <2>4 DEF Searches
    <3>. QED  BY <1>1, <2>1, <3>1 DEF BInv, TypeOK, Searches, SearchCalls, Bits, BITS_TO_LONGS
  <2>6. SearchInvariant'
    <3>1. search'.start = next /\ search'.tmp = Fetch(next, call.member)
      BY <2>1
    <3> HIDE DEF next
    <3>2. search'.tmp = {b \in Bits : next + b >= call.offset /\ (b \in words[BIT_WORD(next)]) = call.member}
      BY <2>2, <2>4, <3>1, Zenon
    <3>. QED  BY <1>3, <1>6, <2>1, <2>2, <2>3, <3>1, <3>2 DEF SearchInvariant, IsSet, BIT_WORD, Bits
  <2>. QED  BY <2>5, <2>6 DEF BInv
<1>. QED  BY <1>7, <1>8

LEMMA SearchEndStep == ASSUME BInv, SearchEnd PROVE BInv'
<1>1. search # Idle /\ search' = Idle /\ UNCHANGED <<nbits, words, call>>
  BY DEF SearchEnd, Answer, Idle
<1>2. call # NoCall
  BY <1>1 DEF BInv, TypeOK, SearchCalls, NoCall
<1>3. ~search'.on
  BY <1>1 DEF Idle
<1>4. SearchInvariant'
  BY <1>3, Zenon DEF SearchInvariant
<1>5. TypeOK'
  BY <1>1, <1>2 DEF BInv, TypeOK, Idle, NoCall, Bits, BITS_TO_LONGS
<1>. QED  BY <1>4, <1>5 DEF BInv

LEMMA ReturnStep == ASSUME BInv, Return PROVE BInv'
<1>1. search = Idle /\ search' = Idle /\ ret' = NoAnswer /\ UNCHANGED <<nbits, words>>
  BY DEF BInv, TypeOK, Return, Idle
<1>3. ~search'.on
  BY <1>1 DEF Idle
<1>4. SearchInvariant'
  BY <1>3, Zenon DEF SearchInvariant
<1>5. TypeOK'
  BY <1>1 DEF BInv, TypeOK, Idle, Bits, BITS_TO_LONGS
<1>. QED  BY <1>4, <1>5 DEF BInv

LEMMA NextStep == ASSUME BitmapAssumption, BInv, [Next]_vars PROVE BInv'
<1>1. CASE bitmap_free
  BY <1>1, FreeStep
<1>2. CASE SearchRound
  BY <1>2, SearchRoundStep
<1>3. CASE SearchEnd
  BY <1>3, SearchEndStep
<1>4. CASE Return
  BY <1>4, ReturnStep
<1>5. CASE \E n \in Lengths : bitmap_alloc(n)
  BY <1>5, AllocStep
<1>6. CASE \E nr \in Used \cap 0..(nbits - 1) :
             set_bit(nr) \/ clear_bit(nr) \/ test_and_set_bit(nr) \/ test_and_clear_bit(nr) \/ TestBit(nr)
  BY <1>6, BitStep
<1>7. CASE \E size \in 0..nbits, offset \in 0..nbits, member \in BOOLEAN : find_next(size, offset, member)
  BY <1>7, FindStep
<1>8. CASE UNCHANGED vars
  <2>1. UNCHANGED <<nbits, words, search, call, ret>>
    BY <1>8 DEF vars
  <2>2. TypeOK'
    BY <2>1 DEF BInv, TypeOK, Searches, SearchCalls
  <2>3. SearchInvariant'
    BY <2>1 DEF BInv, SearchInvariant, IsSet
  <2>. QED  BY <2>2, <2>3 DEF BInv
<1>. QED  BY <1>1, <1>2, <1>3, <1>4, <1>5, <1>6, <1>7, <1>8 DEF Next

\* The types and the invariant of the search hold in every state, for every width
\* of a word and all lengths whose BITS_TO_LONGS does not wrap.
THEOREM BitmapInvariant == Spec => []BInv
<1>1. Init => BInv
  BY BitmapAssumption, InitBInv
<1>2. BInv /\ [Next]_vars => BInv'
  BY BitmapAssumption, NextStep
<1>. QED  BY <1>1, <1>2, PTL DEF Spec

\* Every round of _find_next_bit begins at a word inside the bitmap, looks for
\* what it should in it and has passed no bit it looks for.
THEOREM SearchIsSound == Spec => []SearchInvariant
<1>1. BInv => SearchInvariant
  BY DEF BInv
<1>. QED  BY <1>1, BitmapInvariant, PTL

-----------------------------------------------------------------------------
(* The bitmap implements the set of its members.                           *)

\* The bit of a number is in a word that the array has.
LEMMA InDomain ==
    ASSUME BitmapAssumption, BInv, NEW n \in 0..(nbits - 1)
    PROVE  n \in Nat /\ BIT_WORD(n) \in DOMAIN words
<1>1. nbits \in Nat
  BY WordsHold DEF BInv, TypeOK
<1>2. n \in Nat
  BY <1>1, SMT
<1>. QED  BY <1>2, WordsHold DEF BInv, TypeOK

\* Writing the bit of a number changes the membership of that number alone.
LEMMA OneMemberChanges ==
    ASSUME BitmapAssumption, BInv, NEW nr \in 0..(nbits - 1), UNCHANGED nbits, NEW word,
           words' = [words EXCEPT ![BIT_WORD(nr)] = word],
           \A b : b # nr % BITS_PER_LONG => (b \in word <=> b \in words[BIT_WORD(nr)])
    PROVE  /\ nr % BITS_PER_LONG \in word => Members' = Members \cup {nr}
           /\ nr % BITS_PER_LONG \notin word => Members' = Members \ {nr}
<1>1. ASSUME NEW n \in 0..(nbits - 1), n # nr PROVE IsSet(n)' <=> IsSet(n)
  <2>1. n \in Nat /\ nr \in Nat /\ BIT_WORD(n) \in DOMAIN words
    BY InDomain
  <2>2. IsSet(n)' <=> n % BITS_PER_LONG \in words'[BIT_WORD(n)]
    BY DEF IsSet, BIT_WORD
  <2>3. CASE BIT_WORD(n) # BIT_WORD(nr)
    BY <2>1, <2>2, <2>3 DEF IsSet
  <2>4. CASE BIT_WORD(n) = BIT_WORD(nr)
    <3>1. n % BITS_PER_LONG # nr % BITS_PER_LONG
      BY <1>1, <2>1, <2>4, SameBit
    <3>2. words'[BIT_WORD(n)] = word
      BY <2>1, <2>4
    <3>. QED  BY <2>2, <2>4, <3>1, <3>2 DEF IsSet
  <2>. QED  BY <2>3, <2>4
<1>2. IsSet(nr)' <=> nr % BITS_PER_LONG \in word
  <2>1. words'[BIT_WORD(nr)] = word
    BY InDomain
  <2>. QED  BY <2>1 DEF IsSet, BIT_WORD
<1>3. \A n : n \in Members' <=> n \in 0..(nbits - 1) /\ IsSet(n)'
  BY DEF Members
<1>4. \A n : n \in Members <=> n \in 0..(nbits - 1) /\ IsSet(n)
  BY DEF Members
<1>5. \A n : n # nr => (n \in Members' <=> n \in Members)
  BY <1>1, <1>3, <1>4, Zenon
<1>6. nr \in Members' <=> nr % BITS_PER_LONG \in word
  BY <1>2, <1>3, Zenon
<1>7. ASSUME nr % BITS_PER_LONG \in word PROVE Members' = Members \cup {nr}
  <2>1. \A n : n \in Members' <=> n \in Members \cup {nr}
    BY <1>5, <1>6, <1>7, Zenon
  <2>. QED  BY <2>1, Zenon
<1>8. ASSUME nr % BITS_PER_LONG \notin word PROVE Members' = Members \ {nr}
  <2>1. \A n : n \in Members' <=> n \in Members \ {nr}
    BY <1>5, <1>6, <1>8, Zenon
  <2>. QED  BY <2>1, Zenon
<1>. QED  BY <1>7, <1>8

LEMMA InitImplements == ASSUME Init PROVE Numbers!Init
<1>1. Members = {}
  BY DEF Members, Init
<1>. QED  BY <1>1 DEF Init, Numbers!Init, NoCall, Numbers!NoCall

LEMMA AllocImplements ==
    ASSUME BitmapAssumption, BInv, NEW n \in Lengths, bitmap_alloc(n) PROVE Numbers!Alloc(n)
<1>1. BInv'
  BY AllocStep
<1>2. Members = {}
  BY DEF Members, bitmap_alloc
<1>3. nbits' = n /\ words' = [i \in 0..(BITS_TO_LONGS(n) - 1) |-> {}]
  BY DEF bitmap_alloc, Zeroed
<1>4. \A m \in 0..(n - 1) : BIT_WORD(m) \in 0..(BITS_TO_LONGS(n) - 1)
  BY WordsHold
<1>5. \A m \in 0..(n - 1) : ~IsSet(m)'
  BY <1>3, <1>4 DEF IsSet, BIT_WORD
<1>6. Members' = {}
  BY <1>3, <1>5 DEF Members
<1>. QED  BY <1>2, <1>6 DEF bitmap_alloc, Numbers!Alloc, NoCall, Numbers!NoCall

LEMMA FreeImplements == ASSUME bitmap_free PROVE Numbers!Free
<1>1. Members' = {}
  BY DEF Members, bitmap_free
<1>. QED  BY <1>1 DEF bitmap_free, Numbers!Free, NoCall, Numbers!NoCall

LEMMA BitImplements ==
    ASSUME BitmapAssumption, BInv, NEW nr \in 0..(nbits - 1),
           set_bit(nr) \/ clear_bit(nr) \/ test_and_set_bit(nr) \/ test_and_clear_bit(nr) \/ TestBit(nr)
    PROVE  Numbers!OneBit(nr)
<1> DEFINE b == nr % BITS_PER_LONG
           word == words[BIT_WORD(nr)]
<1>1. b \in With(nr) /\ \A c : c # b => (c \in With(nr) <=> c \in word)
  BY DEF With, BIT_MASK
<1>2. b \notin Without(nr) /\ \A c : c # b => (c \in Without(nr) <=> c \in word)
  BY DEF Without, BIT_MASK
<1>3. (b \in word <=> nr \in Members) /\ test_bit(nr) = Numbers!Asked(nr)
  BY DEF Members, IsSet, test_bit, Numbers!Asked
<1> HIDE DEF b, word
<1>4. ASSUME NEW op, NEW answer, BitCall(op, nr, With(nr), answer)
      PROVE  Numbers!Change(op, nr, Members \cup {nr}, answer)
  <2>1. Members' = Members \cup {nr}
    BY <1>1, <1>4, OneMemberChanges DEF BitCall, b, word
  <2>. QED  BY <1>4, <2>1 DEF BitCall, Numbers!Change, NoCall, Numbers!NoCall
<1>5. ASSUME NEW op, NEW answer, BitCall(op, nr, Without(nr), answer)
      PROVE  Numbers!Change(op, nr, Members \ {nr}, answer)
  <2>1. Members' = Members \ {nr}
    BY <1>2, <1>5, OneMemberChanges DEF BitCall, b, word
  <2>. QED  BY <1>5, <2>1 DEF BitCall, Numbers!Change, NoCall, Numbers!NoCall
<1>6. ASSUME NEW op, NEW answer, BitCall(op, nr, word, answer)
      PROVE  Numbers!Change(op, nr, Members, answer)
  <2>1. b \in word => Members' = Members \cup {nr}
    BY <1>6, OneMemberChanges DEF BitCall, b, word
  <2>2. b \notin word => Members' = Members \ {nr}
    BY <1>6, OneMemberChanges DEF BitCall, b, word
  <2>3. Members' = Members
    <3>1. \A S, x : (x \in S => S \cup {x} = S) /\ (x \notin S => S \ {x} = S)
      OBVIOUS
    <3>2. CASE b \in word
      BY <1>3, <2>1, <3>1, <3>2, Zenon
    <3>3. CASE b \notin word
      BY <1>3, <2>2, <3>1, <3>3, Zenon
    <3>. QED  BY <3>2, <3>3
  <2>. QED  BY <1>6, <2>3 DEF BitCall, Numbers!Change, NoCall, Numbers!NoCall
<1>7. CASE set_bit(nr)
  BY <1>4, <1>7 DEF set_bit, Numbers!OneBit
<1>8. CASE clear_bit(nr)
  BY <1>5, <1>8 DEF clear_bit, Numbers!OneBit
<1>9. CASE test_and_set_bit(nr)
  BY <1>3, <1>4, <1>9 DEF test_and_set_bit, Numbers!OneBit
<1>10. CASE test_and_clear_bit(nr)
  BY <1>3, <1>5, <1>10 DEF test_and_clear_bit, Numbers!OneBit
<1>11. CASE TestBit(nr)
  BY <1>3, <1>6, <1>11 DEF TestBit, Numbers!OneBit, word
<1>. QED  BY <1>7, <1>8, <1>9, <1>10, <1>11

\* A search that has passed every number below size answers size; one that stops
\* at a number after passing those before it answers that number.
LEMMA NoneIsNext ==
    ASSUME NEW size \in Nat, NEW offset \in Nat, NEW member \in BOOLEAN, size <= nbits, nbits \in Nat,
           \A n \in offset..(size - 1) : IsSet(n) # member
    PROVE  Numbers!IsNext(size, size, offset, member)
<1>1. \A n \in offset..(size - 1) : n \in 0..(nbits - 1)
  BY SMT
<1>2. \A n \in offset..(size - 1) : (n \in Members) # member
  BY <1>1 DEF Members, IsSet
<1>3. {n \in offset..(size - 1) : (n \in Members) = member} = {}
  BY <1>2
<1>. QED  BY <1>3 DEF Numbers!IsNext

LEMMA FirstIsNext ==
    ASSUME NEW size \in Nat, NEW offset \in Nat, NEW member \in BOOLEAN, size <= nbits, nbits \in Nat,
           NEW m \in offset..(size - 1), IsSet(m) = member,
           \A n \in offset..(m - 1) : IsSet(n) # member
    PROVE  Numbers!IsNext(m, size, offset, member)
<1> DEFINE Matching == {n \in offset..(size - 1) : (n \in Members) = member}
<1>1. \A n \in offset..(size - 1) : n \in 0..(nbits - 1)
  BY SMT
<1>2. \A n \in offset..(size - 1) : (n \in Members) = IsSet(n)
  BY <1>1 DEF Members, IsSet
<1>3. m \in Matching
  BY <1>2
<1>4. ASSUME NEW n \in Matching PROVE m <= n
  <2>1. n \in offset..(size - 1) /\ IsSet(n) = member
    BY <1>2
  <2>2. n \notin offset..(m - 1)
    BY <2>1
  <2>. QED  BY <2>1, <2>2, SMT
<1>5. Matching # {}
  BY <1>3
<1>6. Numbers!IsNext(m, size, offset, member) <=>
        IF Matching = {} THEN m = size ELSE m \in Matching /\ \A n \in Matching : m <= n
  BY Zenon DEF Numbers!IsNext
<1> HIDE DEF Matching
<1>. QED  BY <1>3, <1>4, <1>5, <1>6

LEMMA MembersStay == ASSUME UNCHANGED <<nbits, words>> PROVE Members' = Members
  BY DEF Members, IsSet, BIT_WORD

LEMMA FindImplements ==
    ASSUME BitmapAssumption, BInv, NEW size \in 0..nbits, NEW offset \in 0..nbits,
           NEW member \in BOOLEAN, find_next(size, offset, member)
    PROVE  Numbers!Search(size, offset, member)
<1>1. nbits \in Nat /\ size \in Nat /\ offset \in Nat /\ size <= nbits
  BY WordsHold, SMT DEF BInv, TypeOK
<1>2. ret' = NoAnswer \/ Numbers!IsNext(ret', size, offset, member)
  <2>1. CASE offset >= size
    <3>1. \A n \in offset..(size - 1) : FALSE
      BY <1>1, <2>1, SMT
    <3>2. Numbers!IsNext(size, size, offset, member)
      BY <1>1, <3>1, NoneIsNext
    <3>. QED  BY <2>1, <3>2, Zenon DEF find_next, Answer
  <2>2. CASE ~(offset >= size)
    BY <2>2, Zenon DEF find_next, BInv, TypeOK
  <2>. QED  BY <2>1, <2>2
<1>3. Members' = Members
  BY MembersStay DEF find_next
<1>. QED  BY <1>2, <1>3 DEF find_next, Numbers!Search, NoCall, Numbers!NoCall

LEMMA SearchRoundImplements ==
    ASSUME BitmapAssumption, BInv, SearchRound
    PROVE  Numbers!Found \/ UNCHANGED Numbers!vars
<1>1. Members' = Members /\ UNCHANGED <<nbits, call>>
  BY MembersStay DEF SearchRound
<1>2. CASE UNCHANGED ret
  BY <1>1, <1>2 DEF Numbers!vars
<1>3. CASE ~(UNCHANGED ret)
  <2> DEFINE next == search.start + BITS_PER_LONG
  <2>1. search.on /\ search.tmp = {}
    BY DEF SearchRound
  <2>2. /\ nbits \in Lengths \cup {0} /\ nbits \in Nat /\ search.start \in 0..(nbits - 1)
        /\ call \in SearchCalls /\ ret = NoAnswer
        /\ call.size \in 0..nbits /\ call.offset \in 0..nbits /\ call.member \in BOOLEAN
    BY <2>1, Searching DEF BInv, TypeOK
  <2>3. (search.start + BITS_PER_LONG) % ULongs = next
    BY <2>2, WordsHold
  <2>4. ret' = call.size /\ next >= call.size
    BY <1>3, <2>3, SMT DEF SearchRound, Answer
  <2>5. call.size \in Nat /\ call.offset \in Nat /\ call.size <= nbits
    BY <2>2, SMT
  <2>6. \A n \in call.offset..(call.size - 1) : IsSet(n) # call.member
    <3>1. \A n \in call.offset..(search.start + BITS_PER_LONG - 1) : IsSet(n) # call.member
      BY <2>1, WordPassed
    <3>2. \A n \in call.offset..(call.size - 1) : n \in call.offset..(search.start + BITS_PER_LONG - 1)
      BY <2>2, <2>4, <2>5, SMT DEF BitmapAssumption
    <3>. QED  BY <3>1, <3>2
  <2>7. Numbers!IsNext(ret', call.size, call.offset, call.member)
    BY <2>2, <2>4, <2>5, <2>6, NoneIsNext
  <2>8. call.op = "find_next"
    BY <2>2 DEF SearchCalls
  <2>. QED  BY <1>1, <2>2, <2>7, <2>8 DEF Numbers!Found
<1>. QED  BY <1>2, <1>3

LEMMA SearchEndImplements == ASSUME BitmapAssumption, BInv, SearchEnd PROVE Numbers!Found
<1> DEFINE b == ffs(search.tmp)
           m == search.start + b
<1>1. search.on /\ search.tmp # {} /\ ret' = min(m, call.size)
  BY DEF SearchEnd, Answer, Found
<1>2. Members' = Members /\ UNCHANGED <<nbits, call>>
  BY MembersStay DEF SearchEnd
<1>3. search.tmp \in SUBSET Bits
  BY <1>1, Searching
<1>4. b \in Bits /\ b \in search.tmp /\ \A c \in search.tmp : b <= c
  BY <1>1, <1>3, FindsFirstBit DEF Lowest
<1> HIDE DEF b
<1>5. /\ nbits \in Nat /\ call.size \in 0..nbits /\ call.offset \in 0..nbits /\ call.member \in BOOLEAN
      /\ search.start \in Nat /\ search.start % BITS_PER_LONG = 0 /\ search.start < call.size
      /\ BITS_PER_LONG \in Nat /\ b \in 0..(BITS_PER_LONG - 1)
  BY <1>1, <1>4, Searching, SMT DEF BitmapAssumption, Bits
<1>6. call.size \in Nat /\ call.offset \in Nat /\ call.size <= nbits /\ m \in Nat
  BY <1>5, SMT
<1>7. m >= call.offset /\ IsSet(m) = call.member
  <2>1. m >= call.offset /\ (b \in words[BIT_WORD(search.start)]) = call.member
    BY <1>1, <1>4, Searching
  <2>2. BIT_WORD(m) = BIT_WORD(search.start) /\ m % BITS_PER_LONG = b
    BY <1>4, <1>5, BitOf
  <2>. QED  BY <2>1, <2>2 DEF IsSet
<1>8. ASSUME NEW n \in call.offset..(m - 1) PROVE IsSet(n) # call.member
  <2>1. CASE n < search.start
    <3>1. n \in call.offset..(search.start - 1)
      BY <1>5, <1>6, <2>1, SMT
    <3>. QED  BY <1>1, <3>1, Searching
  <2>2. CASE ~(n < search.start)
    <3>1. /\ n \in search.start..(search.start + BITS_PER_LONG - 1) /\ n >= call.offset
          /\ \A c \in search.tmp : n # search.start + c
      BY <1>3, <1>4, <1>5, <1>6, <2>2, SMT DEF Bits
    <3>2. (IsSet(n) = call.member) => \E c \in search.tmp : n = search.start + c
      BY <1>1, <3>1, InTmp
    <3>. QED  BY <3>1, <3>2
  <2>. QED  BY <2>1, <2>2
<1>9. Numbers!IsNext(ret', call.size, call.offset, call.member)
  <2>1. CASE m < call.size
    <3>1. m \in call.offset..(call.size - 1) /\ ret' = m
      BY <1>1, <1>6, <1>7, <2>1, SMT DEF min
    <3> HIDE DEF m
    <3>. QED  BY <1>5, <1>6, <1>7, <1>8, <3>1, FirstIsNext
  <2>2. CASE ~(m < call.size)
    <3>1. /\ ret' = call.size
          /\ \A n \in call.offset..(call.size - 1) : n \in call.offset..(m - 1)
      BY <1>1, <1>6, <1>7, <2>2, SMT DEF min
    <3> HIDE DEF m
    <3>. QED  BY <1>5, <1>6, <1>8, <3>1, NoneIsNext
  <2>. QED  BY <2>1, <2>2
<1>10. call.op = "find_next" /\ ret = NoAnswer
  BY <1>1, Searching DEF SearchCalls
<1>. QED  BY <1>2, <1>9, <1>10 DEF Numbers!Found

LEMMA ReturnImplements == ASSUME Return PROVE Numbers!Return
<1>1. Members' = Members
  BY MembersStay DEF Return
<1>. QED  BY <1>1 DEF Return, Numbers!Return, NoCall, Numbers!NoCall

LEMMA StepImplements ==
    ASSUME BitmapAssumption, BInv, [Next]_vars PROVE [Numbers!Next]_(Numbers!vars)
<1>1. CASE bitmap_free
  BY <1>1, FreeImplements DEF Numbers!Next
<1>2. CASE SearchRound
  BY <1>2, SearchRoundImplements DEF Numbers!Next
<1>3. CASE SearchEnd
  BY <1>3, SearchEndImplements DEF Numbers!Next
<1>4. CASE Return
  BY <1>4, ReturnImplements DEF Numbers!Next
<1>5. CASE \E n \in Lengths : bitmap_alloc(n)
  BY <1>5, AllocImplements DEF Numbers!Next
<1>6. CASE \E nr \in Used \cap 0..(nbits - 1) :
             set_bit(nr) \/ clear_bit(nr) \/ test_and_set_bit(nr) \/ test_and_clear_bit(nr) \/ TestBit(nr)
  BY <1>6, BitImplements DEF Numbers!Next
<1>7. CASE \E size \in 0..nbits, offset \in 0..nbits, member \in BOOLEAN : find_next(size, offset, member)
  BY <1>7, FindImplements DEF Numbers!Next
<1>8. CASE UNCHANGED vars
  <2>1. Members' = Members
    BY <1>8, MembersStay DEF vars
  <2>. QED  BY <1>8, <2>1 DEF vars, Numbers!vars
<1>. QED  BY <1>1, <1>2, <1>3, <1>4, <1>5, <1>6, <1>7, <1>8 DEF Next

\* Every behaviour of the bitmap is one of BitSet, for every width of a word and
\* all lengths whose BITS_TO_LONGS does not wrap: each call answers and changes
\* what the set would, and a search returns the first number it could.
THEOREM Refinement == Spec => ImplementsSet
<1>1. Init => Numbers!Init
  BY InitImplements
<1>2. BInv /\ [Next]_vars => [Numbers!Next]_(Numbers!vars)
  BY BitmapAssumption, StepImplements
<1>. QED  BY <1>1, <1>2, BitmapInvariant, PTL DEF Spec, ImplementsSet, Numbers!Spec

=============================================================================
