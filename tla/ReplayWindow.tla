---------------------------- MODULE ReplayWindow ----------------------------
(***************************************************************************)
(* The sliding anti-replay window of shph-core/src/crypto.rs.              *)
(*                                                                         *)
(* A window is a record: `highest` is the highest accepted nonce           *)
(* (NoNonce before the first one) and `bits` the bitmap below it, kept as  *)
(* the code keeps it, in machine words.  A word is the set of the          *)
(* positions of its one bits.  Bit i of the bitmap (position i % WordBits  *)
(* of word i \div WordBits) stands for nonce highest - 1 - i.              *)
(***************************************************************************)
EXTENDS Integers

CONSTANTS WordBits,        \* bits of a machine word: 64 in the code
          RequestedSize,   \* the argument of ReplayWindow::new
          MaxWindowSize    \* MAX_REPLAY_WINDOW_SIZE

ASSUME WindowAssumption ==
  /\ WordBits \in Nat \ {0}
  /\ RequestedSize \in Nat
  /\ MaxWindowSize \in Nat
  /\ MaxWindowSize >= WordBits

NoNonce == -1

\* size.clamp(64, MAX_REPLAY_WINDOW_SIZE)
ClampedSize ==
  IF RequestedSize < WordBits THEN WordBits
  ELSE IF RequestedSize > MaxWindowSize THEN MaxWindowSize
  ELSE RequestedSize

\* size.div_ceil(64)
Words == (ClampedSize + WordBits - 1) \div WordBits

Size == Words * WordBits

Word   == SUBSET (0 .. WordBits - 1)
Bitmap == [0 .. Words - 1 -> Word]
Window == [highest : Nat \cup {NoNonce}, bits : Bitmap]

ZeroBits == [w \in 0 .. Words - 1 |-> {}]

NewWindow == [highest |-> NoNonce, bits |-> ZeroBits]

\* Index of bit i in the word array, and the test and update of that bit.
WordOf(i) == i \div WordBits
BitOf(i)  == i % WordBits

Marked(bits, i) == BitOf(i) \in bits[WordOf(i)]

Mark(bits, i) == [bits EXCEPT ![WordOf(i)] = @ \cup {BitOf(i)}]

\* The machine shifts: bits leaving the word are lost.
ShiftLeft(word, s)  == {b \in 0 .. WordBits - 1 : b - s \in word}
ShiftRight(word, s) == {b \in 0 .. WordBits - 1 : b + s \in word}

\* A slip in the carry: the high part is not moved into the next word.
shift_down_no_carry(bits, gap) ==
  [w \in 0 .. Words - 1 |->
     IF w >= WordOf(gap) THEN ShiftLeft(bits[w - WordOf(gap)], BitOf(gap)) ELSE {}]

\* Moves the bitmap `gap` positions away from the new highest nonce.  Word w
\* receives the low part of word w - word_shift and, unless the shift is a
\* whole number of words, the high part of the word before it.
shift_down(bits, gap) ==
  LET word_shift == WordOf(gap)
      bit_shift  == BitOf(gap)
      lo(w) == IF w >= word_shift
               THEN ShiftLeft(bits[w - word_shift], bit_shift) ELSE {}
      hi(w) == IF bit_shift # 0 /\ w >= word_shift + 1
               THEN ShiftRight(bits[w - word_shift - 1], WordBits - bit_shift)
               ELSE {}
  IN  [w \in 0 .. Words - 1 |-> lo(w) \cup hi(w)]

\* A slip at the boundary: a jump of exactly Size forgets the old highest.
AdvanceOffByOne(bits, gap) ==
  IF gap >= Size THEN ZeroBits ELSE Mark(shift_down(bits, gap), gap - 1)

\* The bitmap after the highest nonce grows by `gap`: the old highest becomes
\* bit gap - 1 when it is still inside the window.
Advance(bits, gap) ==
  IF gap > Size THEN ZeroBits
  ELSE IF gap = Size
       THEN [ZeroBits EXCEPT ![Words - 1] = @ \cup {WordBits - 1}]
       ELSE Mark(shift_down(bits, gap), gap - 1)

\* A slip at the bottom of the window: the oldest tracked nonce is refused.
FreshOffByOne(win, nonce) ==
  \/ win.highest = NoNonce
  \/ nonce > win.highest
  \/ LET offset == win.highest - nonce
     IN  offset > 0 /\ offset < Size /\ ~Marked(win.bits, offset - 1)

\* The verdict of check_and_insert.
Fresh(win, nonce) ==
  \/ win.highest = NoNonce
  \/ nonce > win.highest
  \/ LET offset == win.highest - nonce
     IN  offset > 0 /\ offset <= Size /\ ~Marked(win.bits, offset - 1)

\* The window check_and_insert leaves behind when it accepts `nonce`.
Insert(win, nonce) ==
  IF win.highest = NoNonce THEN [win EXCEPT !.highest = nonce]
  ELSE IF nonce > win.highest
       THEN [highest |-> nonce, bits |-> Advance(win.bits, nonce - win.highest)]
       ELSE [win EXCEPT !.bits = Mark(@, win.highest - nonce - 1)]

=============================================================================
