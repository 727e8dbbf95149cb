---------------------------------- MODULE Lrp ----------------------------------
(***************************************************************************)
(* The leakage resilient primitive of card/lrp.go as VerifyPICCData uses   *)
(* it for a 24-byte SUN: key material, evaluation, LRICB decryption, CMAC  *)
(* with its subkeys, and the MAC of calculateSdmMac built on it.           *)
(*                                                                         *)
(* A byte string is the sequence of its bits, the most significant first,  *)
(* as big.Int's Bytes and SetBytes take it.  The code's widths are         *)
(* parameters, and AES is Enc, any keyed permutation of the blocks.        *)
(***************************************************************************)
EXTENDS Integers, Sequences

CONSTANTS NibbleBits,      \* bits of half a byte (4 in the code)
          BlockLen,        \* bytes of a block (16)
          Reduction,       \* the polynomial without its leading term (135)
          Enc              \* Enc[k][v]: the block v encrypted under the key k

Bit == {0, 1}
ByteBits == 2 * NibbleBits
BlockBits == BlockLen * ByteBits
Nibble == [1..NibbleBits -> Bit]
Block == [1..BlockBits -> Bit]

ASSUME LrpAssumption ==
  /\ NibbleBits \in Nat \ {0} /\ BlockLen \in Nat \ {0}
  /\ Reduction \in Block /\ Reduction[1] = 0
  /\ Enc \in [Block -> [Block -> Block]]
  /\ \A k, v, w \in Block : Enc[k][v] = Enc[k][w] => v = w

\* e and d, of one block.
e(k, v) == Enc[k][v]
d(k, v) == CHOOSE x \in Block : e(k, x) = v

\* Blocks of the bytes 0x00, 0x55 and 0xAA.
Zero == [i \in 1..BlockBits |-> 0]
Low == [i \in 1..BlockBits |-> (i + 1) % 2]
High == [i \in 1..BlockBits |-> i % 2]

xor(a, b) ==
  IF Len(a) # Len(b) THEN <<>>
  ELSE [i \in 1..Len(a) |-> IF a[i] = b[i] THEN 0 ELSE 1]

-----------------------------------------------------------------------------
(* Key material and evaluation.                                            *)

Number(x) ==
  LET v[i \in 0..NibbleBits] == IF i = 0 THEN 0 ELSE 2 * v[i - 1] + x[i]
  IN v[NibbleBits]

\* The key from which generatePlaintexts takes the n-th plaintext.
Chain(h, n) ==
  LET c[i \in 0..n] == IF i = 0 THEN h ELSE e(c[i - 1], Low) IN c[n]

generatePlaintexts(k) ==
  [x \in Nibble |-> e(Chain(e(k, Low), Number(x)), High)]

\* generateUpdateKeys, of which NewLRP keeps the first.
UpdateKey(k) == e(e(k, High), High)

NewLRP(key) == [p |-> generatePlaintexts(key), kp |-> UpdateKey(key)]

nibbles(x) ==
  [i \in 1..Len(x) \div NibbleBits |->
     [j \in 1..NibbleBits |-> x[NibbleBits * (i - 1) + j]]]

\* evalLRP, always called with final.
evalLRP(l, x) ==
  LET ni == nibbles(x)
      y[i \in 0..Len(ni)] == IF i = 0 THEN l.kp ELSE e(y[i - 1], l.p[ni[i]])
  IN e(y[Len(ni)], Zero)

-----------------------------------------------------------------------------
(* Decryption.                                                             *)

CounterBits == 4 * ByteBits

\* One more, as a binary number; all ones become zeros.
Increment(c) ==
  [i \in 1..Len(c) |-> IF \A j \in i + 1..Len(c) : c[j] = 1 THEN 1 - c[i] ELSE c[i]]

incrCounterKeep(r) ==              \* mutant: the counter is read and not raised
  IF Len(r) < CounterBits THEN <<>> ELSE SubSeq(r, 1, CounterBits)

\* The first four bytes plus one, whatever the length of r; nil if shorter.
incrCounter(r) ==
  IF Len(r) < CounterBits THEN <<>> ELSE Increment(SubSeq(r, 1, CounterBits))

\* Decrypt without padding, of whole blocks.
Decrypt(l, r, data) ==
  LET at[i \in 0..Len(data)] == IF i = 0 THEN r ELSE incrCounter(at[i - 1])
  IN [i \in 1..Len(data) |-> d(evalLRP(l, at[i - 1]), data[i])]

-----------------------------------------------------------------------------
(* CMAC.                                                                   *)

\* big.Int.Bytes: without the leading bytes that are zero.
Bytes(x) ==
  LET zeros == {n \in 0..Len(x) : /\ n * ByteBits <= Len(x)
                                  /\ \A i \in 1..n * ByteBits : x[i] = 0}
      most == CHOOSE n \in zeros : \A m \in zeros : m <= n
  IN SubSeq(x, most * ByteBits + 1, Len(x))

\* A block and the polynomial as numbers, times 2^s; they have a byte more.
Shift(b, s) ==
  [i \in 1..BlockBits + ByteBits |->
     IF i + s - ByteBits \in 1..BlockBits THEN b[i + s - ByteBits] ELSE 0]
polynomial(s) == [Shift(Reduction, s) EXCEPT ![ByteBits - s] = 1]

\* A round of mulPoly on a number longer than a block: the polynomial, shifted
\* by s, is subtracted if the leading bytes have a bit in common.
MulRound(f, s) ==
  IF Len(f) <= BlockBits \/ \A i \in 1..ByteBits : polynomial(s)[i] = 0 \/ f[i] = 0
    THEN f ELSE Bytes(xor(f, polynomial(s)))

\* It is shifted from the second round on; two bits too many take two rounds.
mulPoly(f) == MulRound(MulRound(f, 0), 1)

Subkey1(b) == mulPoly(Bytes(Shift(b, 1)))
Subkey2(b) == mulPoly(Bytes(Shift(b, 2)))

\* 0x80 and zeros.
Pad(x) ==
  [i \in 1..BlockBits |->
     IF i <= Len(x) THEN x[i] ELSE IF i = Len(x) + 1 THEN 1 ELSE 0]

\* mutant: the subkeys swapped
MaskedSwapped(x, y, k1, k2) ==
  IF Len(x) < BlockBits THEN xor(xor(Pad(x), y), k1) ELSE xor(xor(x, y), k2)

\* The last block, masked; xor gives nil when the subkey is shorter than it.
Masked(x, y, k1, k2) ==
  IF Len(x) < BlockBits THEN xor(xor(Pad(x), y), k2) ELSE xor(xor(x, y), k1)

\* LRP.cmac: the blocks but the last go through evalLRP in turn, the last one is
\* masked before; the subkeys are the encryption of zero, doubled and quadrupled.
cmac(l, data) ==
  LET k0 == evalLRP(l, Zero)
      read[i \in 0..Len(data)] ==
        IF i = 0 THEN [rest |-> data, y |-> Zero]
        ELSE LET s == read[i - 1]
             IN IF Len(s.rest) <= BlockBits THEN s
                ELSE [rest |-> SubSeq(s.rest, BlockBits + 1, Len(s.rest)),
                      y |-> evalLRP(l, xor(SubSeq(s.rest, 1, BlockBits), s.y))]
      last == read[Len(data)]
  IN evalLRP(l, Masked(last.rest, last.y, Subkey1(k0), Subkey2(k0)))

\* calculateSdmMac of a SUN in LRP mode: the session key from the PICC data,
\* then the MAC of the empty file, of which every second byte is kept.
finBytes(input) ==
  [i \in 1..(Len(input) \div (2 * ByteBits)) * ByteBits |->
     input[i + ByteBits * ((i - 1) \div ByteBits + 1)]]
calculateSdmMac(key, sv) ==
  finBytes(cmac(NewLRP(cmac(NewLRP(key), sv)), <<>>))

-----------------------------------------------------------------------------
(* References: the field of the polynomial, CMAC over any block cipher, and *)
(* the encryption a tag performs.                                           *)

Double(v) ==
  LET s == [i \in 1..BlockBits |-> IF i = BlockBits THEN 0 ELSE v[i + 1]]
  IN IF v[1] = 0 THEN s ELSE xor(s, Reduction)

\* The blocks of a string, of which the last one may be shorter.
Blocks(x) == IF x = <<>> THEN 1 ELSE (Len(x) + BlockBits - 1) \div BlockBits
BlockOf(x, i) ==
  SubSeq(x, BlockBits * (i - 1) + 1, IF i = Blocks(x) THEN Len(x) ELSE BlockBits * i)
End(x) == BlockOf(x, Blocks(x))

Mask(l, x) ==
  LET k0 == evalLRP(l, Zero)
  IN IF Len(End(x)) = BlockBits THEN Double(k0) ELSE Double(Double(k0))

Reference(l, x) ==
  LET y[i \in 0..Blocks(x) - 1] ==
        IF i = 0 THEN Zero ELSE evalLRP(l, xor(BlockOf(x, i), y[i - 1]))
      end == IF Len(End(x)) = BlockBits THEN End(x) ELSE Pad(End(x))
  IN evalLRP(l, xor(xor(end, y[Blocks(x) - 1]), Mask(l, x)))

\* Blocks encrypted under the counter r and those that follow it.
Encrypt(l, r, data) ==
  LET at[i \in 0..Len(data)] == IF i = 0 THEN r ELSE Increment(at[i - 1])
  IN [i \in 1..Len(data) |-> e(evalLRP(l, at[i - 1]), data[i])]
=============================================================================
