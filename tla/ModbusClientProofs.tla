------------------------- MODULE ModbusClientProofs -------------------------
(***************************************************************************)
(* Lemmas about the bytes of messages: what is packed at one end of a link *)
(* and taken apart at the other is the same, for every number of values.   *)
(***************************************************************************)
EXTENDS ModbusClient, TLAPS


\* The place of bit p: its byte is one of those that n bits take, and is found again.
LEMMA BitPlace ==
    ASSUME NEW n \in Nat, NEW p \in Nat, p < n
    PROVE  /\ p \div 8 + 1 \in 1 .. BitBytes(n) /\ p % 8 \in 0 .. 7
           /\ 8 * ((p \div 8 + 1) - 1) + (p % 8) = p
  <1>1. p % 8 \in 0 .. 7 /\ p \div 8 \in Nat /\ 8 * (p \div 8) + (p % 8) = p
    OBVIOUS
  <1>2. BitBytes(n) \in Nat /\ n <= 8 * BitBytes(n)
    BY DEF BitBytes
  <1>3. 8 * (p \div 8) < 8 * BitBytes(n)
    BY <1>1, <1>2
  <1> QED
    BY <1>1, <1>2, <1>3

\* The places of the two bytes of word p.
LEMMA WordPlace ==
    ASSUME NEW n \in Nat, NEW p \in Nat, p < n
    PROVE  /\ 2 * p + 1 \in 1 .. 2 * n /\ 2 * p + 2 \in 1 .. 2 * n
           /\ (2 * p + 1) % 2 = 1 /\ (2 * p + 2) % 2 = 0
           /\ ((2 * p + 1) - 1) \div 2 = p /\ ((2 * p + 2) - 1) \div 2 = p
  OBVIOUS

LEMMA BitBytesNat == ASSUME NEW n \in Nat PROVE BitBytes(n) \in Nat /\ n <= 8 * BitBytes(n)
  BY DEF BitBytes

\* A word is the one its two bytes make.
LEMMA WordOfBytes ==
    ASSUME NEW w \in Word
    PROVE  WordOf(HiByte(w), LoByte(w)) = w /\ HiByte(w) \in OneByte /\ LoByte(w) \in OneByte
  <1>1. ASSUME NEW b PROVE b \in WordOf(HiByte(w), LoByte(w)) <=> b \in w
    <2>1. CASE b \in 0 .. 7
      BY <2>1 DEF WordOf, HiByte, LoByte
    <2>2. CASE b \in 8 .. 15
      <3>1. b - 8 \in 0 .. 7 /\ (b - 8) + 8 = b /\ b \notin 0 .. 7
        BY <2>2
      <3> QED
        BY <2>2, <3>1 DEF WordOf, HiByte, LoByte
    <2>3. CASE b \notin 0 .. 7 /\ b \notin 8 .. 15
      <3>1. b \notin 0 .. 15
        BY <2>3
      <3> QED
        BY <2>3, <3>1 DEF WordOf, HiByte, LoByte, Word
    <2> QED
      BY <2>1, <2>2, <2>3
  <1> QED
    BY <1>1 DEF HiByte, LoByte, OneByte

LEMMA WordOfType ==
    ASSUME NEW hi \in OneByte, NEW lo \in OneByte
    PROVE  WordOf(hi, lo) \in Word
  <1>1. \A b \in 0 .. 7 : b \in 0 .. 15
    OBVIOUS
  <1>2. \A b \in 8 .. 15 : b \in 0 .. 15
    OBVIOUS
  <1> QED
    BY <1>1, <1>2 DEF WordOf, OneByte, Word

\* The bytes of bits, and of words, as many as the request or reply says.
LEMMA PackBitsType ==
    ASSUME NEW nb \in Nat, NEW src
    PROVE  PackBits(nb, src) \in Seq(OneByte) /\ Len(PackBits(nb, src)) = BitBytes(nb)
  <1>1. BitBytes(nb) \in Nat
    BY BitBytesNat
  <1>2. PackBits(nb, src) \in [1 .. BitBytes(nb) -> OneByte]
    BY DEF PackBits, OneByte
  <1> QED
    BY <1>1, <1>2

LEMMA PackWordsType ==
    ASSUME NEW nb \in Nat, NEW src \in [0 .. nb - 1 -> Word]
    PROVE  PackWords(nb, src) \in Seq(OneByte) /\ Len(PackWords(nb, src)) = 2 * nb
  <1>1. ASSUME NEW w PROVE HiByte(w) \in OneByte /\ LoByte(w) \in OneByte
    BY DEF HiByte, LoByte, OneByte
  <1>2. PackWords(nb, src) \in [1 .. 2 * nb -> OneByte]
    BY <1>1 DEF PackWords
  <1> QED
    BY <1>2

\* What read_io_status takes out of the bytes of modbus_write_bits is what went in.
THEOREM BitsRoundTrip ==
    ASSUME NEW nb \in Nat, NEW src \in [0 .. nb - 1 -> {ON, OFF}]
    PROVE  UnpackBits(nb, PackBits(nb, src)) = src
  <1>1. ASSUME NEW p \in 0 .. nb - 1
        PROVE  (IF p % 8 \in PackBits(nb, src)[p \div 8 + 1] THEN ON ELSE OFF) = src[p]
    <2>1. p \in Nat /\ p < nb
      OBVIOUS
    <2>2. /\ p \div 8 + 1 \in 1 .. BitBytes(nb) /\ p % 8 \in 0 .. 7
          /\ 8 * ((p \div 8 + 1) - 1) + (p % 8) = p
      BY <2>1, BitPlace
    <2> DEFINE k == p \div 8 + 1
               b == p % 8
    <2>3. PackBits(nb, src)[k]
            = {c \in 0 .. 7 : 8 * (k - 1) + c < nb /\ src[8 * (k - 1) + c] # OFF}
      BY <2>2 DEF PackBits
    <2>4. b \in PackBits(nb, src)[k] <=> src[p] # OFF
      BY <2>1, <2>2, <2>3
    <2> QED
      BY <2>4 DEF ON, OFF
  <1> QED
    BY <1>1 DEF UnpackBits

\* What the reading functions take out of the bytes of words is what went in.
THEOREM WordsRoundTrip ==
    ASSUME NEW nb \in Nat, NEW src \in [0 .. nb - 1 -> Word]
    PROVE  UnpackWords(nb, PackWords(nb, src)) = src
  <1>1. ASSUME NEW p \in 0 .. nb - 1
        PROVE  WordOf(PackWords(nb, src)[2 * p + 1], PackWords(nb, src)[2 * p + 2]) = src[p]
    <2>1. p \in Nat /\ p < nb
      OBVIOUS
    <2>2. /\ 2 * p + 1 \in 1 .. 2 * nb /\ 2 * p + 2 \in 1 .. 2 * nb
          /\ (2 * p + 1) % 2 = 1 /\ (2 * p + 2) % 2 = 0
          /\ ((2 * p + 1) - 1) \div 2 = p /\ ((2 * p + 2) - 1) \div 2 = p
      BY <2>1, WordPlace
    <2>3. /\ PackWords(nb, src)[2 * p + 1] = HiByte(src[p])
          /\ PackWords(nb, src)[2 * p + 2] = LoByte(src[p])
      BY <2>2 DEF PackWords
    <2> QED
      BY <2>3, WordOfBytes
  <1> QED
    BY <1>1 DEF UnpackWords
=============================================================================
