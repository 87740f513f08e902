----------------------------- MODULE IOMapProofs -----------------------------
(***************************************************************************)
(* Theorems about the process image, for any slaves: the types, the FMMUs, *)
(* the segments, the datagrams and the work counter.                       *)
(***************************************************************************)
EXTENDS IOMap, TLAPS, SequenceTheorems, FiniteSetTheorems, WellFoundedInduction

-----------------------------------------------------------------------------
(* Sums. *)

\* A nonempty set of natural numbers has a least one.
LEMMA LeastNat ==
  ASSUME NEW T, T \subseteq Nat, T # {}
  PROVE  \E a \in T : \A b \in T : a <= b
<1> DEFINE R == OpToRel(<, Nat)
<1>1. IsWellFoundedOn(R, Nat)
  BY NatLessThanWellFounded
<1>2. \A a, b \in Nat : a < b => <<a, b>> \in R
  BY DEF OpToRel
<1> HIDE DEF R
<1>3. \E a \in T : \A b \in T : ~ (<<b, a>> \in R)
  BY <1>1, WFMin
<1>4. \A a, b \in T : ~ (<<b, a>> \in R) => a <= b
  BY <1>2
<1> QED
  BY <1>3, <1>4

\* Induction, over a set: what holds at 0, and at n + 1 if at n, holds for all.
LEMMA SetInduction ==
  ASSUME NEW T, T \subseteq Nat, 0 \in T, \A n \in T : n + 1 \in T
  PROVE  T = Nat
<1> SUFFICES ASSUME T # Nat PROVE FALSE
  OBVIOUS
<1>1. PICK p \in Nat \ T : \A n \in Nat \ T : p <= n
  <2>1. Nat \ T \subseteq Nat /\ Nat \ T # {}
    OBVIOUS
  <2> QED BY <2>1, LeastNat
<1>2. p # 0 /\ p - 1 \in Nat
  BY <1>1
<1>3. p - 1 \in T
  BY <1>1, <1>2
<1>4. (p - 1) + 1 \in T
  BY <1>3
<1> QED BY <1>1, <1>4

(* The function of sums that Total takes its value of. *)
Sums(f, n, g) == g = [k \in 0 .. n |-> IF k = 0 THEN 0 ELSE g[k - 1] + f[k]]

\* The sums of a function of natural numbers exist, step by step.
LEMMA SumsExist ==
  ASSUME NEW f PROVE \A n \in Nat : \E g : Sums(f, n, g)
<1> DEFINE T == {n \in Nat : \E g : Sums(f, n, g)}
<1>1. 0 \in T
  <2> DEFINE g == [k \in 0 .. 0 |-> 0]
  <2>1. Sums(f, 0, g)
    BY DEF Sums
  <2> QED BY <2>1
<1>2. ASSUME NEW n \in T PROVE n + 1 \in T
  <2>1. PICK g : Sums(f, n, g)
    OBVIOUS
  <2> DEFINE h == [k \in 0 .. n + 1 |->
                     IF k <= n THEN g[k] ELSE g[n] + f[n + 1]]
  <2>2. \A k \in 0 .. n : g[k] = IF k = 0 THEN 0 ELSE g[k - 1] + f[k]
    BY <2>1 DEF Sums
  <2>3. \A k \in 0 .. n + 1 : h[k] = IF k = 0 THEN 0 ELSE h[k - 1] + f[k]
    <3> SUFFICES ASSUME NEW k \in 0 .. n + 1
                 PROVE h[k] = IF k = 0 THEN 0 ELSE h[k - 1] + f[k]
      OBVIOUS
    <3>1. CASE k <= n
      <4>1. k \in 0 .. n /\ h[k] = g[k] /\ (k # 0 => k - 1 \in 0 .. n + 1 /\ h[k - 1] = g[k - 1])
        BY <3>1
      <4> HIDE DEF h
      <4> QED BY <2>2, <4>1
    <3>2. CASE k = n + 1
      <4>1. h[k] = g[n] + f[n + 1] /\ h[n] = g[n] /\ k # 0 /\ k - 1 = n
        BY <3>2
      <4> HIDE DEF h
      <4> QED BY <3>2, <4>1
    <3> QED BY <3>1, <3>2
  <2>4. h = [k \in 0 .. n + 1 |-> h[k]]
    OBVIOUS
  <2> HIDE DEF h
  <2>5. Sums(f, n + 1, h)
    BY <2>3, <2>4 DEF Sums
  <2> QED BY <2>5
<1>3. T = Nat
  <2>1. T \subseteq Nat
    OBVIOUS
  <2> HIDE DEF T
  <2> QED BY <1>1, <1>2, <2>1, SetInduction
<1> QED BY <1>3

\* There is one such function.
LEMMA SumsAgree ==
  ASSUME NEW f, NEW p \in Nat, NEW n \in Nat, NEW g, NEW h,
         Sums(f, p, g), Sums(f, n, h)
  PROVE  \A k \in Nat : k <= p /\ k <= n => g[k] = h[k]
<1> DEFINE T == {k \in Nat : k <= p /\ k <= n => g[k] = h[k]}
<1>1. \A k \in 0 .. p : g[k] = IF k = 0 THEN 0 ELSE g[k - 1] + f[k]
  BY DEF Sums
<1>2. \A k \in 0 .. n : h[k] = IF k = 0 THEN 0 ELSE h[k - 1] + f[k]
  BY DEF Sums
<1>3. 0 \in T
  BY <1>1, <1>2
<1>4. ASSUME NEW k \in T PROVE k + 1 \in T
  BY <1>1, <1>2
<1>5. T \subseteq Nat
  OBVIOUS
<1>6. T = Nat
  <2> HIDE DEF T
  <2> QED BY <1>3, <1>4, <1>5, SetInduction
<1> QED BY <1>6

\* What Total is: nothing of nothing, and one more term at a time.
LEMMA TotalStep ==
  ASSUME NEW f, NEW n \in Nat
  PROVE  /\ Total(f, 0) = 0
         /\ Total(f, n + 1) = Total(f, n) + f[n + 1]
<1> DEFINE s(p) == CHOOSE g : Sums(f, p, g)
<1>1. \A p \in Nat : Sums(f, p, s(p))
  BY SumsExist
<1>2. \A p \in Nat : Total(f, p) = s(p)[p]
  BY DEF Total, Sums
<1> HIDE DEF s
<1>3. s(0)[0] = 0
  BY <1>1 DEF Sums
<1>4. s(n + 1)[n + 1] = s(n + 1)[n] + f[n + 1]
  <2>1. Sums(f, n + 1, s(n + 1))
    BY <1>1
  <2>2. n + 1 \in 0 .. n + 1 /\ n + 1 # 0 /\ (n + 1) - 1 = n
    OBVIOUS
  <2>3. \A k \in 0 .. n + 1 : s(n + 1)[k] = IF k = 0 THEN 0 ELSE s(n + 1)[k - 1] + f[k]
    BY <2>1 DEF Sums
  <2> QED BY <2>2, <2>3
<1>5. s(n + 1)[n] = s(n)[n]
  BY <1>1, SumsAgree
<1> QED BY <1>2, <1>3, <1>4, <1>5

\* A sum of natural numbers is one.
LEMMA TotalNat ==
  ASSUME NEW n \in Nat, NEW f, \A k \in 1 .. n : f[k] \in Nat
  PROVE  Total(f, n) \in Nat
<1> DEFINE T == {k \in Nat : k <= n => Total(f, k) \in Nat}
<1>1. 0 \in T
  BY TotalStep
<1>2. ASSUME NEW k \in T PROVE k + 1 \in T
  <2>1. k \in Nat /\ Total(f, k + 1) = Total(f, k) + f[k + 1]
    BY TotalStep
  <2>2. k + 1 <= n => Total(f, k) \in Nat /\ f[k + 1] \in Nat
    BY <2>1
  <2> QED
    BY <2>1, <2>2
<1>3. T \subseteq Nat
  OBVIOUS
<1>4. T = Nat
  <2> HIDE DEF T
  <2> QED
    BY <1>1, <1>2, <1>3, SetInduction
<1> QED
  BY <1>4

\* Sums of the same terms are the same.
LEMMA TotalSame ==
  ASSUME NEW n \in Nat, NEW f, NEW g, \A k \in 1 .. n : f[k] = g[k]
  PROVE  Total(f, n) = Total(g, n)
<1> DEFINE T == {k \in Nat : k <= n => Total(f, k) = Total(g, k)}
<1>1. 0 \in T
  BY TotalStep
<1>2. ASSUME NEW k \in T PROVE k + 1 \in T
  <2>1. /\ k \in Nat /\ Total(f, k + 1) = Total(f, k) + f[k + 1]
        /\ Total(g, k + 1) = Total(g, k) + g[k + 1]
    BY TotalStep
  <2>2. k + 1 <= n => Total(f, k) = Total(g, k) /\ f[k + 1] = g[k + 1]
    BY <2>1
  <2> QED
    BY <2>1, <2>2
<1>3. T \subseteq Nat
  OBVIOUS
<1>4. T = Nat
  <2> HIDE DEF T
  <2> QED
    BY <1>1, <1>2, <1>3, SetInduction
<1> QED
  BY <1>4

-----------------------------------------------------------------------------
(* Types of the mapping. *)

Fmmu == [slave : 1 .. N, dir : Dirs, start : Nat, startbit : 0 .. 7,
         length : Nat, endbit : 0 .. 7, memory : Nat]
Datagram == [cmd : {"LRD", "LWR", "LRW"}, start : Int, length : Int]
Locals == [phase : Dirs \cup {"mapped"}, slave : 1 .. N + 1, sm : Nat \ {0},
           ByteCount : Nat, FMMUdone : Nat, start : Nat, so : Nat,
           LogAddr : Nat, oLogAddr : Nat, BitPos : 0 .. 7,
           currentsegment : 1 .. EC_MAXIOSEGMENTS, segmentsize : Nat]
Results == [outputsWKC : Nat, inputsWKC : Nat, Obytes : Nat, Ibytes : Nat,
            nsegments : Nat, Isegment : Nat \ {0}, Ioffset : Nat]

MapTyped ==
  /\ slaves \in [1 .. N -> Kinds]
  /\ overlap \in BOOLEAN /\ hasdc \in BOOLEAN
  /\ m \in Locals /\ fmmus \in Seq(Fmmu) /\ group \in Results
  /\ IOsegment \in Seq(Nat)
  /\ m.currentsegment - 1 <= Len(IOsegment)

(* Where the slave's image starts, and how far it may go.                  *)
Base == IF overlap THEN m.start ELSE m.oLogAddr
Advance ==
  m.phase \in Dirs =>
    /\ overlap => m.slave <= N
    /\ Base <= m.LogAddr
    /\ m.LogAddr + Padded <= Base + m.FMMUdone + 1
    /\ m.slave <= N =>
         /\ m.LogAddr + Padded <= Base + BytesOf(Bits(m.slave, m.phase)) + 1
         /\ Bytes(m.slave, m.phase) > 0 => m.FMMUdone <= Bytes(m.slave, m.phase)
    /\ m.slave > N => m.LogAddr = m.oLogAddr /\ m.FMMUdone = 0
    /\ overlap /\ m.phase = "I" =>
         /\ m.start <= m.so
         /\ m.so <= m.start + BytesOf(Bits(m.slave, "O")) + 1
    /\ ~overlap /\ m.phase = "I" => group.Obytes <= m.oLogAddr


\* What a slave has in one direction: its bits, and the bytes they take.
LEMMA KindType ==
  ASSUME MapTyped, NEW s \in 1 .. N, NEW dir \in Dirs
  PROVE  /\ Bits(s, dir) \in Nat /\ SMs(s, dir) \in Seq(SM)
         /\ BytesOf(Bits(s, dir)) \in Nat
         /\ BytesOf(Bits(s, dir)) + 1 <= MaxSegment
         /\ Bytes(s, dir) \in Nat
         /\ Bytes(s, dir) # 0 => Bytes(s, dir) = BytesOf(Bits(s, dir))
         /\ Bytes(s, dir) = 0 => Bits(s, dir) <= 7 /\ BytesOf(Bits(s, dir)) <= 1
         /\ BytesOf(Bits(s, dir)) > 0 => Bits(s, dir) > 0
<1>1. /\ slaves[s] \in Kinds /\ slaves[s] \in Kind
      /\ BytesOf(slaves[s].Obits) + 1 <= MaxSegment
      /\ BytesOf(slaves[s].Ibits) + 1 <= MaxSegment
  BY IOMapAssumption DEF MapTyped
<1>2. /\ Bits(s, dir) \in Nat /\ SMs(s, dir) \in Seq(SM)
      /\ BytesOf(Bits(s, dir)) + 1 <= MaxSegment
  BY <1>1 DEF Kind, Bits, SMs, Dirs
<1>3. ASSUME NEW b \in Nat
      PROVE  /\ BytesOf(b) \in Nat /\ (b > 7 => BytesOf(b) > 0)
             /\ (b <= 7 => BytesOf(b) <= 1) /\ (BytesOf(b) > 0 => b > 0)
  BY DEF BytesOf
<1>4. /\ BytesOf(Bits(s, dir)) \in Nat
      /\ Bits(s, dir) > 7 => BytesOf(Bits(s, dir)) > 0
      /\ Bits(s, dir) <= 7 => BytesOf(Bits(s, dir)) <= 1
      /\ BytesOf(Bits(s, dir)) > 0 => Bits(s, dir) > 0
  BY <1>2, <1>3, Zenon
<1> QED
  BY <1>2, <1>4 DEF Bytes

\* The sync managers' lengths add up to a number.
LEMMA SumLenType ==
  ASSUME NEW sms \in Seq(SM), NEW i \in 1 .. Len(sms), NEW j \in i .. Len(sms)
  PROVE  SumLen(SubSeq(sms, i, j)) \in Nat
<1> DEFINE seq == SubSeq(sms, i, j)
           f == [k \in 1 .. Len(seq) |-> seq[k].len]
<1>1. seq \in Seq(SM)
  BY SubSeqProperties
<1> HIDE DEF seq
<1>2. Len(seq) \in Nat /\ \A k \in 1 .. Len(seq) : f[k] \in Nat
  <2>1. \A k \in 1 .. Len(seq) : seq[k] \in SM
    BY <1>1, ElementOfSeq
  <2>2. Len(seq) \in Nat
    BY <1>1
  <2>3. \A k \in 1 .. Len(seq) : seq[k].len \in Nat
    BY <2>1 DEF SM
  <2> QED
    BY <2>2, <2>3
<1> HIDE DEF f
<1>3. Total(f, Len(seq)) \in Nat
  BY <1>2, TotalNat
<1> QED
  BY <1>3 DEF SumLen, f, seq

\* The sync managers that share an FMMU are there, and have a length.
LEMMA SharedType ==
  ASSUME MapTyped, NEW sms \in Seq(SM), NEW bits \in Nat,
         m.sm \in 1 .. Len(sms)
  PROVE  /\ LastShared(sms, bits) \in m.sm .. Len(sms)
         /\ SumLen(SubSeq(sms, m.sm, LastShared(sms, bits))) \in Nat
<1> DEFINE More(k) ==
             /\ 8 * (m.ByteCount + SumLen(SubSeq(sms, m.sm, k))) < bits
             /\ sms[k + 1].start <= sms[k].start + sms[k].len
           Stop(j) ==
             \/ j = Len(sms)
             \/ 8 * (m.ByteCount + SumLen(SubSeq(sms, m.sm, j))) >= bits
             \/ sms[j + 1].start > sms[j].start + sms[j].len
           Good(j) == (\A k \in m.sm .. j - 1 : More(k)) /\ Stop(j)
           last == LastShared(sms, bits)
<1>1. /\ Len(sms) \in Nat /\ m.sm \in Nat
      /\ \A k \in 1 .. Len(sms) : sms[k].start \in Nat /\ sms[k].len \in Nat
  <2>1. \A k \in 1 .. Len(sms) : sms[k] \in SM
    BY ElementOfSeq
  <2>2. Len(sms) \in Nat
    OBVIOUS
  <2>3. \A k \in 1 .. Len(sms) : sms[k].start \in Nat /\ sms[k].len \in Nat
    BY <2>1 DEF SM
  <2>4. m.sm \in Nat
    BY <2>2
  <2> QED
    BY <2>2, <2>3, <2>4
<1>2. \A k \in m.sm .. Len(sms) : SumLen(SubSeq(sms, m.sm, k)) \in Nat
  BY SumLenType
<1>3. \A k \in m.sm .. Len(sms) : ~Stop(k) => More(k)
  <2> SUFFICES ASSUME NEW k \in m.sm .. Len(sms), ~Stop(k) PROVE More(k)
    OBVIOUS
  <2>1. k # Len(sms) /\ k \in 1 .. Len(sms) /\ k + 1 \in 1 .. Len(sms)
    BY <1>1
  <2>2. /\ ~(8 * (m.ByteCount + SumLen(SubSeq(sms, m.sm, k))) >= bits)
        /\ ~(sms[k + 1].start > sms[k].start + sms[k].len)
    BY <2>1
  <2>3. m.ByteCount \in Nat /\ SumLen(SubSeq(sms, m.sm, k)) \in Nat
    BY <1>2 DEF MapTyped, Locals
  <2>4. sms[k + 1].start <= sms[k].start + sms[k].len
    BY <1>1, <2>1, <2>2
  <2>5. 8 * (m.ByteCount + SumLen(SubSeq(sms, m.sm, k))) < bits
    BY <2>2, <2>3
  <2> QED
    BY <2>4, <2>5
<1>4. PICK j \in m.sm .. Len(sms) : Stop(j) /\ \A k \in m.sm .. Len(sms) :
                                                Stop(k) => j <= k
  <2> DEFINE T == {k \in m.sm .. Len(sms) : Stop(k)}
  <2>1. T \subseteq Nat /\ Len(sms) \in T
    BY <1>1
  <2>2. \E k \in T : \A l \in T : k <= l
    <3> HIDE DEF T
    <3> QED
      BY <2>1, LeastNat
  <2> QED
    BY <2>2
<1>5. Good(j)
  <2>1. \A k \in m.sm .. j - 1 : k \in m.sm .. Len(sms) /\ ~(j <= k)
    BY <1>1, <1>4
  <2> HIDE DEF Stop, More
  <2> QED
    BY <1>3, <1>4, <2>1
<1>6. last \in m.sm .. Len(sms)
  <2>1. last = CHOOSE k \in m.sm .. Len(sms) : Good(k)
    BY DEF LastShared
  <2> HIDE DEF Good, last
  <2> QED
    BY <1>4, <1>5, <2>1
<1> QED
  BY <1>2, <1>6

Cursor == 8 * m.LogAddr + m.BitPos

\* A number in terms of its byte and bit.
LEMMA ByteAndBit ==
  ASSUME NEW n, NEW a \in Nat, NEW r \in 0 .. 7, n = 8 * a + r
  PROVE  n \div 8 = a /\ n % 8 = r
OBVIOUS

\* The FMMU of a slave of at most 7 bits starts at the next free bit.
LEMMA BitFMMUFacts ==
  ASSUME m \in Locals, NEW bits \in 1 .. 7, NEW f, f = BitFMMU(bits)
  PROVE  /\ f \in [start : Nat, startbit : 0 .. 7, length : Nat, endbit : 0 .. 7,
                   LogAddr : Nat, BitPos : 0 .. 7]
         /\ FirstBit(f) = Cursor /\ LastBit(f) < 8 * f.LogAddr + f.BitPos
         /\ m.LogAddr <= f.LogAddr /\ Cursor <= 8 * f.LogAddr + f.BitPos
         /\ f.LogAddr + (IF f.BitPos > 0 THEN 1 ELSE 0) = m.LogAddr + f.length
         /\ f.length <= Padded + 1
<1> DEFINE endpos == m.BitPos + bits - 1
           after == m.LogAddr * 8 + m.BitPos + bits
<1>0. m.LogAddr \in Nat /\ m.BitPos \in 0 .. 7
  BY DEF Locals
<1>1. /\ f.start = m.LogAddr /\ f.startbit = m.BitPos
      /\ f.length = endpos \div 8 + 1 /\ f.endbit = endpos % 8
      /\ f.LogAddr = after \div 8 /\ f.BitPos = after % 8
      /\ f = [start |-> f.start, startbit |-> f.startbit, length |-> f.length,
              endbit |-> f.endbit, LogAddr |-> f.LogAddr, BitPos |-> f.BitPos]
  BY DEF BitFMMU
<1>a. /\ endpos \in Nat /\ after \in Nat /\ endpos = m.BitPos + bits - 1
      /\ after = 8 * m.LogAddr + (m.BitPos + bits)
      /\ after = 8 * (m.LogAddr + 1) + (m.BitPos + bits - 8)
      /\ m.LogAddr + 1 \in Nat
  BY <1>0
<1> HIDE DEF endpos, after
<1>3. \/ /\ m.BitPos + bits <= 7
         /\ endpos \div 8 = 0 /\ endpos % 8 = endpos
         /\ after \div 8 = m.LogAddr /\ after % 8 = m.BitPos + bits
      \/ /\ m.BitPos + bits = 8
         /\ endpos \div 8 = 0 /\ endpos % 8 = endpos
         /\ after \div 8 = m.LogAddr + 1 /\ after % 8 = 0
      \/ /\ m.BitPos + bits > 8 /\ m.BitPos > 0
         /\ endpos \div 8 = 1 /\ endpos % 8 = endpos - 8
         /\ after \div 8 = m.LogAddr + 1 /\ after % 8 = m.BitPos + bits - 8
  <2>1. CASE m.BitPos + bits <= 7
    <3>1. m.BitPos + bits \in 0 .. 7 /\ endpos \in 0 .. 7
          /\ endpos = 8 * 0 + endpos
      BY <1>0, <1>a, <2>1
    <3>2. endpos \div 8 = 0 /\ endpos % 8 = endpos
      BY <3>1, ByteAndBit
    <3>3. after \div 8 = m.LogAddr /\ after % 8 = m.BitPos + bits
      <4>1. after = 8 * m.LogAddr + (m.BitPos + bits) /\ m.LogAddr \in Nat
        BY <1>0, <1>a
      <4> QED
        BY <3>1, <4>1, ByteAndBit
    <3> QED
      BY <2>1, <3>2, <3>3
  <2>2. CASE m.BitPos + bits > 7
    <3>1. m.BitPos + bits - 8 \in 0 .. 7
      BY <1>0, <2>2
    <3>2. after \div 8 = m.LogAddr + 1 /\ after % 8 = m.BitPos + bits - 8
      <4> DEFINE byte == m.LogAddr + 1
                 bit == m.BitPos + bits - 8
      <4>1. byte \in Nat /\ bit \in 0 .. 7 /\ after = 8 * byte + bit
        BY <1>a, <3>1
      <4> HIDE DEF byte, bit
      <4>2. after \div 8 = byte /\ after % 8 = bit
        BY <4>1, ByteAndBit
      <4> QED
        BY <4>2 DEF byte, bit
    <3>3. CASE m.BitPos + bits = 8
      <4>1. endpos \in 0 .. 7 /\ endpos = 8 * 0 + endpos
        BY <1>0, <1>a, <3>3
      <4>2. endpos \div 8 = 0 /\ endpos % 8 = endpos
        BY <4>1, ByteAndBit
      <4> QED
        BY <1>0, <3>2, <3>3, <4>2
    <3>4. CASE m.BitPos + bits > 8
      <4>1. endpos - 8 \in 0 .. 7 /\ endpos = 8 * 1 + (endpos - 8)
            /\ m.BitPos > 0
        BY <1>0, <1>a, <3>4
      <4>2. endpos \div 8 = 1 /\ endpos % 8 = endpos - 8
        BY <4>1, ByteAndBit
      <4> QED
        BY <3>2, <3>4, <4>1, <4>2
    <3> QED
      BY <1>0, <2>2, <3>3, <3>4
  <2> QED
    BY <1>0, <2>1, <2>2
<1>2. /\ endpos \div 8 + 1 \in Nat /\ endpos % 8 \in 0 .. 7
      /\ after \div 8 \in Nat /\ after % 8 \in 0 .. 7
  <2> DEFINE q == endpos \div 8
             r == endpos % 8
             t == after \div 8
             u == after % 8
  <2> HIDE DEF q, r, t, u
  <2>1. \/ q = 0 /\ r = endpos /\ t = m.LogAddr /\ u = m.BitPos + bits
           /\ m.BitPos + bits <= 7
        \/ q = 0 /\ r = endpos /\ t = m.LogAddr + 1 /\ u = 0 /\ m.BitPos + bits = 8
        \/ q = 1 /\ r = endpos - 8 /\ t = m.LogAddr + 1
           /\ u = m.BitPos + bits - 8 /\ m.BitPos + bits > 8
    BY <1>3 DEF q, r, t, u
  <2>2. q + 1 \in Nat /\ r \in 0 .. 7 /\ t \in Nat /\ u \in 0 .. 7
    BY <1>0, <1>a, <2>1
  <2> QED
    BY <2>2 DEF q, r, t, u
<1>4. f \in [start : Nat, startbit : 0 .. 7, length : Nat, endbit : 0 .. 7,
             LogAddr : Nat, BitPos : 0 .. 7]
  BY <1>0, <1>1, <1>2
<1>5. /\ FirstBit(f) = 8 * m.LogAddr + m.BitPos
      /\ LastBit(f) = 8 * (m.LogAddr + f.length - 1) + f.endbit
  BY <1>1 DEF FirstBit, LastBit
<1>6. f.length \in Nat /\ f.LogAddr \in Nat /\ f.endbit \in Nat
      /\ f.BitPos \in Nat
  BY <1>4
<1>7. Cursor = 8 * m.LogAddr + m.BitPos /\ Padded = IF m.BitPos > 0 THEN 1 ELSE 0
  BY DEF Cursor, Padded
<1>8. \/ /\ m.BitPos + bits <= 7 /\ f.length = 1 /\ f.endbit = endpos
         /\ f.LogAddr = m.LogAddr /\ f.BitPos = m.BitPos + bits
      \/ /\ m.BitPos + bits = 8 /\ f.length = 1 /\ f.endbit = endpos
         /\ f.LogAddr = m.LogAddr + 1 /\ f.BitPos = 0
      \/ /\ m.BitPos + bits > 8 /\ m.BitPos > 0
         /\ f.length = 2 /\ f.endbit = endpos - 8
         /\ f.LogAddr = m.LogAddr + 1 /\ f.BitPos = m.BitPos + bits - 8
  BY <1>1, <1>3
<1>9. m.LogAddr <= f.LogAddr /\ f.length <= Padded + 1
      /\ f.LogAddr + (IF f.BitPos > 0 THEN 1 ELSE 0) = m.LogAddr + f.length
  BY <1>0, <1>6, <1>7, <1>8
<1>10. /\ LastBit(f) < 8 * f.LogAddr + f.BitPos
       /\ Cursor <= 8 * f.LogAddr + f.BitPos
  <2>1. LastBit(f) = 8 * m.LogAddr + endpos
    <3>1. LastBit(f) = 8 * m.LogAddr + 8 * (f.length - 1) + f.endbit
      BY <1>0, <1>5, <1>6
    <3> QED
      BY <1>0, <1>8, <1>a, <3>1
  <2>2. 8 * f.LogAddr + f.BitPos = 8 * m.LogAddr + m.BitPos + bits
    BY <1>0, <1>8
  <2>3. LastBit(f) < 8 * f.LogAddr + f.BitPos
    BY <1>0, <1>a, <2>1, <2>2
  <2>4. Cursor <= 8 * f.LogAddr + f.BitPos
    BY <1>0, <1>7, <2>2
  <2> QED
    BY <2>3, <2>4
<1> QED
  BY <1>4, <1>5, <1>7, <1>9, <1>10

\* That of any other starts at a byte.
LEMMA ByteFMMUFacts ==
  ASSUME m \in Locals, NEW bytes \in Nat, NEW count \in Nat,
         m.FMMUdone <= bytes, NEW f, f = ByteFMMU(bytes, count)
  PROVE  /\ f \in [start : Nat, startbit : 0 .. 7, length : Nat, endbit : 0 .. 7,
                   LogAddr : Nat, BitPos : 0 .. 7]
         /\ Cursor <= FirstBit(f) /\ LastBit(f) < 8 * f.LogAddr + f.BitPos
         /\ m.LogAddr <= f.LogAddr /\ Cursor <= 8 * f.LogAddr + f.BitPos
         /\ f.LogAddr = m.LogAddr + Padded + f.length /\ f.BitPos = 0
         /\ m.FMMUdone + f.length <= bytes
<1> DEFINE size == IF count + m.FMMUdone > bytes THEN bytes - m.FMMUdone ELSE count
<1>0. m.LogAddr \in Nat /\ m.BitPos \in 0 .. 7 /\ m.FMMUdone \in Nat
  BY DEF Locals
<1>1. /\ f.start = StartAtByte /\ f.startbit = 0 /\ f.length = size
      /\ f.endbit = 7 /\ f.LogAddr = StartAtByte + size /\ f.BitPos = 0
      /\ f = [start |-> f.start, startbit |-> f.startbit, length |-> f.length,
              endbit |-> f.endbit, LogAddr |-> f.LogAddr, BitPos |-> f.BitPos]
  BY DEF ByteFMMU
<1>2. size \in Nat /\ m.FMMUdone + size <= bytes
  BY <1>0
<1>3. StartAtByte \in Nat /\ StartAtByte = m.LogAddr + Padded /\ Padded \in {0, 1}
      /\ m.BitPos <= 8 * Padded
  BY <1>0 DEF StartAtByte, Padded
<1> HIDE DEF size
<1>4. f \in [start : Nat, startbit : 0 .. 7, length : Nat, endbit : 0 .. 7,
             LogAddr : Nat, BitPos : 0 .. 7]
  BY <1>1, <1>2, <1>3
<1>5. /\ FirstBit(f) = 8 * StartAtByte
      /\ LastBit(f) = 8 * (StartAtByte + size - 1) + 7
  BY <1>1, <1>3 DEF FirstBit, LastBit
<1> QED
  BY <1>0, <1>1, <1>2, <1>3, <1>4, <1>5 DEF Cursor

(* An FMMU f was created, of sync managers up to last.                     *)
Created(f, shared, last) ==
  /\ m.phase \in Dirs /\ m.slave \in 1 .. N
  /\ f \in [start : Nat, startbit : 0 .. 7, length : Nat, endbit : 0 .. 7,
            LogAddr : Nat, BitPos : 0 .. 7]
  /\ shared \in Nat /\ last \in Nat \ {0}
  /\ fmmus' = Append(fmmus, [slave |-> m.slave, dir |-> m.phase,
                             start |-> f.start, startbit |-> f.startbit,
                             length |-> f.length, endbit |-> f.endbit,
                             memory |-> shared])
  /\ m' = [m EXCEPT !.LogAddr = f.LogAddr, !.BitPos = f.BitPos,
                    !.sm = last + 1, !.ByteCount = @ + shared,
                    !.FMMUdone = @ + f.length]
  /\ group' = Counted(group, m.phase)
  /\ UNCHANGED <<slaves, overlap, hasdc, IOsegment, x>>

(* Where it lies, and where the next one may.                              *)
Placed(f) ==
  /\ Cursor <= FirstBit(f) /\ LastBit(f) < 8 * f.LogAddr + f.BitPos
  /\ m.LogAddr <= f.LogAddr /\ Cursor <= 8 * f.LogAddr + f.BitPos
  /\ LET end == f.LogAddr + (IF f.BitPos > 0 THEN 1 ELSE 0) IN
     /\ end <= Base + m.FMMUdone + f.length + 1
     /\ end <= Base + BytesOf(Bits(m.slave, m.phase)) + 1
  /\ Bytes(m.slave, m.phase) > 0 =>
       m.FMMUdone + f.length <= Bytes(m.slave, m.phase)

\* What is left of fewer bits than a byte holds.
LEMMA LastByte ==
  ASSUME NEW n \in Nat, NEW of \in Nat, NEW done \in Nat,
         n <= 7, of <= 1, of > 0 => n > 0, done < of
  PROVE  n \in 1 .. 7 /\ done = 0 /\ of = 1
OBVIOUS

\* A round of the loop adds an FMMU behind what was mapped.
LEMMA CreateFacts ==
  ASSUME MapTyped, Advance, CreateFMMU
  PROVE  \E f, shared, last : Created(f, shared, last) /\ Placed(f)
<1> DEFINE s == m.slave
           dir == m.phase
           sms == SMs(s, dir)
           last == LastShared(sms, Bits(s, dir))
           shared == SumLen(SubSeq(sms, m.sm, last))
           f == IF Bytes(s, dir) = 0 THEN BitFMMU(Bits(s, dir))
                ELSE ByteFMMU(Bytes(s, dir), m.ByteCount + shared)
<1>1. /\ dir \in Dirs /\ s <= N /\ m.FMMUdone < BytesOf(Bits(s, dir))
      /\ m.sm <= Len(sms)
      /\ fmmus' = Append(fmmus, [slave |-> s, dir |-> dir, start |-> f.start,
                                 startbit |-> f.startbit, length |-> f.length,
                                 endbit |-> f.endbit, memory |-> shared])
      /\ m' = [m EXCEPT !.LogAddr = f.LogAddr, !.BitPos = f.BitPos,
                        !.sm = last + 1, !.ByteCount = @ + shared,
                        !.FMMUdone = @ + f.length]
      /\ group' = Counted(group, dir)
      /\ UNCHANGED <<slaves, overlap, hasdc, IOsegment, x>>
  BY DEF CreateFMMU, MoreFMMUs
<1>2. m \in Locals /\ s \in 1 .. N /\ m.sm \in Nat \ {0} /\ m.FMMUdone \in Nat
      /\ m.ByteCount \in Nat /\ m.LogAddr \in Nat /\ m.start \in Nat
      /\ m.oLogAddr \in Nat /\ m.BitPos \in 0 .. 7
  BY <1>1, IOMapAssumption DEF MapTyped, Locals
<1>3. /\ Bits(s, dir) \in Nat /\ sms \in Seq(SM) /\ Bytes(s, dir) \in Nat
      /\ BytesOf(Bits(s, dir)) \in Nat
      /\ Bytes(s, dir) # 0 => Bytes(s, dir) = BytesOf(Bits(s, dir))
      /\ Bytes(s, dir) = 0 => Bits(s, dir) <= 7 /\ BytesOf(Bits(s, dir)) <= 1
      /\ BytesOf(Bits(s, dir)) > 0 => Bits(s, dir) > 0
  BY <1>1, <1>2, KindType
<1> HIDE DEF s, dir, sms
<1>4. Len(sms) \in Nat /\ m.sm \in 1 .. Len(sms)
  BY <1>1, <1>2, <1>3
<1>5. last \in Nat \ {0} /\ shared \in Nat
  <2>1. last \in m.sm .. Len(sms) /\ shared \in Nat
    BY <1>3, <1>4, SharedType
  <2> HIDE DEF last, shared
  <2> QED
    BY <1>2, <1>4, <2>1
<1> HIDE DEF last, shared
<1>6. /\ Base \in Nat /\ Base <= m.LogAddr
      /\ m.LogAddr + Padded <= Base + m.FMMUdone + 1
      /\ m.LogAddr + Padded <= Base + BytesOf(Bits(s, dir)) + 1
      /\ Bytes(s, dir) > 0 => m.FMMUdone <= Bytes(s, dir)
      /\ Padded \in {0, 1}
  BY <1>1, <1>2 DEF Advance, Base, Padded, s, dir
<1> DEFINE F == [start : Nat, startbit : 0 .. 7, length : Nat, endbit : 0 .. 7,
                 LogAddr : Nat, BitPos : 0 .. 7]
           end == f.LogAddr + (IF f.BitPos > 0 THEN 1 ELSE 0)
           Good == /\ f \in F
                   /\ Cursor <= FirstBit(f)
                   /\ LastBit(f) < 8 * f.LogAddr + f.BitPos
                   /\ m.LogAddr <= f.LogAddr
                   /\ Cursor <= 8 * f.LogAddr + f.BitPos
                   /\ end <= Base + m.FMMUdone + f.length + 1
                   /\ end <= Base + BytesOf(Bits(s, dir)) + 1
                   /\ Bytes(s, dir) > 0 => m.FMMUdone + f.length <= Bytes(s, dir)
<1>7. ASSUME Bytes(s, dir) = 0 PROVE Good
  <2>1. Bits(s, dir) \in 1 .. 7 /\ m.FMMUdone = 0 /\ BytesOf(Bits(s, dir)) = 1
    <3> DEFINE n == Bits(s, dir)
               of == BytesOf(n)
               done == m.FMMUdone
    <3>1. /\ n \in Nat /\ of \in Nat /\ n <= 7 /\ of <= 1 /\ (of > 0 => n > 0)
          /\ done \in Nat /\ done < of
      BY <1>1, <1>2, <1>3, <1>7
    <3> HIDE DEF n, of, done
    <3>2. n \in 1 .. 7 /\ done = 0 /\ of = 1
      BY <3>1, LastByte
    <3> QED
      BY <3>2 DEF n, of, done
  <2>2. f = BitFMMU(Bits(s, dir))
    BY <1>7
  <2> HIDE DEF f
  <2>3. /\ f \in F
        /\ FirstBit(f) = Cursor /\ LastBit(f) < 8 * f.LogAddr + f.BitPos
        /\ m.LogAddr <= f.LogAddr /\ Cursor <= 8 * f.LogAddr + f.BitPos
        /\ end = m.LogAddr + f.length /\ f.length <= Padded + 1
    BY <1>2, <2>1, <2>2, BitFMMUFacts
  <2>4. f.length \in Nat /\ Cursor \in Nat
    BY <1>2, <2>3 DEF Cursor
  <2> HIDE DEF F, end
  <2> QED
    <3>1. end <= Base + m.FMMUdone + f.length + 1
      BY <1>2, <1>6, <2>1, <2>3, <2>4
    <3>2. end <= Base + BytesOf(Bits(s, dir)) + 1
      BY <1>2, <1>6, <2>1, <2>3, <2>4
    <3>3. Cursor <= FirstBit(f)
      BY <2>3, <2>4
    <3>4. ~(Bytes(s, dir) > 0)
      BY <1>7
    <3> QED
      BY <2>3, <3>1, <3>2, <3>3, <3>4
<1>8. ASSUME Bytes(s, dir) # 0 PROVE Good
  <2>1. m.FMMUdone <= Bytes(s, dir) /\ Bytes(s, dir) = BytesOf(Bits(s, dir))
        /\ m.ByteCount + shared \in Nat
    <3>1. Bytes(s, dir) \in Nat /\ Bytes(s, dir) > 0
      BY <1>3, <1>8
    <3>2. m.ByteCount \in Nat /\ shared \in Nat
      BY <1>2, <1>5
    <3>3. m.ByteCount + shared \in Nat
      BY <3>2
    <3> QED
      BY <1>3, <1>6, <1>8, <3>1, <3>3
  <2>2. f = ByteFMMU(Bytes(s, dir), m.ByteCount + shared)
    BY <1>8
  <2> HIDE DEF f
  <2>3. /\ f \in F
        /\ Cursor <= FirstBit(f) /\ LastBit(f) < 8 * f.LogAddr + f.BitPos
        /\ m.LogAddr <= f.LogAddr /\ Cursor <= 8 * f.LogAddr + f.BitPos
        /\ f.LogAddr = m.LogAddr + Padded + f.length /\ f.BitPos = 0
        /\ m.FMMUdone + f.length <= Bytes(s, dir)
    <3> DEFINE bytes == Bytes(s, dir)
               count == m.ByteCount + shared
    <3>1. /\ m \in Locals /\ bytes \in Nat /\ count \in Nat
          /\ m.FMMUdone <= bytes /\ f = ByteFMMU(bytes, count)
      BY <1>2, <1>3, <2>1, <2>2
    <3> HIDE DEF bytes, count
    <3>2. /\ f \in F
          /\ Cursor <= FirstBit(f) /\ LastBit(f) < 8 * f.LogAddr + f.BitPos
          /\ m.LogAddr <= f.LogAddr /\ Cursor <= 8 * f.LogAddr + f.BitPos
          /\ f.LogAddr = m.LogAddr + Padded + f.length /\ f.BitPos = 0
          /\ m.FMMUdone + f.length <= bytes
      BY <3>1, ByteFMMUFacts
    <3> QED
      BY <3>2 DEF bytes
  <2>4. f.length \in Nat /\ end = f.LogAddr
    <3> HIDE DEF end
    <3>1. f.length \in Nat
      BY <2>3
    <3>2. end = f.LogAddr
      BY <2>3 DEF end
    <3> QED
      BY <3>1, <3>2
  <2> HIDE DEF F, end
  <2> QED
    <3>1. end <= Base + m.FMMUdone + f.length + 1
      BY <1>2, <1>6, <2>3, <2>4
    <3>2. end <= Base + BytesOf(Bits(s, dir)) + 1
      <4> DEFINE of == BytesOf(Bits(s, dir))
      <4>1. /\ end = m.LogAddr + Padded + f.length /\ m.FMMUdone + f.length <= of
            /\ m.LogAddr + Padded <= Base + m.FMMUdone + 1
        BY <1>6, <2>1, <2>3, <2>4
      <4>2. /\ of \in Nat /\ Base \in Nat /\ m.LogAddr \in Nat /\ f.length \in Nat
            /\ m.FMMUdone \in Nat /\ Padded \in {0, 1}
        BY <1>2, <1>3, <1>6, <2>4
      <4> HIDE DEF of
      <4>3. end <= Base + of + 1
        BY <4>1, <4>2
      <4> QED
        BY <4>3 DEF of
    <3> QED
      BY <2>3, <3>1, <3>2
<1> HIDE DEF f
<1>9. Created(f, shared, last) /\ Placed(f)
  BY <1>1, <1>2, <1>5, <1>7, <1>8 DEF Created, Placed, s, dir
<1> QED
  BY <1>9

-----------------------------------------------------------------------------
(* Steps of the mapping. *)

(* The segments io, the number cur and the size of the last, once diff more *)
(* bytes are accounted for.                                                *)
Grown(diff, io, cur, size) ==
  /\ io \in Seq(Nat) /\ cur - 1 <= Len(io)
  /\ \/ /\ m.segmentsize + diff <= MaxSegment
        /\ cur = m.currentsegment /\ size = m.segmentsize + diff
        /\ io = IOsegment
     \/ /\ m.segmentsize + diff > MaxSegment
        /\ Len(io) = m.currentsegment /\ io[m.currentsegment] = m.segmentsize
        /\ \A k \in 1 .. m.currentsegment - 1 : io[k] = IOsegment[k]
        /\ \/ /\ m.currentsegment < EC_MAXIOSEGMENTS
              /\ cur = m.currentsegment + 1 /\ size = diff
           \/ /\ m.currentsegment = EC_MAXIOSEGMENTS
              /\ cur = m.currentsegment /\ size = m.segmentsize

\* The first elements of a sequence with one more after them.
LEMMA PrefixAndOne ==
  ASSUME NEW io \in Seq(Nat), NEW n \in 0 .. Len(io), NEW e \in Nat,
         NEW s, s = SubSeq(io, 1, n) \o <<e>>
  PROVE  /\ s \in Seq(Nat) /\ Len(s) = n + 1 /\ s[n + 1] = e
         /\ \A k \in 1 .. n : s[k] = io[k]
<1>1. \A k \in 1 .. n : io[k] \in Nat
  BY ElementOfSeq
<1>2. /\ SubSeq(io, 1, n) \in Seq(Nat) /\ Len(SubSeq(io, 1, n)) = n
      /\ \A k \in 1 .. n : SubSeq(io, 1, n)[k] = io[k]
  BY <1>1, SubSeqProperties
<1>3. <<e>> \in Seq(Nat) /\ Len(<<e>>) = 1 /\ <<e>>[1] = e
  OBVIOUS
<1> DEFINE t == SubSeq(io, 1, n)
           u == <<e>>
<1>4. /\ t \o u \in Seq(Nat) /\ Len(t \o u) = Len(t) + Len(u)
      /\ \A k \in 1 .. Len(t) + Len(u) :
           (t \o u)[k] = IF k <= Len(t) THEN t[k] ELSE u[k - Len(t)]
  BY <1>2, <1>3, ConcatProperties
<1> HIDE DEF t, u
<1>5. Len(t) = n /\ Len(u) = 1 /\ u[1] = e /\ \A k \in 1 .. n : t[k] = io[k]
  BY <1>2, <1>3 DEF t, u
<1>6. s = t \o u
  BY DEF t, u
<1>7. s \in Seq(Nat) /\ Len(s) = n + 1
  BY <1>4, <1>5, <1>6
<1>8. s[n + 1] = e
  <2>1. n \in Nat /\ n + 1 \in 1 .. n + 1 /\ ~(n + 1 <= n) /\ (n + 1) - n = 1
    OBVIOUS
  <2>2. s[n + 1] = u[(n + 1) - n]
    BY <1>4, <1>5, <1>6, <2>1
  <2> QED
    BY <1>5, <2>1, <2>2
<1>9. ASSUME NEW k \in 1 .. n PROVE s[k] = io[k]
  <2>1. k \in 1 .. n + 1 /\ k <= n
    OBVIOUS
  <2>2. s[k] = t[k]
    BY <1>4, <1>5, <1>6, <2>1
  <2> QED
    BY <1>5, <2>2
<1> QED
  BY <1>7, <1>8, <1>9

\* Account and Closed are about the same segments.
LEMMA AccountFacts ==
  ASSUME MapTyped, NEW diff \in Nat, NEW r \in Locals,
         r.currentsegment = m.currentsegment, r.segmentsize = m.segmentsize
  PROVE  /\ Account(r, diff) \in Locals
         /\ LET a == Account(r, diff) IN
            /\ a.phase = r.phase /\ a.slave = r.slave /\ a.sm = r.sm
            /\ a.ByteCount = r.ByteCount /\ a.FMMUdone = r.FMMUdone
            /\ a.start = r.start /\ a.so = r.so /\ a.LogAddr = r.LogAddr
            /\ a.oLogAddr = r.oLogAddr /\ a.BitPos = r.BitPos
            /\ Grown(diff, Closed(diff), a.currentsegment, a.segmentsize)
<1> DEFINE a == Account(r, diff)
           Same(b) == /\ b.phase = r.phase /\ b.slave = r.slave /\ b.sm = r.sm
                      /\ b.ByteCount = r.ByteCount /\ b.FMMUdone = r.FMMUdone
                      /\ b.start = r.start /\ b.so = r.so
                      /\ b.LogAddr = r.LogAddr
                      /\ b.oLogAddr = r.oLogAddr /\ b.BitPos = r.BitPos
           Good == /\ a \in Locals /\ Same(a)
                   /\ Grown(diff, Closed(diff), a.currentsegment, a.segmentsize)
<1>0. /\ m.currentsegment \in 1 .. EC_MAXIOSEGMENTS /\ m.segmentsize \in Nat
      /\ IOsegment \in Seq(Nat) /\ m.currentsegment - 1 <= Len(IOsegment)
      /\ EC_MAXIOSEGMENTS \in Nat /\ MaxSegment \in Nat
      /\ m.currentsegment \in Nat /\ Len(IOsegment) \in Nat
  <2>1. EC_MAXIOSEGMENTS \in Nat /\ MaxSegment \in Nat
    BY IOMapAssumption
  <2>2. m.currentsegment \in 1 .. EC_MAXIOSEGMENTS /\ m.segmentsize \in Nat
    BY DEF MapTyped, Locals
  <2>3. IOsegment \in Seq(Nat) /\ m.currentsegment - 1 <= Len(IOsegment)
    BY DEF MapTyped
  <2>4. Len(IOsegment) \in Nat
    BY <2>3
  <2> QED
    BY <2>1, <2>2, <2>3, <2>4
<1>1. ASSUME m.segmentsize + diff <= MaxSegment PROVE Good
  <2>1. a = [r EXCEPT !.segmentsize = @ + diff] /\ Closed(diff) = IOsegment
    BY <1>0, <1>1 DEF Account, Closed
  <2>2. r.segmentsize + diff \in Nat
    BY <1>0
  <2> HIDE DEF a
  <2>3. /\ a \in Locals /\ Same(a)
        /\ a.currentsegment = m.currentsegment
        /\ a.segmentsize = m.segmentsize + diff
    BY <2>1, <2>2 DEF Locals
  <2> QED
    BY <1>0, <1>1, <2>1, <2>3 DEF Grown
<1>2. ASSUME m.segmentsize + diff > MaxSegment PROVE Good
  <2>1. /\ Closed(diff) \in Seq(Nat) /\ Len(Closed(diff)) = m.currentsegment
        /\ Closed(diff)[m.currentsegment] = m.segmentsize
        /\ \A k \in 1 .. m.currentsegment - 1 : Closed(diff)[k] = IOsegment[k]
    <3>1. m.currentsegment - 1 \in 0 .. Len(IOsegment)
      BY <1>0
    <3>2. (m.currentsegment - 1) + 1 = m.currentsegment
      BY <1>0
    <3>3. Closed(diff) = SubSeq(IOsegment, 1, m.currentsegment - 1)
                           \o <<m.segmentsize>>
      BY <1>2 DEF Closed
    <3> DEFINE n == m.currentsegment - 1
               s == Closed(diff)
               e == m.segmentsize
    <3> HIDE DEF Good, n, s, e
    <3>4. n \in 0 .. Len(IOsegment) /\ s = SubSeq(IOsegment, 1, n) \o <<e>>
          /\ e \in Nat /\ IOsegment \in Seq(Nat)
      BY <1>0, <3>1, <3>3 DEF n, s, e
    <3>5. /\ s \in Seq(Nat) /\ Len(s) = n + 1 /\ s[n + 1] = e
          /\ \A k \in 1 .. n : s[k] = IOsegment[k]
      BY <3>4, PrefixAndOne
    <3>6. n + 1 = m.currentsegment
      BY <3>2 DEF n
    <3>7. s[m.currentsegment] = e /\ Len(s) = m.currentsegment
      BY <3>5, <3>6
    <3> QED
      BY <3>5, <3>7 DEF n, s, e
  <2>2. ~(r.segmentsize + diff <= MaxSegment)
    BY <1>0, <1>2
  <2>3. CASE m.currentsegment < EC_MAXIOSEGMENTS
    <3>1. a = [r EXCEPT !.currentsegment = @ + 1, !.segmentsize = diff]
      BY <2>2, <2>3 DEF Account
    <3>2. m.currentsegment + 1 \in 1 .. EC_MAXIOSEGMENTS
      BY <1>0, <2>3
    <3> HIDE DEF a
    <3>3. /\ a \in Locals /\ Same(a)
          /\ a.currentsegment = m.currentsegment + 1 /\ a.segmentsize = diff
      BY <3>1, <3>2 DEF Locals
    <3> QED
      BY <1>0, <1>2, <2>1, <2>3, <3>3 DEF Grown
  <2>4. CASE m.currentsegment = EC_MAXIOSEGMENTS
    <3>1. a = r
      BY <1>0, <2>2, <2>4 DEF Account
    <3> HIDE DEF a
    <3> QED
      BY <1>0, <1>2, <2>1, <2>4, <3>1 DEF Grown
  <2> QED
    BY <1>0, <2>3, <2>4
<1> HIDE DEF Good
<1>3. Good
  BY <1>0, <1>1, <1>2
<1> QED
  BY <1>3 DEF Good

\* The locals of the next slave.
LEMMA NextSlaveFacts ==
  ASSUME NEW r \in Locals, r.slave <= N
  PROVE  /\ NextSlave(r) \in Locals
         /\ LET a == NextSlave(r) IN
            /\ a.phase = r.phase /\ a.slave = r.slave + 1
            /\ a.FMMUdone = 0
            /\ a.start = r.start /\ a.so = r.so /\ a.LogAddr = r.LogAddr
            /\ a.oLogAddr = r.oLogAddr /\ a.BitPos = r.BitPos
            /\ a.currentsegment = r.currentsegment
            /\ a.segmentsize = r.segmentsize
<1>1. N \in Nat /\ r.slave \in 1 .. N + 1
  BY IOMapAssumption DEF Locals
<1>2. r.slave + 1 \in 1 .. N + 1
  BY <1>1
<1> DEFINE a == NextSlave(r)
<1>3. a = [r EXCEPT !.slave = @ + 1, !.sm = 1, !.ByteCount = 0, !.FMMUdone = 0]
  BY DEF NextSlave
<1> HIDE DEF a
<1>4. /\ a.phase = r.phase /\ a.slave = r.slave + 1 /\ a.sm = 1
      /\ a.ByteCount = 0 /\ a.FMMUdone = 0
      /\ a.start = r.start /\ a.so = r.so /\ a.LogAddr = r.LogAddr
      /\ a.oLogAddr = r.oLogAddr /\ a.BitPos = r.BitPos
      /\ a.currentsegment = r.currentsegment
      /\ a.segmentsize = r.segmentsize
  BY <1>3 DEF Locals
<1>5. a \in Locals
  <2> DEFINE n == r.slave + 1
             one == [r EXCEPT !.slave = n, !.sm = 1]
  <2>1. a = [one EXCEPT !.ByteCount = 0, !.FMMUdone = 0]
    BY <1>3 DEF Locals
  <2>2. n \in 1 .. N + 1 /\ 1 \in Nat \ {0} /\ 0 \in Nat
    BY <1>2
  <2> HIDE DEF n
  <2>3. one \in Locals
    BY <2>2 DEF Locals
  <2> HIDE DEF one
  <2> QED
    BY <2>1, <2>2, <2>3 DEF Locals
<1> QED
  BY <1>4, <1>5 DEF a

\* What changes nothing of the slaves changes nothing of what they have.
LEMMA SameSlaves ==
  ASSUME UNCHANGED <<slaves, overlap>>
  PROVE  /\ \A s, dir : /\ Bits(s, dir)' = Bits(s, dir)
                        /\ Bytes(s, dir)' = Bytes(s, dir)
         /\ blockLRW' = blockLRW
<1>1. \A s, dir : Bits(s, dir)' = Bits(s, dir)
  BY DEF Bits
<1>2. \A s, dir : Bytes(s, dir)' = Bytes(s, dir)
  BY DEF Bytes, Bits
<1>3. blockLRW' = blockLRW
  BY DEF blockLRW
<1> QED
  BY <1>1, <1>2, <1>3

(* The last of the segments io is written, too.                            *)
Finished(io, cur, size) ==
  /\ IOsegment' \in Seq(Nat) /\ Len(IOsegment') = cur
  /\ IOsegment'[cur] = size
  /\ \A k \in 1 .. cur - 1 : IOsegment'[k] = io[k]

\* What the fields of the locals are.
LEMMA LocalsType ==
  ASSUME MapTyped
  PROVE  /\ m \in Locals /\ m.phase \in Dirs \cup {"mapped"}
         /\ m.slave \in 1 .. N + 1 /\ N \in Nat \ {0}
         /\ m.sm \in Nat \ {0} /\ m.ByteCount \in Nat /\ m.FMMUdone \in Nat
         /\ m.start \in Nat /\ m.so \in Nat /\ m.LogAddr \in Nat
         /\ m.oLogAddr \in Nat /\ m.BitPos \in 0 .. 7
         /\ m.currentsegment \in 1 .. EC_MAXIOSEGMENTS
         /\ m.segmentsize \in Nat /\ Padded \in {0, 1}
         /\ EC_MAXIOSEGMENTS \in Nat \ {0} /\ MaxSegment \in Nat \ {0}
         /\ Base \in Nat
<1>1. /\ N \in Nat \ {0} /\ EC_MAXIOSEGMENTS \in Nat \ {0}
      /\ MaxSegment \in Nat \ {0}
  BY IOMapAssumption
<1>2. /\ m \in Locals /\ m.phase \in Dirs \cup {"mapped"}
      /\ m.slave \in 1 .. N + 1
      /\ m.sm \in Nat \ {0} /\ m.ByteCount \in Nat /\ m.FMMUdone \in Nat
      /\ m.start \in Nat /\ m.so \in Nat /\ m.LogAddr \in Nat
      /\ m.oLogAddr \in Nat /\ m.BitPos \in 0 .. 7
      /\ m.currentsegment \in 1 .. EC_MAXIOSEGMENTS
      /\ m.segmentsize \in Nat
  BY DEF MapTyped, Locals
<1> QED
  BY <1>1, <1>2 DEF Padded, Base

\* After a slave's outputs or inputs they are accounted for.
LEMMA EndSlaveFacts ==
  ASSUME MapTyped, Advance, EndSlave
  PROVE  /\ ~overlap /\ m.phase \in Dirs /\ m.slave <= N
         /\ m.LogAddr - m.oLogAddr \in Nat
         /\ m' \in Locals
         /\ m'.phase = m.phase /\ m'.slave = m.slave + 1 /\ m'.FMMUdone = 0
         /\ m'.start = m.start /\ m'.so = m.so /\ m'.LogAddr = m.LogAddr
         /\ m'.oLogAddr = m.LogAddr /\ m'.BitPos = m.BitPos
         /\ Grown(m.LogAddr - m.oLogAddr, IOsegment',
                  m'.currentsegment, m'.segmentsize)
         /\ UNCHANGED <<slaves, overlap, hasdc, fmmus, group, x>>
<1> DEFINE diff == m.LogAddr - m.oLogAddr
           r == [m EXCEPT !.oLogAddr = m.LogAddr]
           a == Account(r, diff)
<1>1. /\ ~overlap /\ m.phase \in Dirs /\ m.slave <= N
      /\ m' = NextSlave(a) /\ IOsegment' = Closed(diff)
      /\ UNCHANGED <<slaves, overlap, hasdc, fmmus, group, x>>
  BY DEF EndSlave
<1>2. diff \in Nat
  BY <1>1, LocalsType DEF Advance, Base
<1>3. /\ r \in Locals /\ r.currentsegment = m.currentsegment
      /\ r.segmentsize = m.segmentsize
      /\ r.phase = m.phase /\ r.slave = m.slave /\ r.start = m.start
      /\ r.so = m.so /\ r.LogAddr = m.LogAddr /\ r.oLogAddr = m.LogAddr
      /\ r.BitPos = m.BitPos
  BY LocalsType DEF Locals
<1> HIDE DEF diff, r
<1>4. /\ a \in Locals
      /\ a.phase = r.phase /\ a.slave = r.slave
      /\ a.start = r.start /\ a.so = r.so /\ a.LogAddr = r.LogAddr
      /\ a.oLogAddr = r.oLogAddr /\ a.BitPos = r.BitPos
      /\ Grown(diff, Closed(diff), a.currentsegment, a.segmentsize)
  BY <1>2, <1>3, AccountFacts
<1> HIDE DEF a
<1>5. /\ m' \in Locals
      /\ m'.phase = a.phase /\ m'.slave = a.slave + 1 /\ m'.FMMUdone = 0
      /\ m'.start = a.start /\ m'.so = a.so /\ m'.LogAddr = a.LogAddr
      /\ m'.oLogAddr = a.oLogAddr /\ m'.BitPos = a.BitPos
      /\ m'.currentsegment = a.currentsegment
      /\ m'.segmentsize = a.segmentsize
  BY <1>1, <1>3, <1>4, NextSlaveFacts
<1>6. Grown(diff, IOsegment', m'.currentsegment, m'.segmentsize)
  BY <1>1, <1>4, <1>5
<1> QED
  BY <1>1, <1>2, <1>3, <1>4, <1>5, <1>6 DEF diff

\* The common part of EndOutputs and EndInputs.
LEMMA PaddedFacts ==
  ASSUME MapTyped, NEW end \in Nat, NEW a,
         a = Account([m EXCEPT !.LogAddr = end, !.oLogAddr = end, !.BitPos = 0],
                     Padded)
  PROVE  /\ a \in Locals
         /\ a.phase = m.phase /\ a.slave = m.slave /\ a.FMMUdone = m.FMMUdone
         /\ a.start = m.start /\ a.so = m.so /\ a.LogAddr = end
         /\ a.oLogAddr = end /\ a.BitPos = 0
         /\ Grown(Padded, Closed(Padded), a.currentsegment, a.segmentsize)
<1> DEFINE r == [m EXCEPT !.LogAddr = end, !.oLogAddr = end, !.BitPos = 0]
<1>1. m \in Locals /\ Padded \in Nat
  BY LocalsType
<1>2. /\ r.currentsegment = m.currentsegment
      /\ r.segmentsize = m.segmentsize
      /\ r.phase = m.phase /\ r.slave = m.slave /\ r.start = m.start
      /\ r.so = m.so /\ r.LogAddr = end /\ r.oLogAddr = end
      /\ r.BitPos = 0 /\ r.FMMUdone = m.FMMUdone
  BY <1>1 DEF Locals
<1>3. r \in Locals
  <2> DEFINE one == [m EXCEPT !.LogAddr = end, !.oLogAddr = end]
  <2>1. r = [one EXCEPT !.BitPos = 0]
    BY <1>1 DEF Locals
  <2>2. one \in Locals
    BY <1>1 DEF Locals
  <2>3. 0 \in 0 .. 7
    OBVIOUS
  <2> HIDE DEF one
  <2> QED
    BY <2>1, <2>2, <2>3 DEF Locals
<1>4. a = Account(r, Padded)
  OBVIOUS
<1> HIDE DEF r
<1>5. /\ a \in Locals
      /\ a.phase = r.phase /\ a.slave = r.slave /\ a.FMMUdone = r.FMMUdone
      /\ a.start = r.start /\ a.so = r.so /\ a.LogAddr = r.LogAddr
      /\ a.oLogAddr = r.oLogAddr /\ a.BitPos = r.BitPos
      /\ Grown(Padded, Closed(Padded), a.currentsegment, a.segmentsize)
  BY <1>1, <1>2, <1>3, <1>4, AccountFacts
<1> QED
  BY <1>2, <1>5

\* After the outputs of all slaves the inputs begin.
LEMMA EndOutputsFacts ==
  ASSUME MapTyped, Advance, EndOutputs
  PROVE  /\ ~overlap /\ m.phase = "O" /\ m.slave = N + 1
         /\ m' \in Locals
         /\ m'.phase = "I" /\ m'.slave = 1 /\ m'.FMMUdone = 0
         /\ m'.start = m.start /\ m'.so = m.so
         /\ m'.LogAddr = m.LogAddr + Padded
         /\ m'.oLogAddr = m.LogAddr + Padded /\ m'.BitPos = 0
         /\ Grown(Padded, IOsegment', m'.currentsegment, m'.segmentsize)
         /\ group' \in Results
         /\ group'.Obytes = m.LogAddr + Padded
         /\ group'.Isegment = m'.currentsegment
         /\ group'.Ioffset = m'.segmentsize
         /\ group'.outputsWKC = group.outputsWKC
         /\ group'.inputsWKC = group.inputsWKC
         /\ UNCHANGED <<slaves, overlap, hasdc, fmmus, x>>
<1> DEFINE end == m.LogAddr + Padded
           a == Account([m EXCEPT !.LogAddr = end, !.oLogAddr = end, !.BitPos = 0],
                        Padded)
<1>1. /\ ~overlap /\ m.phase = "O" /\ m.slave > N
      /\ m' = [a EXCEPT !.phase = "I", !.slave = 1]
      /\ IOsegment' = Closed(Padded)
      /\ group' = [group EXCEPT !.Obytes = end, !.Isegment = a.currentsegment,
                                !.Ioffset = a.segmentsize]
      /\ UNCHANGED <<slaves, overlap, hasdc, fmmus, x>>
  BY DEF EndOutputs
<1>2. end \in Nat /\ m.slave = N + 1 /\ m.FMMUdone = 0 /\ 1 \in 1 .. N + 1
  BY <1>1, LocalsType DEF Advance, Dirs
<1> HIDE DEF end
<1>3. /\ a \in Locals
      /\ a.phase = m.phase /\ a.slave = m.slave /\ a.FMMUdone = m.FMMUdone
      /\ a.start = m.start /\ a.so = m.so /\ a.LogAddr = end
      /\ a.oLogAddr = end /\ a.BitPos = 0
      /\ Grown(Padded, Closed(Padded), a.currentsegment, a.segmentsize)
  BY <1>2, PaddedFacts
<1> HIDE DEF a
<1>4. /\ m'.phase = "I" /\ m'.slave = 1 /\ m'.FMMUdone = a.FMMUdone
      /\ m'.start = a.start /\ m'.so = a.so /\ m'.LogAddr = a.LogAddr
      /\ m'.oLogAddr = a.oLogAddr /\ m'.BitPos = a.BitPos
      /\ m'.currentsegment = a.currentsegment
      /\ m'.segmentsize = a.segmentsize
  BY <1>1, <1>3 DEF Locals
<1>5. m' \in Locals
  BY <1>1, <1>2, <1>3 DEF Locals, Dirs
<1>6. a.currentsegment \in Nat \ {0} /\ a.segmentsize \in Nat
  BY <1>3, LocalsType DEF Locals
<1>7. /\ group \in Results
      /\ group'.Obytes = end /\ group'.Isegment = a.currentsegment
      /\ group'.Ioffset = a.segmentsize
      /\ group'.outputsWKC = group.outputsWKC
      /\ group'.inputsWKC = group.inputsWKC
  BY <1>1 DEF MapTyped, Results
<1>8. group' \in Results
  BY <1>1, <1>2, <1>6, <1>7 DEF Results
<1>9. Grown(Padded, IOsegment', m'.currentsegment, m'.segmentsize)
  BY <1>1, <1>3, <1>4
<1> QED
  BY <1>1, <1>2, <1>3, <1>4, <1>5, <1>7, <1>8, <1>9 DEF end

\* The last segment is written at the end.
LEMMA FinishedFacts ==
  ASSUME NEW io \in Seq(Nat), NEW cur \in Nat \ {0}, NEW size \in Nat,
         cur - 1 <= Len(io), IOsegment' = SubSeq(io, 1, cur - 1) \o <<size>>
  PROVE  Finished(io, cur, size)
<1> DEFINE n == cur - 1
           s == IOsegment'
<1>1. n \in 0 .. Len(io) /\ s = SubSeq(io, 1, n) \o <<size>> /\ n + 1 = cur
  <2>1. Len(io) \in Nat
    OBVIOUS
  <2> QED
    BY <2>1
<1> HIDE DEF n, s
<1>2. /\ s \in Seq(Nat) /\ Len(s) = n + 1 /\ s[n + 1] = size
      /\ \A k \in 1 .. n : s[k] = io[k]
  BY <1>1, PrefixAndOne
<1> QED
  BY <1>1, <1>2 DEF Finished, n, s

\* After the inputs of all slaves the mapping is finished.
LEMMA EndInputsFacts ==
  ASSUME MapTyped, Advance, EndInputs
  PROVE  /\ ~overlap /\ m.phase = "I" /\ m.slave = N + 1
         /\ m' \in Locals
         /\ m'.phase = "mapped"
         /\ \E io : /\ Grown(Padded, io, m'.currentsegment, m'.segmentsize)
                    /\ Finished(io, m'.currentsegment, m'.segmentsize)
         /\ group' \in Results
         /\ group'.Obytes = group.Obytes
         /\ group'.Ibytes = (m.LogAddr + Padded) - group.Obytes
         /\ group'.nsegments = m'.currentsegment
         /\ group'.Isegment = group.Isegment
         /\ group'.Ioffset = group.Ioffset
         /\ group'.outputsWKC = group.outputsWKC
         /\ group'.inputsWKC = group.inputsWKC
         /\ UNCHANGED <<slaves, overlap, hasdc, fmmus, x>>
<1> DEFINE end == m.LogAddr + Padded
           a == Account([m EXCEPT !.LogAddr = end, !.oLogAddr = end, !.BitPos = 0],
                        Padded)
           io == Closed(Padded)
<1>1. /\ ~overlap /\ m.phase = "I" /\ m.slave > N
      /\ m' = [a EXCEPT !.phase = "mapped"]
      /\ IOsegment' = SubSeq(io, 1, a.currentsegment - 1) \o <<a.segmentsize>>
      /\ group' = [group EXCEPT !.Ibytes = end - group.Obytes,
                                !.nsegments = a.currentsegment]
      /\ UNCHANGED <<slaves, overlap, hasdc, fmmus, x>>
  BY DEF EndInputs
<1>2. end \in Nat /\ m.slave = N + 1
  <2>1. end \in Nat
    BY LocalsType
  <2>2. m.slave = N + 1
    <3>1. m.slave > N /\ m.slave \in 1 .. N + 1 /\ N \in Nat
      BY <1>1, LocalsType
    <3> QED
      BY <3>1
  <2> QED
    BY <2>1, <2>2
<1>a. group \in Results /\ group.Obytes \in Nat /\ end - group.Obytes \in Nat
  <2>1. group \in Results /\ group.Obytes \in Nat
    BY DEF MapTyped, Results
  <2>2. group.Obytes <= m.oLogAddr /\ m.oLogAddr <= m.LogAddr
    BY <1>1, LocalsType DEF Advance, Base, Dirs
  <2> QED
    BY <2>1, <2>2, LocalsType
<1>b. end - group.Obytes = (m.LogAddr + Padded) - group.Obytes
  OBVIOUS
<1> HIDE DEF end
<1>3. /\ a \in Locals
      /\ Grown(Padded, io, a.currentsegment, a.segmentsize)
  BY <1>2, PaddedFacts
<1> HIDE DEF a, io
<1>4. /\ m'.phase = "mapped"
      /\ m'.currentsegment = a.currentsegment
      /\ m'.segmentsize = a.segmentsize
  BY <1>1, <1>3 DEF Locals
<1>5. m' \in Locals
  BY <1>1, <1>3 DEF Locals, Dirs
<1>6. a.currentsegment \in Nat \ {0} /\ a.segmentsize \in Nat
  BY <1>3, LocalsType DEF Locals
<1>7. Finished(io, a.currentsegment, a.segmentsize)
  <2>1. io \in Seq(Nat) /\ a.currentsegment - 1 <= Len(io)
    BY <1>3 DEF Grown
  <2> QED
    BY <1>1, <1>6, <2>1, FinishedFacts
<1>8. /\ group'.Obytes = group.Obytes /\ group'.Isegment = group.Isegment
      /\ group'.Ibytes = end - group.Obytes
      /\ group'.nsegments = a.currentsegment
      /\ group'.Ioffset = group.Ioffset
      /\ group'.outputsWKC = group.outputsWKC
      /\ group'.inputsWKC = group.inputsWKC
  BY <1>1, <1>a DEF Results
<1>9. group' \in Results
  BY <1>1, <1>6, <1>a DEF Results
<1>10. /\ Grown(Padded, io, m'.currentsegment, m'.segmentsize)
       /\ Finished(io, m'.currentsegment, m'.segmentsize)
  BY <1>3, <1>4, <1>7
<1> QED
  BY <1>1, <1>2, <1>4, <1>5, <1>8, <1>9, <1>10, <1>b

\* After a slave's outputs its inputs begin where they did.
LEMMA EndSlaveOutputsFacts ==
  ASSUME MapTyped, Advance, EndSlaveOutputs
  PROVE  /\ overlap /\ m.phase = "O" /\ m.slave <= N
         /\ m' \in Locals
         /\ m'.phase = "I" /\ m'.slave = m.slave /\ m'.FMMUdone = 0
         /\ m'.start = m.start /\ m'.so = m.LogAddr + Padded
         /\ m'.LogAddr = m.start /\ m'.BitPos = 0
         /\ m'.currentsegment = m.currentsegment
         /\ m'.segmentsize = m.segmentsize
         /\ UNCHANGED <<slaves, overlap, hasdc, fmmus, IOsegment, group, x>>
<1> DEFINE so == m.LogAddr + Padded
           one == [m EXCEPT !.phase = "I", !.sm = 1, !.ByteCount = 0]
           two == [one EXCEPT !.FMMUdone = 0, !.so = so]
<1>1. /\ overlap /\ m.phase = "O" /\ m.slave <= N
      /\ m' = [m EXCEPT !.phase = "I", !.sm = 1, !.ByteCount = 0,
                        !.FMMUdone = 0, !.so = so, !.LogAddr = m.start,
                        !.BitPos = 0]
      /\ UNCHANGED <<slaves, overlap, hasdc, fmmus, IOsegment, group, x>>
  BY DEF EndSlaveOutputs
<1>2. so \in Nat /\ m.start \in Nat /\ m \in Locals
  BY LocalsType
<1> HIDE DEF so
<1>3. /\ m'.phase = "I" /\ m'.slave = m.slave /\ m'.FMMUdone = 0
      /\ m'.start = m.start /\ m'.so = so
      /\ m'.LogAddr = m.start /\ m'.BitPos = 0
      /\ m'.currentsegment = m.currentsegment
      /\ m'.segmentsize = m.segmentsize
  BY <1>1, <1>2 DEF Locals
<1>4. m' = [two EXCEPT !.LogAddr = m.start, !.BitPos = 0]
  BY <1>1, <1>2 DEF Locals
<1>5. one \in Locals
  <2> DEFINE zero == [m EXCEPT !.phase = "I"]
  <2>1. zero \in Locals
    BY <1>2 DEF Locals, Dirs
  <2>2. one = [zero EXCEPT !.sm = 1, !.ByteCount = 0]
    BY <1>2 DEF Locals
  <2>3. 1 \in Nat \ {0} /\ 0 \in Nat
    OBVIOUS
  <2> HIDE DEF zero
  <2> QED
    BY <2>1, <2>2, <2>3 DEF Locals
<1> HIDE DEF one
<1>6. two \in Locals
  BY <1>2, <1>5 DEF Locals
<1> HIDE DEF two
<1>7. 0 \in 0 .. 7
  OBVIOUS
<1>8. m' \in Locals
  BY <1>2, <1>4, <1>6, <1>7 DEF Locals
<1> QED
  BY <1>1, <1>3, <1>8 DEF so

\* After a slave the longer of its two images is accounted for.
LEMMA EndSlaveInputsFacts ==
  ASSUME MapTyped, Advance, EndSlaveInputs,
         NEW si, si = m.LogAddr + Padded,
         NEW end, end = IF si > m.so THEN si ELSE m.so
  PROVE  /\ overlap /\ m.phase = "I" /\ m.slave <= N
         /\ si \in Nat /\ end \in Nat /\ end - m.start \in Nat
         /\ m' \in Locals
         /\ m'.slave = m.slave + 1 /\ m'.FMMUdone = 0
         /\ m'.start = end /\ m'.LogAddr = end /\ m'.BitPos = 0
         /\ group' \in Results
         /\ group'.outputsWKC = group.outputsWKC
         /\ group'.inputsWKC = group.inputsWKC
         /\ group'.Isegment = group.Isegment
         /\ UNCHANGED <<slaves, overlap, hasdc, fmmus, x>>
         /\ \/ /\ m.slave < N /\ m'.phase = "O" /\ group' = group
               /\ Grown(end - m.start, IOsegment', m'.currentsegment,
                        m'.segmentsize)
            \/ /\ m.slave = N /\ m'.phase = "mapped"
               /\ group'.Obytes = m.so /\ group'.Ibytes = si
               /\ group'.nsegments = m'.currentsegment
               /\ \E io : /\ Grown(end - m.start, io, m'.currentsegment,
                                   m'.segmentsize)
                          /\ Finished(io, m'.currentsegment, m'.segmentsize)
<1> DEFINE diff == end - m.start
           r == [m EXCEPT !.phase = "O", !.start = end, !.LogAddr = end,
                          !.BitPos = 0]
           b == Account(r, diff)
           a == NextSlave(b)
           io == Closed(diff)
<1>1. /\ overlap /\ m.phase = "I"
      /\ UNCHANGED <<slaves, overlap, hasdc, fmmus, x>>
  BY DEF EndSlaveInputs
<1>2. IF m.slave < N
      THEN m' = a /\ IOsegment' = io /\ UNCHANGED group
      ELSE /\ m' = [a EXCEPT !.phase = "mapped"]
           /\ IOsegment' = SubSeq(io, 1, a.currentsegment - 1)
                             \o <<a.segmentsize>>
           /\ group' = [group EXCEPT !.Obytes = m.so, !.Ibytes = si,
                                     !.nsegments = a.currentsegment]
  BY Zenon DEF EndSlaveInputs
<1>3. m.slave <= N /\ m.start <= m.LogAddr /\ m.start <= m.so
  BY <1>1 DEF Advance, Base, Dirs
<1>4. /\ si \in Nat /\ end \in Nat /\ diff \in Nat /\ m.so \in Nat
      /\ m.slave \in Nat /\ N \in Nat /\ m \in Locals
  BY <1>3, LocalsType
<1>5. /\ r.phase = "O" /\ r.slave = m.slave /\ r.start = end
      /\ r.LogAddr = end /\ r.BitPos = 0
      /\ r.currentsegment = m.currentsegment
      /\ r.segmentsize = m.segmentsize
  BY <1>4 DEF Locals
<1>6. r \in Locals
  <2> DEFINE one == [m EXCEPT !.phase = "O", !.start = end]
  <2>1. r = [one EXCEPT !.LogAddr = end, !.BitPos = 0]
    BY <1>4 DEF Locals
  <2>2. one \in Locals
    BY <1>4 DEF Locals, Dirs
  <2>3. 0 \in 0 .. 7
    OBVIOUS
  <2> DEFINE two == [one EXCEPT !.LogAddr = end]
  <2>4. end \in Nat /\ r = [two EXCEPT !.BitPos = 0]
    BY <1>4, <2>1, <2>2 DEF Locals
  <2> HIDE DEF one
  <2>5. two \in Locals
    BY <2>2, <2>4 DEF Locals
  <2> HIDE DEF two
  <2> QED
    BY <2>3, <2>4, <2>5 DEF Locals
<1> HIDE DEF diff, r
<1>7. /\ b \in Locals
      /\ b.phase = r.phase /\ b.slave = r.slave
      /\ b.start = r.start /\ b.LogAddr = r.LogAddr /\ b.BitPos = r.BitPos
      /\ Grown(diff, io, b.currentsegment, b.segmentsize)
  BY <1>4, <1>5, <1>6, AccountFacts
<1> HIDE DEF b, io
<1>8. b.slave <= N
  BY <1>3, <1>5, <1>7
<1>9. /\ a \in Locals
      /\ a.phase = b.phase /\ a.slave = b.slave + 1 /\ a.FMMUdone = 0
      /\ a.start = b.start /\ a.LogAddr = b.LogAddr /\ a.BitPos = b.BitPos
      /\ a.currentsegment = b.currentsegment
      /\ a.segmentsize = b.segmentsize
  BY <1>7, <1>8, NextSlaveFacts
<1> HIDE DEF a
<1>10. /\ a.phase = "O" /\ a.slave = m.slave + 1 /\ a.start = end
       /\ a.LogAddr = end /\ a.BitPos = 0
       /\ Grown(diff, io, a.currentsegment, a.segmentsize)
  BY <1>5, <1>7, <1>9
<1>11. group \in Results
  BY DEF MapTyped
<1>12. CASE m.slave < N
  <2>1. m' = a /\ IOsegment' = io /\ group' = group
    BY <1>2, <1>12
  <2> QED
    BY <1>1, <1>3, <1>4, <1>9, <1>10, <1>11, <1>12, <2>1 DEF diff
<1>13. CASE ~(m.slave < N)
  <2>1. /\ m' = [a EXCEPT !.phase = "mapped"]
        /\ IOsegment' = SubSeq(io, 1, a.currentsegment - 1)
                          \o <<a.segmentsize>>
        /\ group' = [group EXCEPT !.Obytes = m.so, !.Ibytes = si,
                                  !.nsegments = a.currentsegment]
    BY <1>2, <1>13
  <2>2. m.slave = N
    BY <1>3, <1>4, <1>13
  <2>3. /\ m'.phase = "mapped" /\ m'.slave = a.slave /\ m'.start = a.start
        /\ m'.LogAddr = a.LogAddr /\ m'.BitPos = a.BitPos
        /\ m'.FMMUdone = a.FMMUdone /\ m'.segmentsize = a.segmentsize
        /\ m'.currentsegment = a.currentsegment
    BY <1>9, <2>1 DEF Locals
  <2>4. m' \in Locals
    BY <1>9, <2>1 DEF Locals
  <2>5. a.currentsegment \in Nat \ {0} /\ a.segmentsize \in Nat
    BY <1>9, LocalsType DEF Locals
  <2>6. /\ group'.Obytes = m.so /\ group'.Ibytes = si
        /\ group'.nsegments = a.currentsegment
        /\ group'.outputsWKC = group.outputsWKC
        /\ group'.inputsWKC = group.inputsWKC
        /\ group'.Isegment = group.Isegment
    BY <1>11, <2>1 DEF Results
  <2>7. group' \in Results
    BY <1>4, <1>11, <2>1, <2>5 DEF Results
  <2>8. Finished(io, a.currentsegment, a.segmentsize)
    <3>1. io \in Seq(Nat) /\ a.currentsegment - 1 <= Len(io)
      BY <1>10 DEF Grown
    <3> QED
      BY <2>1, <2>5, <3>1, FinishedFacts
  <2>9. /\ Grown(end - m.start, io, m'.currentsegment, m'.segmentsize)
        /\ Finished(io, m'.currentsegment, m'.segmentsize)
    BY <1>10, <2>3, <2>8 DEF diff
  <2> QED
    BY <1>1, <1>3, <1>4, <1>9, <1>10, <2>2, <2>3, <2>4, <2>6, <2>7, <2>9 DEF diff
<1> QED
  BY <1>12, <1>13

\* What a new FMMU leaves behind.
LEMMA CreatedFacts ==
  ASSUME MapTyped, NEW f, NEW shared, NEW last, Created(f, shared, last)
  PROVE  /\ m' \in Locals
         /\ m'.phase = m.phase /\ m'.slave = m.slave
         /\ m'.FMMUdone = m.FMMUdone + f.length
         /\ m'.start = m.start /\ m'.so = m.so /\ m'.LogAddr = f.LogAddr
         /\ m'.oLogAddr = m.oLogAddr /\ m'.BitPos = f.BitPos
         /\ m'.currentsegment = m.currentsegment
         /\ m'.segmentsize = m.segmentsize
         /\ group' \in Results
         /\ group'.Obytes = group.Obytes /\ group'.Ibytes = group.Ibytes
         /\ group'.nsegments = group.nsegments
         /\ group'.Isegment = group.Isegment /\ group'.Ioffset = group.Ioffset
         /\ group'.outputsWKC = group.outputsWKC
                                + (IF m.phase = "O" THEN 1 ELSE 0)
         /\ group'.inputsWKC = group.inputsWKC
                               + (IF m.phase = "I" THEN 1 ELSE 0)
         /\ fmmus' \in Seq(Fmmu) /\ Len(fmmus') = Len(fmmus) + 1
         /\ \A k \in 1 .. Len(fmmus) : fmmus'[k] = fmmus[k]
         /\ LET g == fmmus'[Len(fmmus) + 1] IN
            /\ g.slave = m.slave /\ g.dir = m.phase /\ g.start = f.start
            /\ g.startbit = f.startbit /\ g.length = f.length
            /\ g.endbit = f.endbit
<1> DEFINE F == [start : Nat, startbit : 0 .. 7, length : Nat, endbit : 0 .. 7,
                 LogAddr : Nat, BitPos : 0 .. 7]
           g == [slave |-> m.slave, dir |-> m.phase, start |-> f.start,
                 startbit |-> f.startbit, length |-> f.length,
                 endbit |-> f.endbit, memory |-> shared]
<1>1. /\ m.phase \in Dirs /\ m.slave \in 1 .. N /\ f \in F
      /\ shared \in Nat /\ last \in Nat \ {0}
      /\ fmmus' = Append(fmmus, g)
      /\ m' = [m EXCEPT !.LogAddr = f.LogAddr, !.BitPos = f.BitPos,
                        !.sm = last + 1, !.ByteCount = @ + shared,
                        !.FMMUdone = @ + f.length]
      /\ group' = Counted(group, m.phase)
  BY DEF Created
<1>2. /\ f.start \in Nat /\ f.startbit \in 0 .. 7 /\ f.length \in Nat
      /\ f.endbit \in 0 .. 7 /\ f.LogAddr \in Nat /\ f.BitPos \in 0 .. 7
  BY <1>1
<1> HIDE DEF F
<1>3. m \in Locals /\ m.ByteCount + shared \in Nat /\ last + 1 \in Nat \ {0}
      /\ m.FMMUdone + f.length \in Nat
  <2>1. m \in Locals /\ m.ByteCount \in Nat /\ m.FMMUdone \in Nat
    BY LocalsType
  <2>2. shared \in Nat /\ last \in Nat \ {0} /\ f.length \in Nat
    BY <1>1, <1>2
  <2> QED
    BY <2>1, <2>2
<1> DEFINE one == [m EXCEPT !.LogAddr = f.LogAddr, !.BitPos = f.BitPos]
           two == [one EXCEPT !.sm = last + 1]
           b == m.ByteCount + shared
           d == m.FMMUdone + f.length
<1>4. m' = [two EXCEPT !.ByteCount = b, !.FMMUdone = d]
  BY <1>1, <1>3 DEF Locals
<1>5. one \in Locals
  BY <1>2, <1>3 DEF Locals
<1> HIDE DEF one
<1>6. two \in Locals
  BY <1>3, <1>5 DEF Locals
<1> HIDE DEF two
<1>7. m' \in Locals
  <2>1. b \in Nat /\ d \in Nat
    BY <1>3
  <2> HIDE DEF b, d
  <2> QED
    BY <1>4, <1>6, <2>1 DEF Locals
<1>8. /\ m'.phase = m.phase /\ m'.slave = m.slave
      /\ m'.FMMUdone = m.FMMUdone + f.length
      /\ m'.start = m.start /\ m'.so = m.so /\ m'.LogAddr = f.LogAddr
      /\ m'.oLogAddr = m.oLogAddr /\ m'.BitPos = f.BitPos
      /\ m'.currentsegment = m.currentsegment
      /\ m'.segmentsize = m.segmentsize
  BY <1>1, <1>3 DEF Locals
<1>9. g \in Fmmu /\ g.slave = m.slave /\ g.dir = m.phase /\ g.start = f.start
      /\ g.startbit = f.startbit /\ g.length = f.length /\ g.endbit = f.endbit
  BY <1>1, <1>2 DEF Fmmu
<1> HIDE DEF g
<1>10. fmmus \in Seq(Fmmu)
  BY DEF MapTyped
<1>11. /\ fmmus' \in Seq(Fmmu) /\ Len(fmmus') = Len(fmmus) + 1
       /\ \A k \in 1 .. Len(fmmus) : fmmus'[k] = fmmus[k]
       /\ fmmus'[Len(fmmus) + 1] = g
  BY <1>1, <1>9, <1>10, AppendProperties
<1>12. /\ group' \in Results
       /\ group'.Obytes = group.Obytes /\ group'.Ibytes = group.Ibytes
       /\ group'.nsegments = group.nsegments
       /\ group'.Isegment = group.Isegment /\ group'.Ioffset = group.Ioffset
       /\ group'.outputsWKC = group.outputsWKC
                              + (IF m.phase = "O" THEN 1 ELSE 0)
       /\ group'.inputsWKC = group.inputsWKC
                             + (IF m.phase = "I" THEN 1 ELSE 0)
  <2>1. group \in Results /\ group.outputsWKC \in Nat /\ group.inputsWKC \in Nat
    BY DEF MapTyped, Results
  <2>2. group.outputsWKC + 1 \in Nat /\ group.inputsWKC + 1 \in Nat
    BY <2>1
  <2>3. CASE m.phase = "O"
    <3>1. group' = [group EXCEPT !.outputsWKC = @ + 1]
      BY <1>1, <2>3 DEF Counted
    <3> QED
      BY <2>1, <2>2, <2>3, <3>1 DEF Results
  <2>4. CASE m.phase = "I"
    <3>1. group' = [group EXCEPT !.inputsWKC = @ + 1]
      BY <1>1, <2>4 DEF Counted
    <3> QED
      BY <2>1, <2>2, <2>4, <3>1 DEF Results
  <2> QED
    BY <1>1, <2>3, <2>4 DEF Dirs
<1> QED
  BY <1>7, <1>8, <1>9, <1>11, <1>12

\* A new FMMU keeps the types and the bounds of the cursor.
LEMMA CreateTyped ==
  ASSUME MapTyped, Advance, CreateFMMU
  PROVE  MapTyped' /\ Advance'
<1>1. PICK f, shared, last : Created(f, shared, last) /\ Placed(f)
  BY CreateFacts
<1>2. /\ m' \in Locals
      /\ m'.phase = m.phase /\ m'.slave = m.slave
      /\ m'.FMMUdone = m.FMMUdone + f.length
      /\ m'.start = m.start /\ m'.so = m.so /\ m'.LogAddr = f.LogAddr
      /\ m'.oLogAddr = m.oLogAddr /\ m'.BitPos = f.BitPos
      /\ m'.currentsegment = m.currentsegment
      /\ m'.segmentsize = m.segmentsize
      /\ group' \in Results /\ group'.Obytes = group.Obytes
      /\ fmmus' \in Seq(Fmmu)
  BY <1>1, CreatedFacts
<1>3. /\ m.phase \in Dirs /\ m.slave \in 1 .. N
      /\ f.length \in Nat /\ f.LogAddr \in Nat /\ f.BitPos \in 0 .. 7
      /\ UNCHANGED <<slaves, overlap, hasdc, IOsegment, x>>
  BY <1>1 DEF Created
<1>4. MapTyped'
  BY <1>2, <1>3 DEF MapTyped
<1>5. /\ m.LogAddr <= f.LogAddr
      /\ f.LogAddr + (IF f.BitPos > 0 THEN 1 ELSE 0)
           <= Base + m.FMMUdone + f.length + 1
      /\ f.LogAddr + (IF f.BitPos > 0 THEN 1 ELSE 0)
           <= Base + BytesOf(Bits(m.slave, m.phase)) + 1
      /\ Bytes(m.slave, m.phase) > 0 =>
           m.FMMUdone + f.length <= Bytes(m.slave, m.phase)
  BY <1>1 DEF Placed
<1>6. Base' = Base /\ Padded' = IF f.BitPos > 0 THEN 1 ELSE 0
  BY <1>2, <1>3 DEF Base, Padded
<1>7. /\ Bits(m.slave, m.phase)' = Bits(m.slave, m.phase)
      /\ Bytes(m.slave, m.phase)' = Bytes(m.slave, m.phase)
      /\ Bits(m.slave, "O")' = Bits(m.slave, "O")
      /\ BytesOf(Bits(m.slave, m.phase))' = BytesOf(Bits(m.slave, m.phase))
      /\ BytesOf(Bits(m.slave, "O"))' = BytesOf(Bits(m.slave, "O"))
  BY <1>2, <1>3 DEF Bits, Bytes, BytesOf
<1>8. /\ overlap => m.slave <= N
      /\ Base <= m.LogAddr
      /\ overlap /\ m.phase = "I" =>
           /\ m.start <= m.so
           /\ m.so <= m.start + BytesOf(Bits(m.slave, "O")) + 1
      /\ ~overlap /\ m.phase = "I" => group.Obytes <= m.oLogAddr
  BY <1>3 DEF Advance
<1>9. /\ Base <= f.LogAddr
      /\ f.LogAddr + Padded' <= Base + (m.FMMUdone + f.length) + 1
      /\ ~(m.slave > N)
  <2>1. Base \in Nat /\ m.LogAddr \in Nat /\ m.FMMUdone \in Nat
        /\ m.slave \in Nat /\ N \in Nat /\ m.slave <= N
    BY <1>3, LocalsType
  <2> QED
    BY <1>3, <1>5, <1>6, <1>8, <2>1
<1> DEFINE bytes == Bytes(m.slave, m.phase)
           of == BytesOf(Bits(m.slave, m.phase))
           outs == BytesOf(Bits(m.slave, "O"))
<1> HIDE DEF bytes, of, outs
<1>10. /\ bytes > 0 => m'.FMMUdone <= bytes
       /\ m'.LogAddr + Padded' <= Base' + of + 1
  BY <1>2, <1>5, <1>6 DEF bytes, of
<1>11. Advance'
  <2>1. /\ m'.phase = m.phase /\ m'.slave = m.slave /\ m'.start = m.start
        /\ m'.so = m.so /\ m'.oLogAddr = m.oLogAddr /\ overlap' = overlap
        /\ group'.Obytes = group.Obytes
        /\ bytes' = bytes /\ of' = of /\ outs' = outs
    BY <1>2, <1>3, <1>7 DEF bytes, of, outs
  <2>2. Base' <= m'.LogAddr /\ m'.LogAddr + Padded' <= Base' + m'.FMMUdone + 1
    BY <1>2, <1>6, <1>9
  <2>3. /\ overlap' => m'.slave <= N
        /\ ~(m'.slave > N)
        /\ overlap' /\ m'.phase = "I" =>
             m'.start <= m'.so /\ m'.so <= m'.start + outs' + 1
        /\ ~overlap' /\ m'.phase = "I" => group'.Obytes <= m'.oLogAddr
    BY <1>8, <1>9, <2>1 DEF outs
  <2>4. /\ m'.LogAddr + Padded' <= Base' + of' + 1
        /\ bytes' > 0 => m'.FMMUdone <= bytes'
    BY <1>10, <2>1
  <2> QED
    BY <2>2, <2>3, <2>4, Zenon DEF Advance, bytes, of, outs
<1> QED
  BY <1>4, <1>11

\* What a slave has stays the same; that of the next one are numbers.
LEMMA NextBytes ==
  ASSUME MapTyped, UNCHANGED <<slaves, overlap>>,
         m'.slave \in 1 .. N, m'.phase \in Dirs
  PROVE  /\ Bytes(m.slave, m.phase)' \in Nat
         /\ BytesOf(Bits(m.slave, m.phase))' \in Nat
<1> DEFINE s == m'.slave
           d == m'.phase
<1>1. /\ Bytes(m.slave, m.phase)' = Bytes(s, d)
      /\ BytesOf(Bits(m.slave, m.phase))' = BytesOf(Bits(s, d))
  BY DEF Bytes, Bits, BytesOf
<1>2. s \in 1 .. N /\ d \in Dirs
  OBVIOUS
<1> HIDE DEF s, d
<1>3. Bytes(s, d) \in Nat /\ BytesOf(Bits(s, d)) \in Nat
  BY <1>2, KindType
<1> QED
  BY <1>1, <1>3

\* So does the end of a slave,
LEMMA EndSlaveTyped ==
  ASSUME MapTyped, Advance, EndSlave
  PROVE  MapTyped' /\ Advance'
<1> DEFINE diff == m.LogAddr - m.oLogAddr
<1>1. /\ ~overlap /\ m.phase \in Dirs /\ m.slave <= N
      /\ diff \in Nat /\ m' \in Locals
      /\ m'.phase = m.phase /\ m'.slave = m.slave + 1 /\ m'.FMMUdone = 0
      /\ m'.LogAddr = m.LogAddr
      /\ m'.oLogAddr = m.LogAddr /\ m'.BitPos = m.BitPos
      /\ Grown(diff, IOsegment', m'.currentsegment, m'.segmentsize)
      /\ UNCHANGED <<slaves, overlap, hasdc, fmmus, group, x>>
  BY EndSlaveFacts
<1>2. MapTyped'
  <2>1. IOsegment' \in Seq(Nat) /\ m'.currentsegment - 1 <= Len(IOsegment')
    BY <1>1 DEF Grown
  <2> QED
    BY <1>1, <2>1 DEF MapTyped
<1>3. /\ ~overlap' /\ Base' = m.LogAddr /\ Padded' \in {0, 1}
  BY <1>1 DEF Base, Padded
<1>4. m'.slave > N \/ m'.slave \in 1 .. N
  BY <1>1, LocalsType
<1>5. m'.slave \in 1 .. N =>
        /\ Bytes(m.slave, m.phase)' \in Nat
        /\ BytesOf(Bits(m.slave, m.phase))' \in Nat
  BY <1>1, NextBytes, Zenon
<1>6. ~overlap /\ m.phase = "I" => group'.Obytes <= m'.oLogAddr
  <2>1. ~overlap /\ m.phase = "I" => group.Obytes <= m.oLogAddr
    BY <1>1 DEF Advance
  <2>2. group.Obytes \in Nat
    BY DEF MapTyped, Results
  <2> QED
    BY <1>1, <2>1, <2>2, LocalsType
<1>7. m.LogAddr \in Nat
  BY LocalsType
<1>8. Advance'
  <2>1. /\ Base' <= m'.LogAddr
        /\ m'.LogAddr + Padded' <= Base' + m'.FMMUdone + 1
    BY <1>1, <1>3, <1>7
  <2>2. m'.slave > N => m'.LogAddr = m'.oLogAddr /\ m'.FMMUdone = 0
    BY <1>1
  <2>3. m'.slave <= N =>
          /\ m'.LogAddr + Padded' <= Base' + BytesOf(Bits(m.slave, m.phase))' + 1
          /\ Bytes(m.slave, m.phase)' > 0 => m'.FMMUdone <= Bytes(m.slave, m.phase)'
    <3> DEFINE of == BytesOf(Bits(m.slave, m.phase))'
               bytes == Bytes(m.slave, m.phase)'
    <3>1. m'.slave <= N => of \in Nat /\ bytes \in Nat
      <4>1. m'.slave <= N => m'.slave \in 1 .. N
        BY <1>1, LocalsType
      <4> QED
        BY <1>5, <4>1
    <3> HIDE DEF of, bytes
    <3>2. m'.slave <= N =>
          /\ m'.LogAddr + Padded' <= Base' + of + 1
          /\ bytes > 0 => m'.FMMUdone <= bytes
      BY <1>1, <1>3, <1>7, <3>1
    <3> QED
      BY <3>2 DEF of, bytes
  <2>4. ~overlap' /\ m'.phase = "I" => group'.Obytes <= m'.oLogAddr
    BY <1>1, <1>6
  <2> QED
    BY <1>3, <2>1, <2>2, <2>3, <2>4, Zenon DEF Advance
<1> QED
  BY <1>2, <1>8

\* of all outputs,
LEMMA EndOutputsTyped ==
  ASSUME MapTyped, Advance, EndOutputs
  PROVE  MapTyped' /\ Advance'
<1> DEFINE end == m.LogAddr + Padded
<1>1. /\ ~overlap /\ m' \in Locals
      /\ m'.phase = "I" /\ m'.slave = 1 /\ m'.FMMUdone = 0
      /\ m'.LogAddr = end /\ m'.oLogAddr = end /\ m'.BitPos = 0
      /\ Grown(Padded, IOsegment', m'.currentsegment, m'.segmentsize)
      /\ group' \in Results /\ group'.Obytes = end
      /\ UNCHANGED <<slaves, overlap, hasdc, fmmus, x>>
  BY EndOutputsFacts
<1>2. MapTyped'
  <2>1. IOsegment' \in Seq(Nat) /\ m'.currentsegment - 1 <= Len(IOsegment')
    BY <1>1 DEF Grown
  <2> QED
    BY <1>1, <2>1 DEF MapTyped
<1>3. ~overlap' /\ Base' = end /\ Padded' = 0 /\ end \in Nat
  BY <1>1, LocalsType DEF Base, Padded
<1>4. m'.slave \in 1 .. N
  BY <1>1, LocalsType
<1>5. /\ Bytes(m.slave, m.phase)' \in Nat
      /\ BytesOf(Bits(m.slave, m.phase))' \in Nat
  BY <1>1, <1>4, NextBytes DEF Dirs
<1> HIDE DEF end
<1>8. Advance'
  <2>1. /\ Base' <= m'.LogAddr
        /\ m'.LogAddr + Padded' <= Base' + m'.FMMUdone + 1
        /\ group'.Obytes <= m'.oLogAddr
        /\ ~(m'.slave > N)
    BY <1>1, <1>3, <1>4, LocalsType
  <2>3. /\ m'.LogAddr + Padded' <= Base' + BytesOf(Bits(m.slave, m.phase))' + 1
        /\ Bytes(m.slave, m.phase)' > 0 => m'.FMMUdone <= Bytes(m.slave, m.phase)'
    <3> DEFINE of == BytesOf(Bits(m.slave, m.phase))'
               bytes == Bytes(m.slave, m.phase)'
    <3>1. of \in Nat /\ bytes \in Nat
      BY <1>5
    <3> HIDE DEF of, bytes
    <3>2. /\ m'.LogAddr + Padded' <= Base' + of + 1
          /\ bytes > 0 => m'.FMMUdone <= bytes
      BY <1>1, <1>3, <3>1
    <3> QED
      BY <3>2 DEF of, bytes
  <2> QED
    BY <1>3, <2>1, <2>3, Zenon DEF Advance
<1> QED
  BY <1>2, <1>8

\* of all inputs,
LEMMA EndInputsTyped ==
  ASSUME MapTyped, Advance, EndInputs
  PROVE  MapTyped' /\ Advance'
<1>1. /\ m' \in Locals /\ m'.phase = "mapped" /\ group' \in Results
      /\ \E io : /\ Grown(Padded, io, m'.currentsegment, m'.segmentsize)
                 /\ Finished(io, m'.currentsegment, m'.segmentsize)
      /\ UNCHANGED <<slaves, overlap, hasdc, fmmus, x>>
  BY EndInputsFacts
<1>2. /\ IOsegment' \in Seq(Nat) /\ m'.currentsegment - 1 <= Len(IOsegment')
  <2>1. IOsegment' \in Seq(Nat) /\ Len(IOsegment') = m'.currentsegment
    BY <1>1 DEF Finished
  <2> QED
    BY <2>1
<1>3. MapTyped'
  BY <1>1, <1>2 DEF MapTyped
<1> QED
  BY <1>1, <1>3 DEF Advance, Dirs

\* of the outputs of a slave with overlapping images,
LEMMA EndSlaveOutputsTyped ==
  ASSUME MapTyped, Advance, EndSlaveOutputs
  PROVE  MapTyped' /\ Advance'
<1>1. /\ overlap /\ m.phase = "O" /\ m.slave <= N
      /\ m' \in Locals
      /\ m'.phase = "I" /\ m'.slave = m.slave /\ m'.FMMUdone = 0
      /\ m'.start = m.start /\ m'.so = m.LogAddr + Padded
      /\ m'.LogAddr = m.start /\ m'.BitPos = 0
      /\ m'.currentsegment = m.currentsegment
      /\ UNCHANGED <<slaves, overlap, hasdc, fmmus, IOsegment, group, x>>
  BY EndSlaveOutputsFacts
<1>2. MapTyped'
  BY <1>1 DEF MapTyped
<1>3. overlap' /\ Base' = m.start /\ Padded' = 0 /\ m.start \in Nat
  BY <1>1, LocalsType DEF Base, Padded
<1>4. m'.slave \in 1 .. N /\ m.slave \in 1 .. N
  BY <1>1, LocalsType
<1>5. /\ Bytes(m.slave, m.phase)' \in Nat
      /\ BytesOf(Bits(m.slave, m.phase))' \in Nat
      /\ BytesOf(Bits(m.slave, "O"))' = BytesOf(Bits(m.slave, "O"))
  <2>1. /\ Bytes(m.slave, m.phase)' \in Nat
        /\ BytesOf(Bits(m.slave, m.phase))' \in Nat
    BY <1>1, <1>4, NextBytes DEF Dirs
  <2>2. BytesOf(Bits(m.slave, "O"))' = BytesOf(Bits(m.slave, "O"))
    BY <1>1 DEF BytesOf, Bits
  <2> QED
    BY <2>1, <2>2
<1>6. /\ m.start <= m.LogAddr + Padded
      /\ m.LogAddr + Padded <= m.start + BytesOf(Bits(m.slave, "O")) + 1
  <2>1. /\ Base = m.start /\ Base <= m.LogAddr
        /\ m.LogAddr + Padded <= Base + BytesOf(Bits(m.slave, m.phase)) + 1
    BY <1>1 DEF Advance, Dirs, Base
  <2> QED
    BY <1>1, <2>1, LocalsType
<1>8. Advance'
  <2>1. /\ Base' <= m'.LogAddr
        /\ m'.LogAddr + Padded' <= Base' + m'.FMMUdone + 1
        /\ ~(m'.slave > N)
    BY <1>1, <1>3, <1>4, LocalsType
  <2>3. /\ m'.LogAddr + Padded' <= Base' + BytesOf(Bits(m.slave, m.phase))' + 1
        /\ Bytes(m.slave, m.phase)' > 0 => m'.FMMUdone <= Bytes(m.slave, m.phase)'
    <3> DEFINE of == BytesOf(Bits(m.slave, m.phase))'
               bytes == Bytes(m.slave, m.phase)'
    <3>1. of \in Nat /\ bytes \in Nat
      BY <1>5
    <3> HIDE DEF of, bytes
    <3>2. /\ m'.LogAddr + Padded' <= Base' + of + 1
          /\ bytes > 0 => m'.FMMUdone <= bytes
      BY <1>1, <1>3, <3>1
    <3> QED
      BY <3>2 DEF of, bytes
  <2>4. /\ m'.start <= m'.so
        /\ m'.so <= m'.start + BytesOf(Bits(m.slave, "O"))' + 1
    BY <1>1, <1>5, <1>6
  <2>5. m'.slave <= N
    BY <1>1
  <2> QED
    BY <1>3, <2>1, <2>3, <2>4, <2>5, Zenon DEF Advance
<1> QED
  BY <1>2, <1>8

\* and of its inputs.
LEMMA EndSlaveInputsTyped ==
  ASSUME MapTyped, Advance, EndSlaveInputs
  PROVE  MapTyped' /\ Advance'
<1> DEFINE si == m.LogAddr + Padded
           end == IF si > m.so THEN si ELSE m.so
<1>1. /\ overlap /\ m.phase = "I" /\ m.slave <= N
      /\ end \in Nat /\ m' \in Locals
      /\ m'.slave = m.slave + 1 /\ m'.FMMUdone = 0
      /\ m'.start = end /\ m'.LogAddr = end /\ m'.BitPos = 0
      /\ group' \in Results
      /\ UNCHANGED <<slaves, overlap, hasdc, fmmus, x>>
      /\ \/ /\ m.slave < N /\ m'.phase = "O" /\ group' = group
            /\ Grown(end - m.start, IOsegment', m'.currentsegment,
                     m'.segmentsize)
         \/ /\ m'.phase = "mapped"
            /\ \E io : /\ Grown(end - m.start, io, m'.currentsegment,
                                m'.segmentsize)
                       /\ Finished(io, m'.currentsegment, m'.segmentsize)
  <2> HIDE DEF si, end
  <2>1. si = m.LogAddr + Padded /\ end = IF si > m.so THEN si ELSE m.so
    BY DEF si, end
  <2> QED
    BY <2>1, EndSlaveInputsFacts
<1> HIDE DEF si, end
<1>2. /\ IOsegment' \in Seq(Nat) /\ m'.currentsegment - 1 <= Len(IOsegment')
  <2>1. CASE Grown(end - m.start, IOsegment', m'.currentsegment, m'.segmentsize)
    BY <2>1 DEF Grown
  <2>2. CASE \E io : Finished(io, m'.currentsegment, m'.segmentsize)
    <3>1. IOsegment' \in Seq(Nat) /\ Len(IOsegment') = m'.currentsegment
      BY <2>2 DEF Finished
    <3> QED
      BY <3>1
  <2> QED
    BY <1>1, <2>1, <2>2
<1>3. MapTyped'
  BY <1>1, <1>2 DEF MapTyped
<1>4. CASE m'.phase = "mapped"
  BY <1>3, <1>4 DEF Advance, Dirs
<1>5. CASE m'.phase # "mapped"
  <2>1. m.slave < N /\ m'.phase = "O"
    BY <1>1, <1>5
  <2>2. overlap' /\ Base' = end /\ Padded' = 0
    BY <1>1 DEF Base, Padded
  <2>3. m'.slave \in 1 .. N
    BY <1>1, <2>1, LocalsType
  <2>4. /\ Bytes(m.slave, m.phase)' \in Nat
        /\ BytesOf(Bits(m.slave, m.phase))' \in Nat
    BY <1>1, <2>1, <2>3, NextBytes DEF Dirs
  <2>5. /\ Base' <= m'.LogAddr
        /\ m'.LogAddr + Padded' <= Base' + m'.FMMUdone + 1
        /\ ~(m'.slave > N) /\ m'.slave <= N
    BY <1>1, <2>2, <2>3, LocalsType
  <2>6. /\ m'.LogAddr + Padded' <= Base' + BytesOf(Bits(m.slave, m.phase))' + 1
        /\ Bytes(m.slave, m.phase)' > 0 => m'.FMMUdone <= Bytes(m.slave, m.phase)'
    <3> DEFINE of == BytesOf(Bits(m.slave, m.phase))'
               bytes == Bytes(m.slave, m.phase)'
    <3>1. of \in Nat /\ bytes \in Nat
      BY <2>4
    <3> HIDE DEF of, bytes
    <3>2. /\ m'.LogAddr + Padded' <= Base' + of + 1
          /\ bytes > 0 => m'.FMMUdone <= bytes
      BY <1>1, <2>2, <3>1
    <3> QED
      BY <3>2 DEF of, bytes
  <2>7. ~(m'.phase = "I")
    BY <2>1
  <2>8. Advance'
    BY <2>2, <2>5, <2>6, <2>7, Zenon DEF Advance
  <2> QED
    BY <1>3, <2>8
<1> QED
  BY <1>4, <1>5

(* Where the segments are counted.                                         *)
Indices ==
  /\ group.Isegment <= m.currentsegment
  /\ m.phase = "mapped" =>
       /\ Len(IOsegment) = group.nsegments
       /\ group.nsegments = m.currentsegment

Transfer == [phase : {"idle", "LRD", "LWR", "LRW", "receive"},
             seg : Nat \ {0}, length : Int, LogAdr : Int,
             frames : Seq(Datagram), present : SUBSET (1 .. N), pulled : Nat,
             first : BOOLEAN, wkc : Nat, done : SUBSET Nat, misread : BOOLEAN]

Commands == {"LRD", "LWR", "LRW"}

ExchangeTyped ==
  /\ x \in Transfer /\ x.pulled <= Len(x.frames)
  /\ x.phase = "idle" => x = XIdle
  /\ x.phase \in Commands =>
       /\ x.pulled = 0 /\ x.seg <= group.nsegments
       /\ x.wkc = 0 /\ x.done = {} /\ ~x.first /\ ~x.misread
  /\ x.phase # "idle" => m.phase = "mapped"

TypeInv == MapTyped /\ Advance /\ Indices /\ ExchangeTyped

\* The rest of the mapping, once the outputs of all slaves are there or not.
LEMMA GrownCount ==
  ASSUME MapTyped, NEW diff \in Nat, NEW io, NEW cur, NEW size,
         Grown(diff, io, cur, size)
  PROVE  m.currentsegment <= cur /\ cur \in Nat
<1>1. m.currentsegment \in Nat
  BY LocalsType
<1>2. cur = m.currentsegment \/ cur = m.currentsegment + 1
  BY DEF Grown
<1> QED
  BY <1>1, <1>2

\* Steps of the mapping count the segments.
LEMMA MappingIndices ==
  ASSUME TypeInv,
         CreateFMMU \/ EndSlave \/ EndOutputs \/ EndInputs
           \/ EndSlaveOutputs \/ EndSlaveInputs
  PROVE  Indices' /\ UNCHANGED x /\ m.phase \in Dirs
<1>1. /\ MapTyped /\ Advance /\ group.Isegment <= m.currentsegment
      /\ group.Isegment \in Nat /\ m.currentsegment \in Nat
  <2>1. group.Isegment \in Nat
    BY DEF TypeInv, MapTyped, Results
  <2> QED
    BY <2>1, LocalsType DEF TypeInv, Indices
<1>2. ASSUME CreateFMMU PROVE Indices' /\ UNCHANGED x /\ m.phase \in Dirs
  <2>1. PICK f, shared, last : Created(f, shared, last) /\ Placed(f)
    BY <1>1, <1>2, CreateFacts
  <2>2. /\ m'.phase = m.phase /\ m'.currentsegment = m.currentsegment
        /\ group'.Isegment = group.Isegment
    BY <1>1, <2>1, CreatedFacts
  <2>3. m.phase \in Dirs /\ UNCHANGED <<IOsegment, x>>
    BY <2>1 DEF Created
  <2> QED
    BY <1>1, <2>2, <2>3 DEF Indices, Dirs
<1>3. ASSUME EndSlave PROVE Indices' /\ UNCHANGED x /\ m.phase \in Dirs
  <2> DEFINE diff == m.LogAddr - m.oLogAddr
  <2>1. /\ m.phase \in Dirs /\ m'.phase = m.phase /\ diff \in Nat
        /\ Grown(diff, IOsegment', m'.currentsegment, m'.segmentsize)
        /\ UNCHANGED <<group, x>>
    BY <1>1, <1>3, EndSlaveFacts
  <2> HIDE DEF diff
  <2>2. m.currentsegment <= m'.currentsegment /\ m'.currentsegment \in Nat
    BY <1>1, <2>1, GrownCount
  <2> QED
    BY <1>1, <2>1, <2>2 DEF Indices, Dirs
<1>4. ASSUME EndOutputs PROVE Indices' /\ UNCHANGED x /\ m.phase \in Dirs
  <2>1. /\ m.phase = "O" /\ m'.phase = "I" /\ m' \in Locals
        /\ group'.Isegment = m'.currentsegment /\ UNCHANGED x
    BY <1>1, <1>4, EndOutputsFacts
  <2>2. m'.currentsegment \in Nat
    BY <2>1, LocalsType, <1>1 DEF Locals
  <2> QED
    BY <2>1, <2>2 DEF Indices, Dirs
<1>5. ASSUME EndInputs PROVE Indices' /\ UNCHANGED x /\ m.phase \in Dirs
  <2>1. /\ m.phase = "I" /\ group'.Isegment = group.Isegment
        /\ group'.nsegments = m'.currentsegment /\ UNCHANGED x
    BY <1>1, <1>5, EndInputsFacts
  <2>2. PICK io : /\ Grown(Padded, io, m'.currentsegment, m'.segmentsize)
                  /\ Finished(io, m'.currentsegment, m'.segmentsize)
    BY <1>1, <1>5, EndInputsFacts
  <2>3. Padded \in Nat
    BY <1>1, LocalsType
  <2>4. m.currentsegment <= m'.currentsegment /\ m'.currentsegment \in Nat
    BY <1>1, <2>2, <2>3, GrownCount
  <2>5. Len(IOsegment') = m'.currentsegment
    BY <2>2 DEF Finished
  <2> QED
    BY <1>1, <2>1, <2>4, <2>5 DEF Indices, Dirs
<1>6. ASSUME EndSlaveOutputs PROVE Indices' /\ UNCHANGED x /\ m.phase \in Dirs
  <2>1. /\ m.phase = "O" /\ m'.phase = "I"
        /\ m'.currentsegment = m.currentsegment
        /\ UNCHANGED <<IOsegment, group, x>>
    BY <1>1, <1>6, EndSlaveOutputsFacts
  <2> QED
    BY <1>1, <2>1 DEF Indices, Dirs
<1>7. ASSUME EndSlaveInputs PROVE Indices' /\ UNCHANGED x /\ m.phase \in Dirs
  <2> DEFINE si == m.LogAddr + Padded
             end == IF si > m.so THEN si ELSE m.so
             diff == end - m.start
  <2>1. si = m.LogAddr + Padded /\ end = IF si > m.so THEN si ELSE m.so
    OBVIOUS
  <2> HIDE DEF si, end
  <2>2. /\ m.phase = "I" /\ diff \in Nat
        /\ UNCHANGED x /\ group'.Isegment = group.Isegment
        /\ \/ /\ m'.phase = "O" /\ group' = group
              /\ Grown(diff, IOsegment', m'.currentsegment, m'.segmentsize)
           \/ /\ m'.phase = "mapped"
              /\ group'.nsegments = m'.currentsegment
              /\ \E io : /\ Grown(diff, io, m'.currentsegment, m'.segmentsize)
                         /\ Finished(io, m'.currentsegment, m'.segmentsize)
    BY <1>1, <1>7, <2>1, EndSlaveInputsFacts
  <2> HIDE DEF diff
  <2>4. \E io : Grown(diff, io, m'.currentsegment, m'.segmentsize)
    BY <2>2
  <2>5. m.currentsegment <= m'.currentsegment /\ m'.currentsegment \in Nat
    BY <1>1, <2>2, <2>4, GrownCount
  <2>6. m'.phase = "mapped" =>
          /\ group'.nsegments = m'.currentsegment
          /\ Len(IOsegment') = m'.currentsegment
    BY <2>2 DEF Finished
  <2> QED
    BY <1>1, <2>2, <2>5, <2>6 DEF Indices, Dirs
<1> QED
  BY <1>2, <1>3, <1>4, <1>5, <1>6, <1>7

\* What the fields of the results and of the exchange are.
LEMMA ResultsType ==
  ASSUME TypeInv
  PROVE  /\ group \in Results /\ group.outputsWKC \in Nat
         /\ group.inputsWKC \in Nat /\ group.Obytes \in Nat
         /\ group.Ibytes \in Nat /\ group.nsegments \in Nat
         /\ group.Isegment \in Nat \ {0} /\ group.Ioffset \in Nat
         /\ Size \in Nat
<1>1. /\ group \in Results /\ group.outputsWKC \in Nat
      /\ group.inputsWKC \in Nat /\ group.Obytes \in Nat
      /\ group.Ibytes \in Nat /\ group.nsegments \in Nat
      /\ group.Isegment \in Nat \ {0} /\ group.Ioffset \in Nat
  BY DEF TypeInv, MapTyped, Results
<1> QED
  BY <1>1 DEF Size

\* The fields of an exchange.
LEMMA TransferType ==
  ASSUME NEW r \in Transfer
  PROVE  /\ r.seg \in Nat \ {0} /\ r.length \in Int /\ r.LogAdr \in Int
         /\ r.frames \in Seq(Datagram) /\ r.present \in SUBSET (1 .. N)
         /\ r.pulled \in Nat /\ r.first \in BOOLEAN /\ r.wkc \in Nat
         /\ r.done \in SUBSET Nat /\ r.misread \in BOOLEAN
         /\ r.phase \in Commands \cup {"idle", "receive"}
BY DEF Transfer, Commands

(* Nothing but the place in the image differs.                             *)
Alike(a, r) ==
  /\ a.frames = r.frames /\ a.present = r.present /\ a.pulled = r.pulled
  /\ a.first = r.first /\ a.wkc = r.wkc /\ a.done = r.done
  /\ a.misread = r.misread

\* What is sent after the inputs.
LEMMA AfterLRDFacts ==
  ASSUME TypeInv, NEW r \in Transfer, NEW a, a = AfterLRD(r)
  PROVE  /\ a \in Transfer /\ Alike(a, r)
         /\ \/ /\ group.Obytes > 0 /\ a.phase = "LWR" /\ a.seg = 1
               /\ a.length = group.Obytes /\ a.LogAdr = 0
            \/ group.Obytes = 0 /\ a.phase = "receive"
<1>1. group.Obytes \in Nat
  BY ResultsType
<1>2. CASE group.Obytes > 0
  <2> DEFINE o == group.Obytes
             one == [r EXCEPT !.phase = "LWR", !.seg = 1]
  <2>1. a = [one EXCEPT !.length = o, !.LogAdr = 0]
    BY <1>2 DEF AfterLRD, Transfer
  <2>2. o \in Int /\ 0 \in Int /\ 1 \in Nat \ {0}
    BY <1>1
  <2> HIDE DEF o
  <2>3. one \in Transfer
    BY <2>2 DEF Transfer
  <2>4. one.phase = "LWR" /\ one.seg = 1 /\ Alike(one, r)
    BY DEF Transfer, Alike
  <2> HIDE DEF one
  <2>5. a \in Transfer
    BY <2>1, <2>2, <2>3 DEF Transfer
  <2>6. /\ a.phase = one.phase /\ a.seg = one.seg /\ a.length = o
        /\ a.LogAdr = 0 /\ Alike(a, one)
    BY <2>1, <2>3 DEF Transfer, Alike
  <2> QED
    BY <1>2, <2>4, <2>5, <2>6 DEF o, Alike
<1>3. CASE group.Obytes = 0
  <2>1. a = [r EXCEPT !.phase = "receive"]
    BY <1>3 DEF AfterLRD
  <2> QED
    BY <1>3, <2>1 DEF Transfer, Alike
<1> QED
  BY <1>1, <1>2, <1>3

\* What an exchange starts with.
LEMMA StartFacts ==
  ASSUME TypeInv, StartExchange
  PROVE  /\ m.phase = "mapped" /\ x = XIdle /\ x' \in Transfer
         /\ UNCHANGED <<slaves, overlap, hasdc, m, fmmus, IOsegment, group>>
         /\ x'.frames = <<>> /\ x'.pulled = 0 /\ ~x'.first /\ x'.wkc = 0
         /\ x'.done = {} /\ ~x'.misread
         /\ \/ /\ ~blockLRW /\ x'.phase = "LRW" /\ x'.seg = 1
               /\ x'.length = Size /\ x'.LogAdr = 0
            \/ /\ blockLRW /\ group.Ibytes > 0 /\ x'.phase = "LRD"
               /\ x'.seg = group.Isegment /\ x'.length = group.Ibytes
               /\ x'.LogAdr = group.Obytes
            \/ /\ blockLRW /\ group.Ibytes = 0 /\ group.Obytes > 0
               /\ x'.phase = "LWR" /\ x'.seg = 1
               /\ x'.length = group.Obytes /\ x'.LogAdr = 0
<1> DEFINE p == IF ~blockLRW THEN "LRW" ELSE "LRD"
           e == Exchange(p)
           r(q) == [e EXCEPT !.present = q]
<1>1. /\ m.phase = "mapped" /\ x.phase = "idle" /\ Size > 0
      /\ UNCHANGED <<slaves, overlap, hasdc, m, fmmus, IOsegment, group>>
  BY DEF StartExchange
<1>2. PICK q \in SUBSET (1 .. N) :
        x' = IF blockLRW /\ group.Ibytes = 0 THEN AfterLRD(r(q)) ELSE r(q)
  BY DEF StartExchange
<1>3. x = XIdle /\ x \in Transfer
  BY <1>1 DEF TypeInv, ExchangeTyped
<1>4. /\ x.frames = <<>> /\ x.pulled = 0 /\ x.first = FALSE /\ x.wkc = 0
      /\ x.done = {} /\ x.misread = FALSE
  BY <1>3 DEF XIdle
<1> DEFINE seg == IF p = "LRD" THEN group.Isegment ELSE 1
           length == IF p = "LRW" THEN Size ELSE group.Ibytes
           LogAdr == IF p = "LRD" THEN group.Obytes ELSE 0
           one == [x EXCEPT !.phase = p, !.seg = seg]
<1>5. e = [one EXCEPT !.length = length, !.LogAdr = LogAdr]
  <2>1. p \in {"LRW", "LRD"}
    OBVIOUS
  <2>2. e = [x EXCEPT !.phase = p, !.seg = seg, !.length = length,
                      !.LogAdr = LogAdr]
    <3> HIDE DEF p
    <3>1. CASE p = "LRW"
      BY <3>1 DEF Exchange
    <3>2. CASE p = "LRD"
      BY <3>2 DEF Exchange
    <3> QED
      BY <2>1, <3>1, <3>2
  <2> HIDE DEF p, seg, length, LogAdr, e
  <2> QED
    BY <1>3, <2>2 DEF Transfer
<1>6. p \in Commands /\ seg \in Nat \ {0} /\ length \in Int /\ LogAdr \in Int
  BY ResultsType DEF Commands
<1>7. one \in Transfer /\ one.phase = p /\ one.seg = seg /\ Alike(one, x)
  <2> HIDE DEF p, seg, length, LogAdr
  <2> QED
    BY <1>3, <1>6 DEF Transfer, Commands, Alike
<1>8. /\ e \in Transfer /\ e.phase = p /\ e.seg = seg /\ e.length = length
      /\ e.LogAdr = LogAdr /\ Alike(e, x)
  <2> HIDE DEF p, seg, length, LogAdr, one, e
  <2>1. e \in Transfer
    BY <1>5, <1>6, <1>7 DEF Transfer
  <2>2. /\ e.phase = one.phase /\ e.seg = one.seg /\ e.length = length
        /\ e.LogAdr = LogAdr /\ Alike(e, one)
    BY <1>5, <1>7 DEF Transfer, Alike
  <2> QED
    BY <1>7, <2>1, <2>2 DEF Alike
<1>9. /\ r(q) \in Transfer /\ r(q).phase = p /\ r(q).seg = seg
      /\ r(q).length = length /\ r(q).LogAdr = LogAdr
      /\ r(q).frames = <<>> /\ r(q).pulled = 0 /\ r(q).first = FALSE
      /\ r(q).wkc = 0 /\ r(q).done = {} /\ r(q).misread = FALSE
  <2> HIDE DEF p, seg, length, LogAdr, e
  <2> QED
    BY <1>4, <1>8 DEF Transfer, Alike
<1>10. CASE ~blockLRW
  <2>1. x' = r(q) /\ p = "LRW" /\ seg = 1 /\ length = Size /\ LogAdr = 0
    BY <1>2, <1>10
  <2> HIDE DEF p, seg, length, LogAdr, e, r
  <2> QED
    BY <1>1, <1>3, <1>9, <1>10, <2>1
<1>11. CASE blockLRW /\ group.Ibytes # 0
  <2>1. /\ x' = r(q) /\ p = "LRD" /\ seg = group.Isegment
        /\ length = group.Ibytes /\ LogAdr = group.Obytes
    BY <1>2, <1>11
  <2>2. group.Ibytes > 0
    BY <1>11, ResultsType
  <2> HIDE DEF p, seg, length, LogAdr, e, r
  <2> QED
    BY <1>1, <1>3, <1>9, <1>11, <2>1, <2>2
<1>12. CASE blockLRW /\ group.Ibytes = 0
  <2>1. x' = AfterLRD(r(q))
    BY <1>2, <1>12
  <2>2. ~(group.Obytes = 0)
    BY <1>1, <1>12 DEF Size
  <2> HIDE DEF r
  <2>3. /\ x' \in Transfer /\ Alike(x', r(q))
        /\ \/ /\ group.Obytes > 0 /\ x'.phase = "LWR" /\ x'.seg = 1
              /\ x'.length = group.Obytes /\ x'.LogAdr = 0
           \/ group.Obytes = 0 /\ x'.phase = "receive"
    BY <1>9, <2>1, AfterLRDFacts
  <2> QED
    BY <1>1, <1>3, <1>9, <1>12, <2>2, <2>3 DEF Alike
<1> QED
  BY <1>10, <1>11, <1>12

Sent == [cmd |-> x.phase, start |-> x.LogAdr, length |-> Sublength]
More == x.length - Sublength # 0 /\ x.seg + 1 <= group.nsegments

\* The part of a segment that is sent is a number.
LEMMA SublengthType ==
  ASSUME TypeInv, x.phase \in Commands
  PROVE  /\ x \in Transfer /\ Sublength \in Int /\ Sent \in Datagram
         /\ x.seg \in 1 .. Len(IOsegment) /\ IOsegment[x.seg] \in Nat
         /\ x.length \in Int /\ x.LogAdr \in Int
<1>1. x \in Transfer /\ x.seg <= group.nsegments /\ m.phase = "mapped"
  BY DEF TypeInv, ExchangeTyped, Commands
<1>2. x.length \in Int /\ x.LogAdr \in Int /\ x.seg \in Nat \ {0}
  BY <1>1, TransferType
<1>3. Len(IOsegment) = group.nsegments /\ IOsegment \in Seq(Nat)
  BY <1>1 DEF TypeInv, Indices, MapTyped
<1>4. x.seg \in 1 .. Len(IOsegment)
  BY <1>1, <1>2, <1>3, ResultsType
<1>5. IOsegment[x.seg] \in Nat
  BY <1>3, <1>4, ElementOfSeq
<1>6. group.Ioffset \in Nat
  BY ResultsType
<1>7. Sublength \in Int
  <2> DEFINE w == IOsegment[x.seg]
  <2>1. w \in Nat
    BY <1>5
  <2> HIDE DEF w
  <2>2. Sublength = w - group.Ioffset \/ Sublength = x.length \/ Sublength = w
    BY DEF Sublength, w
  <2> QED
    BY <1>2, <1>6, <2>1, <2>2
<1>8. Sent \in Datagram
  BY <1>2, <1>7 DEF Sent, Datagram, Commands
<1> QED
  BY <1>1, <1>2, <1>4, <1>5, <1>7, <1>8

\* A datagram is sent, and what comes after it.
LEMMA SendFacts ==
  ASSUME TypeInv, SendDatagram
  PROVE  /\ x.phase \in Commands /\ x' \in Transfer
         /\ UNCHANGED <<slaves, overlap, hasdc, m, fmmus, IOsegment, group>>
         /\ x'.frames = Append(x.frames, Sent)
         /\ x'.pulled = x.pulled /\ x'.first = x.first /\ x'.wkc = x.wkc
         /\ x'.done = x.done /\ x'.misread = x.misread
         /\ \/ /\ More /\ x'.phase = x.phase /\ x'.seg = x.seg + 1
               /\ x'.length = x.length - Sublength
               /\ x'.LogAdr = x.LogAdr + Sublength
            \/ /\ ~More /\ x.phase = "LRD" /\ group.Obytes > 0
               /\ x'.phase = "LWR" /\ x'.seg = 1
               /\ x'.length = group.Obytes /\ x'.LogAdr = 0
            \/ /\ ~More /\ (x.phase = "LRD" => group.Obytes = 0)
               /\ x'.phase = "receive"
<1> DEFINE sent == [x EXCEPT !.seg = @ + 1, !.length = @ - Sublength,
                             !.LogAdr = @ + Sublength,
                             !.frames = Append(@, [cmd |-> x.phase,
                                                   start |-> x.LogAdr,
                                                   length |-> Sublength])]
           more == sent.length # 0 /\ sent.seg <= group.nsegments
<1>1. /\ x.phase \in Commands
      /\ x' = IF more THEN sent
              ELSE IF x.phase = "LRD" THEN AfterLRD(sent)
              ELSE [sent EXCEPT !.phase = "receive"]
      /\ UNCHANGED <<slaves, overlap, hasdc, m, fmmus, IOsegment, group>>
  BY DEF SendDatagram, Commands
<1>2. /\ x \in Transfer /\ Sublength \in Int /\ Sent \in Datagram
      /\ x.length \in Int /\ x.LogAdr \in Int
  BY <1>1, SublengthType
<1>3. /\ x.seg + 1 \in Nat \ {0} /\ x.length - Sublength \in Int
      /\ x.LogAdr + Sublength \in Int /\ x.frames \in Seq(Datagram)
  BY <1>2, TransferType
<1> DEFINE s == x.seg + 1
           l == x.length - Sublength
           a == x.LogAdr + Sublength
           fr == Append(x.frames, Sent)
           one == [x EXCEPT !.seg = s, !.length = l]
<1>4. sent = [one EXCEPT !.LogAdr = a, !.frames = fr]
  <2> HIDE DEF one
  <2>1. sent = [x EXCEPT !.seg = s, !.length = l, !.LogAdr = a, !.frames = fr]
    BY DEF Sent
  <2> HIDE DEF sent, s, l, a, fr
  <2> QED
    BY <1>2, <2>1 DEF Transfer, one
<1>5. /\ s \in Nat \ {0} /\ l \in Int /\ a \in Int
  BY <1>3
<1>6. fr \in Seq(Datagram)
  BY <1>2, <1>3, AppendProperties
<1> HIDE DEF s, l, a, fr, sent
<1>7. /\ one \in Transfer /\ one.seg = s /\ one.length = l
      /\ one.phase = x.phase /\ Alike(one, x)
  BY <1>2, <1>5 DEF Transfer, Alike
<1> HIDE DEF one
<1>8. sent \in Transfer
  BY <1>4, <1>5, <1>6, <1>7 DEF Transfer
<1>9. /\ sent.seg = one.seg /\ sent.length = one.length
      /\ sent.phase = one.phase /\ sent.LogAdr = a /\ sent.frames = fr
      /\ sent.pulled = one.pulled /\ sent.first = one.first
      /\ sent.wkc = one.wkc /\ sent.done = one.done
      /\ sent.misread = one.misread
  BY <1>4, <1>7 DEF Transfer
<1>10. /\ sent.seg = s /\ sent.length = l
       /\ sent.phase = x.phase /\ sent.LogAdr = a /\ sent.frames = fr
       /\ sent.pulled = x.pulled /\ sent.first = x.first
       /\ sent.wkc = x.wkc /\ sent.done = x.done
       /\ sent.misread = x.misread
  BY <1>7, <1>9 DEF Alike
<1>11. more <=> More
  BY <1>10 DEF More, s, l
<1> HIDE DEF more
<1>12. CASE More
  <2>1. x' = sent
    BY <1>1, <1>11, <1>12
  <2> QED
    BY <1>1, <1>8, <1>10, <1>12, <2>1 DEF s, l, a, fr
<1>13. CASE ~More /\ x.phase = "LRD"
  <2>1. x' = AfterLRD(sent)
    BY <1>1, <1>11, <1>13
  <2>2. /\ x' \in Transfer /\ Alike(x', sent)
        /\ \/ /\ group.Obytes > 0 /\ x'.phase = "LWR" /\ x'.seg = 1
              /\ x'.length = group.Obytes /\ x'.LogAdr = 0
           \/ group.Obytes = 0 /\ x'.phase = "receive"
    BY <1>8, <2>1, AfterLRDFacts
  <2> QED
    BY <1>1, <1>10, <1>13, <2>2 DEF Alike, fr
<1>14. CASE ~More /\ x.phase # "LRD"
  <2>1. x' = [sent EXCEPT !.phase = "receive"]
    BY <1>1, <1>11, <1>14
  <2>2. x' \in Transfer /\ Alike(x', sent) /\ x'.phase = "receive"
    BY <1>8, <2>1 DEF Transfer, Alike
  <2> QED
    BY <1>1, <1>10, <1>14, <2>2 DEF Alike, fr
<1> QED
  BY <1>12, <1>13, <1>14

\* The FMMUs a datagram reaches can be counted.
LEMMA ReachedType ==
  ASSUME TypeInv, NEW d, NEW dir
  PROVE  /\ Reached(d, dir) \subseteq 1 .. Len(fmmus)
         /\ IsFiniteSet(Reached(d, dir)) /\ Cardinality(Reached(d, dir)) \in Nat
<1>1. Reached(d, dir) \subseteq 1 .. Len(fmmus)
  BY DEF Reached
<1>2. Len(fmmus) \in Nat
  <2>1. fmmus \in Seq(Fmmu)
    BY DEF TypeInv, MapTyped
  <2> QED
    BY <2>1
<1>3. IsFiniteSet(1 .. Len(fmmus))
  <2>1. \A k \in Nat : k \in Int
    OBVIOUS
  <2>2. 1 \in Int /\ Len(fmmus) \in Int
    BY <1>2, <2>1, Zenon
  <2> QED
    BY <2>2, FS_Interval
<1> QED
  BY <1>1, <1>3, FS_Subset, FS_CardinalityType

Answers(d) ==
  (IF d.cmd = "LWR" THEN {} ELSE Reached(d, "I"))
    \cup (IF d.cmd = "LRD" THEN {} ELSE Reached(d, "O"))
Misread == hasdc /\ ~x.first /\ x.pulled > 0

\* A frame comes back, or not.
LEMMA ReceiveFacts ==
  ASSUME TypeInv, ReceiveDatagram, NEW d, d = x.frames[x.pulled + 1]
  PROVE  /\ x.phase = "receive" /\ x.pulled < Len(x.frames)
         /\ x' \in Transfer
         /\ UNCHANGED <<slaves, overlap, hasdc, m, fmmus, IOsegment, group>>
         /\ x'.phase = "receive" /\ x'.pulled = x.pulled + 1
         /\ x'.frames = x.frames /\ x'.present = x.present
         /\ \/ x'.wkc = x.wkc /\ x'.done = x.done /\ x'.misread = x.misread
            \/ /\ x'.misread = (x.misread \/ Misread)
               /\ ~Misread => x'.wkc = x.wkc + Wkc(d)
               /\ x'.done = x.done \cup Answers(d)
<1> DEFINE counters == IF Misread THEN {0, Wkc(d), Expected} ELSE {Wkc(d)}
           New(w) == [x EXCEPT !.pulled = @ + 1, !.first = TRUE,
                               !.misread = @ \/ Misread, !.wkc = @ + w,
                               !.done = @ \cup (IF d.cmd = "LWR" THEN {}
                                                ELSE Reached(d, "I"))
                                          \cup (IF d.cmd = "LRD" THEN {}
                                                ELSE Reached(d, "O"))]
<1>1. /\ x.phase = "receive" /\ x.pulled < Len(x.frames)
      /\ UNCHANGED <<slaves, overlap, hasdc, m, fmmus, IOsegment, group>>
      /\ \/ x' = [x EXCEPT !.pulled = @ + 1]
         \/ \E w \in counters : x' = New(w)
  BY Zenon DEF ReceiveDatagram, Misread
<1>2. x \in Transfer /\ x.pulled \in Nat /\ x.wkc \in Nat /\ x.done \in SUBSET Nat
      /\ x.misread \in BOOLEAN /\ x.pulled + 1 \in Nat
  BY TransferType DEF TypeInv, ExchangeTyped
<1>3. CASE x' = [x EXCEPT !.pulled = @ + 1]
  BY <1>1, <1>2, <1>3 DEF Transfer
<1>4. CASE \E w \in counters : x' = New(w)
  <2>1. PICK w \in counters : x' = New(w)
    BY <1>4
  <2>2. Wkc(d) \in Nat /\ Expected \in Nat
    <3>1. /\ Cardinality(Reached(d, "O")) \in Nat
          /\ Cardinality(Reached(d, "I")) \in Nat
      BY ReachedType
    <3>2. Wkc(d) \in Nat
      BY <3>1 DEF Wkc
    <3>3. Expected \in Nat
      BY ResultsType DEF Expected
    <3> QED
      BY <3>2, <3>3
  <2>3. w \in Nat /\ (~Misread => w = Wkc(d))
    BY <2>2
  <2>4. Answers(d) \in SUBSET Nat
    <3>1. Answers(d) \subseteq 1 .. Len(fmmus)
      BY ReachedType DEF Answers
    <3>2. 1 .. Len(fmmus) \subseteq Nat
      OBVIOUS
    <3> QED
      BY <3>1, <3>2
  <2> DEFINE p == x.pulled + 1
             mis == x.misread \/ Misread
             wk == x.wkc + w
             dn == x.done \cup Answers(d)
             one == [x EXCEPT !.pulled = p, !.first = TRUE]
             two == [one EXCEPT !.misread = mis]
  <2>5. x' = [x EXCEPT !.pulled = p, !.first = TRUE, !.misread = mis,
                       !.wkc = wk, !.done = dn]
    <3>1. (x.done \cup (IF d.cmd = "LWR" THEN {} ELSE Reached(d, "I")))
             \cup (IF d.cmd = "LRD" THEN {} ELSE Reached(d, "O")) = dn
      BY DEF Answers
    <3> HIDE DEF dn
    <3> QED
      BY <2>1, <3>1
  <2>6. p \in Nat /\ wk \in Nat /\ dn \in SUBSET Nat
    BY <1>2, <2>3, <2>4
  <2>7. mis \in BOOLEAN
    BY <1>2 DEF Misread
  <2> HIDE DEF p, mis, wk, dn
  <2>8. x' = [two EXCEPT !.wkc = wk, !.done = dn]
    BY <1>2, <2>5 DEF Transfer
  <2>9. one \in Transfer
    BY <1>2, <2>6 DEF Transfer
  <2>a. one.phase = x.phase /\ one.pulled = p /\ one.frames = x.frames
        /\ one.present = x.present
    BY <1>2 DEF Transfer
  <2> HIDE DEF one
  <2>b. two \in Transfer
    BY <2>7, <2>9 DEF Transfer
  <2>c. two.phase = one.phase /\ two.pulled = one.pulled
        /\ two.frames = one.frames /\ two.present = one.present
        /\ two.misread = mis
    BY <2>9 DEF Transfer
  <2> HIDE DEF two
  <2>d. x' \in Transfer
    BY <2>6, <2>8, <2>b DEF Transfer
  <2>e. x'.phase = two.phase /\ x'.pulled = two.pulled
        /\ x'.frames = two.frames /\ x'.present = two.present
        /\ x'.misread = two.misread /\ x'.wkc = wk /\ x'.done = dn
    BY <2>8, <2>b DEF Transfer
  <2>f. x'.misread = (x.misread \/ Misread)
    BY <2>c, <2>e DEF mis
  <2> QED
    BY <1>1, <2>3, <2>a, <2>c, <2>d, <2>e, <2>f DEF p, wk, dn
<1> QED
  BY <1>1, <1>3, <1>4

\* Nothing is mapped at first.
LEMMA InitTyped ==
  ASSUME Init PROVE TypeInv
<1>1. /\ N \in Nat \ {0} /\ EC_MAXIOSEGMENTS \in Nat \ {0} /\ Kinds \subseteq Kind
      /\ m = MIdle /\ fmmus = <<>> /\ IOsegment = <<>> /\ x = XIdle
      /\ group = [outputsWKC |-> 0, inputsWKC |-> 0, Obytes |-> 0,
                  Ibytes |-> 0, nsegments |-> 0, Isegment |-> 1, Ioffset |-> 0]
      /\ slaves \in [1 .. N -> Kinds] /\ overlap \in BOOLEAN
      /\ hasdc \in BOOLEAN
  BY IOMapAssumption DEF Init
<1>2. m \in Locals
  <2>1. /\ 0 \in Nat /\ 1 \in Nat \ {0} /\ 0 \in 0 .. 7 /\ 1 \in 1 .. N + 1
        /\ 1 \in 1 .. EC_MAXIOSEGMENTS
    BY <1>1
  <2> QED
    BY <1>1, <2>1 DEF MIdle, Locals, Dirs
<1>3. group \in Results
  BY <1>1 DEF Results
<1>4. fmmus \in Seq(Fmmu) /\ IOsegment \in Seq(Nat) /\ Len(IOsegment) = 0
  BY <1>1
<1>5. /\ m.phase = "O" /\ m.slave = 1 /\ m.FMMUdone = 0 /\ m.start = 0
      /\ m.LogAddr = 0 /\ m.oLogAddr = 0 /\ m.BitPos = 0
      /\ m.currentsegment = 1
  BY <1>1 DEF MIdle
<1>6. MapTyped
  BY <1>1, <1>2, <1>3, <1>4, <1>5 DEF MapTyped
<1>7. Indices
  BY <1>1, <1>5 DEF Indices
<1>8. Advance
  <2>1. 1 \in 1 .. N /\ "O" \in Dirs
    BY <1>1 DEF Dirs
  <2>2. BytesOf(Bits(1, "O")) \in Nat /\ Bytes(1, "O") \in Nat
    BY <1>6, <2>1, KindType
  <2>3. Base = 0 /\ Padded = 0 /\ 1 <= N /\ ~(1 > N)
    BY <1>1, <1>5 DEF Base, Padded
  <2> DEFINE of == BytesOf(Bits(1, "O"))
             bytes == Bytes(1, "O")
  <2> HIDE DEF of, bytes
  <2>4. /\ 0 <= 0 /\ 0 + 0 <= 0 + 0 + 1
        /\ 0 + 0 <= 0 + of + 1 /\ (bytes > 0 => 0 <= bytes)
    BY <2>2 DEF of, bytes
  <2> QED
    BY <1>5, <2>3, <2>4 DEF Advance, of, bytes
<1>9. ExchangeTyped
  <2>1. /\ x.phase = "idle" /\ x.pulled = 0 /\ Len(x.frames) = 0
    BY <1>1 DEF XIdle
  <2>2. x \in Transfer
    BY <1>1 DEF XIdle, Transfer
  <2> QED
    BY <1>1, <2>1, <2>2 DEF ExchangeTyped, Commands
<1> QED
  BY <1>6, <1>7, <1>8, <1>9 DEF TypeInv

\* What changes only the exchange leaves the mapping as it was.
LEMMA ExchangeKeeps ==
  ASSUME TypeInv,
         UNCHANGED <<slaves, overlap, hasdc, m, fmmus, IOsegment, group>>
  PROVE  MapTyped' /\ Advance' /\ Indices'
<1>1. MapTyped' /\ Indices'
  BY DEF TypeInv, MapTyped, Indices
<1>2. Advance'
  BY DEF TypeInv, Advance, Base, Padded, Bytes, Bits, BytesOf
<1> QED
  BY <1>1, <1>2

\* Every step keeps the types, the cursor and the indices.
LEMMA NextTyped ==
  ASSUME TypeInv, [Next]_vars PROVE TypeInv'
<1>1. /\ MapTyped /\ Advance /\ Indices /\ ExchangeTyped
      /\ x \in Transfer /\ x.pulled \in Nat /\ x.frames \in Seq(Datagram)
  BY TransferType DEF TypeInv, ExchangeTyped
<1>2. CASE CreateFMMU \/ EndSlave \/ EndOutputs \/ EndInputs
             \/ EndSlaveOutputs \/ EndSlaveInputs
  <2>1. Indices' /\ UNCHANGED x /\ m.phase \in Dirs
    BY <1>2, MappingIndices
  <2>2. MapTyped' /\ Advance'
    BY <1>1, <1>2, CreateTyped, EndSlaveTyped, EndOutputsTyped, EndInputsTyped,
       EndSlaveOutputsTyped, EndSlaveInputsTyped
  <2>3. x = XIdle
    BY <1>1, <2>1 DEF ExchangeTyped, Dirs
  <2>4. ExchangeTyped'
    <3>1. x.phase = "idle"
      BY <2>3 DEF XIdle
    <3> QED
      BY <1>1, <2>1, <2>3, <3>1 DEF ExchangeTyped, XIdle, Commands, Transfer
  <2> QED
    BY <2>1, <2>2, <2>4 DEF TypeInv
<1>3. CASE StartExchange
  <2>1. /\ m.phase = "mapped" /\ x' \in Transfer
        /\ UNCHANGED <<slaves, overlap, hasdc, m, fmmus, IOsegment, group>>
        /\ x'.frames = <<>> /\ x'.pulled = 0 /\ ~x'.first /\ x'.wkc = 0
        /\ x'.done = {} /\ ~x'.misread
        /\ x'.phase \in Commands
        /\ x'.seg = 1 \/ x'.seg = group.Isegment
    BY <1>3, StartFacts DEF Commands
  <2>2. 1 <= group.nsegments /\ group.Isegment <= group.nsegments
    <3>1. /\ group.Isegment <= m.currentsegment
          /\ group.nsegments = m.currentsegment
      BY <1>1, <2>1 DEF Indices
    <3>2. m.currentsegment \in 1 .. EC_MAXIOSEGMENTS
      BY <1>1, LocalsType
    <3> QED
      BY <3>1, <3>2
  <2>3. Len(x'.frames) = 0
    BY <2>1
  <2>4. ExchangeTyped'
    BY <2>1, <2>2, <2>3 DEF ExchangeTyped, Commands
  <2> QED
    BY <2>1, <2>4, ExchangeKeeps DEF TypeInv
<1>4. CASE SendDatagram
  <2>1. /\ x.phase \in Commands /\ x' \in Transfer
        /\ UNCHANGED <<slaves, overlap, hasdc, m, fmmus, IOsegment, group>>
        /\ x'.frames = Append(x.frames, Sent)
        /\ x'.pulled = x.pulled /\ x'.first = x.first /\ x'.wkc = x.wkc
        /\ x'.done = x.done /\ x'.misread = x.misread
        /\ \/ x'.phase \in Commands /\ x'.seg <= group.nsegments
           \/ x'.phase \in Commands /\ x'.seg = 1
           \/ x'.phase = "receive"
    <3>1. "LWR" \in Commands
      BY DEF Commands
    <3>2. x.phase \in Commands
      BY <1>4, SendFacts
    <3> QED
      BY <1>4, <3>1, <3>2, SendFacts DEF More
  <2>2. /\ x.pulled = 0 /\ m.phase = "mapped" /\ x.wkc = 0 /\ x.done = {}
        /\ ~x.first /\ ~x.misread
    BY <1>1, <2>1 DEF ExchangeTyped, Commands
  <2>3. 1 <= group.nsegments
    <3>1. group.nsegments = m.currentsegment
      BY <1>1, <2>2 DEF Indices
    <3>2. m.currentsegment \in 1 .. EC_MAXIOSEGMENTS
      BY <1>1, LocalsType
    <3> QED
      BY <3>1, <3>2
  <2>4. Len(x'.frames) \in Nat
    <3>1. x'.frames \in Seq(Datagram)
      BY <2>1, TransferType
    <3> QED
      BY <3>1
  <2>5. ExchangeTyped'
    BY <2>1, <2>2, <2>3, <2>4 DEF ExchangeTyped, Commands
  <2> QED
    BY <2>1, <2>5, ExchangeKeeps DEF TypeInv
<1>5. CASE ReceiveDatagram
  <2> DEFINE d == x.frames[x.pulled + 1]
  <2>1. d = x.frames[x.pulled + 1]
    OBVIOUS
  <2> HIDE DEF d
  <2>2. /\ x.phase = "receive" /\ x.pulled < Len(x.frames)
        /\ x' \in Transfer
        /\ UNCHANGED <<slaves, overlap, hasdc, m, fmmus, IOsegment, group>>
        /\ x'.phase = "receive" /\ x'.pulled = x.pulled + 1
        /\ x'.frames = x.frames
    BY <1>5, <2>1, ReceiveFacts
  <2>3. m.phase = "mapped"
    BY <1>1, <2>2 DEF ExchangeTyped
  <2>4. x.pulled + 1 <= Len(x.frames)
    <3>1. Len(x.frames) \in Nat
      BY <1>1
    <3> QED
      BY <1>1, <2>2, <3>1
  <2>5. ExchangeTyped'
    BY <2>2, <2>3, <2>4 DEF ExchangeTyped, Commands
  <2> QED
    BY <2>2, <2>5, ExchangeKeeps DEF TypeInv
<1>6. CASE EndExchange
  <2>1. /\ x' = XIdle
        /\ UNCHANGED <<slaves, overlap, hasdc, m, fmmus, IOsegment, group>>
    BY <1>6 DEF EndExchange
  <2>2. /\ x'.phase = "idle" /\ x'.pulled = 0 /\ Len(x'.frames) = 0
    BY <2>1 DEF XIdle
  <2>3. x' \in Transfer
    BY <2>1 DEF XIdle, Transfer
  <2>4. ExchangeTyped'
    BY <2>1, <2>2, <2>3 DEF ExchangeTyped, Commands, XIdle
  <2> QED
    BY <2>1, <2>4, ExchangeKeeps DEF TypeInv
<1>7. CASE UNCHANGED vars
  <2>1. UNCHANGED <<slaves, overlap, hasdc, m, fmmus, IOsegment, group, x>>
    BY <1>7 DEF vars
  <2>2. ExchangeTyped'
    BY <1>1, <2>1 DEF ExchangeTyped, XIdle
  <2> QED
    BY <2>1, <2>2, ExchangeKeeps DEF TypeInv
<1> QED
  BY <1>2, <1>3, <1>4, <1>5, <1>6, <1>7 DEF Next

\* The types, and the bounds the rest relies on, hold in every state.
THEOREM AlwaysTyped == Spec => []TypeInv
BY InitTyped, NextTyped, PTL DEF Spec

\* Every variable of the mapping and of the exchange keeps its type.
THEOREM TypeCorrect == Spec => []TypeOK
<1>1. TypeInv => TypeOK
  <2> SUFFICES ASSUME TypeInv PROVE TypeOK
    OBVIOUS
  <2>1. /\ m.phase \in Dirs \cup {"mapped"} /\ m.slave \in 1 .. N + 1
        /\ m.BitPos \in 0 .. 7 /\ m.currentsegment \in 1 .. EC_MAXIOSEGMENTS
    BY LocalsType DEF TypeInv
  <2>2. \A k \in 1 .. Len(IOsegment) : IOsegment[k] \in Nat
    <3>1. IOsegment \in Seq(Nat)
      BY DEF TypeInv, MapTyped
    <3> QED
      BY <3>1, ElementOfSeq
  <2>3. x \in Transfer /\ x.pulled <= Len(x.frames)
    BY DEF TypeInv, ExchangeTyped
  <2>4. x.phase \in {"idle", "LRD", "LWR", "LRW", "receive"}
        /\ x.pulled \in Nat /\ x.frames \in Seq(Datagram)
    BY <2>3 DEF Transfer
  <2>5. x.pulled \in 0 .. Len(x.frames)
    <3>1. Len(x.frames) \in Nat
      BY <2>4
    <3> QED
      BY <2>3, <2>4, <3>1
  <2> QED
    BY <2>1, <2>2, <2>4, <2>5 DEF TypeOK
<1> QED
  BY <1>1, AlwaysTyped, PTL

-----------------------------------------------------------------------------
(* The FMMUs.                                                              *)

(* An FMMU lies before the place where the next one of its direction goes. *)
LimitO == IF ~overlap \/ m.phase = "O" THEN Cursor ELSE 8 * m.so
LimitI == IF ~overlap \/ m.phase = "I" THEN Cursor ELSE 8 * m.start
Below(k) ==
  LastBit(fmmus[k]) < IF fmmus[k].dir = "O" THEN LimitO ELSE LimitI
BelowLimit == m.phase \in Dirs => \A k \in 1 .. Len(fmmus) : Below(k)

DisjointInv == TypeInv /\ BelowLimit /\ MappingsAreDisjoint

\* The bits of an FMMU are numbers.
LEMMA BitType ==
  ASSUME TypeInv, NEW k \in 1 .. Len(fmmus)
  PROVE  /\ fmmus[k].dir \in Dirs
         /\ FirstBit(fmmus[k]) \in Int /\ LastBit(fmmus[k]) \in Int
<1>1. fmmus \in Seq(Fmmu)
  BY DEF TypeInv, MapTyped
<1>2. fmmus[k] \in Fmmu
  BY <1>1, ElementOfSeq
<1>3. /\ fmmus[k].dir \in Dirs /\ fmmus[k].start \in Nat
      /\ fmmus[k].startbit \in 0 .. 7 /\ fmmus[k].length \in Nat
      /\ fmmus[k].endbit \in 0 .. 7
  BY <1>2 DEF Fmmu
<1> DEFINE s == fmmus[k].start
           b == fmmus[k].startbit
           l == fmmus[k].length
           e == fmmus[k].endbit
<1>4. /\ FirstBit(fmmus[k]) = 8 * s + b
      /\ LastBit(fmmus[k]) = 8 * (s + l - 1) + e
  BY DEF FirstBit, LastBit
<1>5. s \in Int /\ b \in Int /\ l \in Int /\ e \in Int
  BY <1>3
<1> HIDE DEF s, b, l, e
<1>6. 8 * s + b \in Int /\ 8 * (s + l - 1) + e \in Int
  BY <1>5
<1> QED
  BY <1>3, <1>4, <1>6

\* The place where the next FMMU may start is a number.
LEMMA LimitType ==
  ASSUME TypeInv
  PROVE  /\ Len(fmmus) \in Nat
         /\ Cursor \in Nat /\ LimitO \in Nat /\ LimitI \in Nat
<1>1. fmmus \in Seq(Fmmu)
  BY DEF TypeInv, MapTyped
<1>2. Cursor \in Nat /\ 8 * m.so \in Nat /\ 8 * m.start \in Nat
  BY LocalsType DEF TypeInv, Cursor
<1> QED
  BY <1>1, <1>2 DEF LimitO, LimitI

\* Where no FMMU is added, it is enough that no limit goes down.
LEMMA LimitsUp ==
  ASSUME DisjointInv, UNCHANGED <<fmmus, overlap>>, m.phase \in Dirs,
         m'.phase \in Dirs =>
           /\ LimitO' \in Nat /\ LimitI' \in Nat
           /\ LimitO <= LimitO' /\ LimitI <= LimitI'
  PROVE  BelowLimit' /\ MappingsAreDisjoint'
<1>1. MappingsAreDisjoint'
  BY DEF DisjointInv, MappingsAreDisjoint, FirstBit, LastBit
<1>2. ASSUME m'.phase \in Dirs, NEW k \in 1 .. Len(fmmus) PROVE Below(k)'
  <2>1. Below(k)
    BY DEF DisjointInv, BelowLimit
  <2>2. LastBit(fmmus[k]) \in Int /\ LimitO \in Nat /\ LimitI \in Nat
    BY BitType, LimitType DEF DisjointInv
  <2>3. LastBit(fmmus[k])' = LastBit(fmmus[k]) /\ fmmus' = fmmus
    BY DEF LastBit
  <2> QED
    BY <1>2, <2>1, <2>2, <2>3 DEF Below
<1>3. Len(fmmus') = Len(fmmus)
  OBVIOUS
<1> QED
  BY <1>1, <1>2, <1>3 DEF BelowLimit

\* A new FMMU lies after those of its direction, and before the next limit.
LEMMA CreateDisjoint ==
  ASSUME DisjointInv, CreateFMMU PROVE BelowLimit' /\ MappingsAreDisjoint'
<1>1. TypeInv /\ MapTyped /\ Advance
  BY DEF DisjointInv, TypeInv
<1>2. PICK f, shared, last : Created(f, shared, last) /\ Placed(f)
  BY <1>1, CreateFacts
<1>0. PICK n \in Nat : n = Len(fmmus)
  BY <1>1, LimitType
<1> DEFINE g == fmmus'[n + 1]
<1>3. /\ m'.phase = m.phase /\ m'.start = m.start /\ m'.so = m.so
      /\ m'.LogAddr = f.LogAddr /\ m'.BitPos = f.BitPos
      /\ Len(fmmus') = n + 1 /\ \A k \in 1 .. n : fmmus'[k] = fmmus[k]
      /\ g.dir = m.phase /\ g.start = f.start
      /\ g.startbit = f.startbit /\ g.length = f.length /\ g.endbit = f.endbit
  BY <1>0, <1>1, <1>2, CreatedFacts
<1> HIDE DEF g
<1>4. /\ m.phase \in Dirs /\ overlap' = overlap
      /\ f.LogAddr \in Nat /\ f.BitPos \in Nat
      /\ f.start \in Nat /\ f.startbit \in Nat /\ f.length \in Nat
      /\ f.endbit \in Nat
  <2>1. /\ m.phase \in Dirs /\ overlap' = overlap
        /\ f \in [start : Nat, startbit : 0 .. 7, length : Nat, endbit : 0 .. 7,
                  LogAddr : Nat, BitPos : 0 .. 7]
    BY <1>2 DEF Created
  <2>2. f.LogAddr \in Nat /\ f.start \in Nat /\ f.length \in Nat
    BY <2>1
  <2>3. f.BitPos \in 0 .. 7 /\ f.startbit \in 0 .. 7 /\ f.endbit \in 0 .. 7
    BY <2>1
  <2>4. f.BitPos \in Nat /\ f.startbit \in Nat /\ f.endbit \in Nat
    BY <2>3
  <2> QED
    BY <2>1, <2>2, <2>4
<1>5. /\ Cursor <= FirstBit(f) /\ LastBit(f) < 8 * f.LogAddr + f.BitPos
      /\ Cursor <= 8 * f.LogAddr + f.BitPos
  BY <1>2 DEF Placed
<1>6. FirstBit(g) = FirstBit(f) /\ LastBit(g) = LastBit(f)
  BY <1>3 DEF FirstBit, LastBit
<1>7. Cursor' = 8 * f.LogAddr + f.BitPos /\ Cursor' \in Nat
  BY <1>3, <1>4 DEF Cursor
<1>8. Cursor \in Nat /\ LimitO \in Nat /\ LimitI \in Nat
  BY <1>1, LimitType
<1>9. /\ m.phase = "O" => LimitO = Cursor /\ LimitO' = Cursor'
      /\ m.phase = "I" => LimitI = Cursor /\ LimitI' = Cursor'
      /\ ~overlap => /\ LimitO = Cursor /\ LimitO' = Cursor'
                     /\ LimitI = Cursor /\ LimitI' = Cursor'
      /\ overlap /\ m.phase = "O" => LimitI' = LimitI
      /\ overlap /\ m.phase = "I" => LimitO' = LimitO
  BY <1>3, <1>4 DEF LimitO, LimitI
<1>10. LimitO' \in Nat /\ LimitI' \in Nat /\ LimitO <= LimitO' /\ LimitI <= LimitI'
  BY <1>4, <1>5, <1>7, <1>8, <1>9 DEF Dirs
<1>11. FirstBit(f) \in Int /\ LastBit(f) \in Int
  BY <1>4 DEF FirstBit, LastBit
<1>12. ASSUME NEW k \in 1 .. n
       PROVE  /\ Below(k) /\ Below(k)' /\ LastBit(fmmus[k]) \in Int
              /\ FirstBit(fmmus[k]) \in Int /\ fmmus[k].dir \in Dirs
  <2>1. Below(k)
    BY <1>0, <1>4 DEF DisjointInv, BelowLimit
  <2>2. /\ LastBit(fmmus[k]) \in Int /\ fmmus[k].dir \in Dirs
        /\ FirstBit(fmmus[k]) \in Int
    BY <1>0, <1>1, BitType
  <2>3. LastBit(fmmus[k])' = LastBit(fmmus[k]) /\ fmmus'[k] = fmmus[k]
    BY <1>3 DEF LastBit
  <2> QED
    BY <1>8, <1>10, <2>1, <2>2, <2>3 DEF Below
<1>13. Below(n + 1)'
  <2>1. Below(n + 1)' <=> LastBit(g) < IF g.dir = "O" THEN LimitO' ELSE LimitI'
    BY DEF Below, LastBit, g
  <2>2. LastBit(g) < Cursor' /\ g.dir = m.phase
    BY <1>3, <1>5, <1>6, <1>7
  <2>3. (IF g.dir = "O" THEN LimitO' ELSE LimitI') = Cursor'
    BY <1>4, <1>9, <2>2 DEF Dirs
  <2> QED
    BY <2>1, <2>2, <2>3
<1>14. BelowLimit'
  <2> SUFFICES ASSUME NEW k \in 1 .. n + 1 PROVE Below(k)'
    BY <1>3 DEF BelowLimit
  <2>1. k \in 1 .. n \/ k = n + 1
    BY <1>0
  <2> QED
    BY <1>12, <1>13, <2>1
<1>15. ASSUME NEW k \in 1 .. n, overlap => fmmus[k].dir = m.phase
       PROVE  LastBit(fmmus[k]) < FirstBit(g)
  <2>1. /\ Below(k) /\ LastBit(fmmus[k]) \in Int /\ fmmus[k].dir \in Dirs
    BY <1>12
  <2>2. (IF fmmus[k].dir = "O" THEN LimitO ELSE LimitI) = Cursor
    BY <1>9, <1>15, <2>1 DEF Dirs
  <2>3. LastBit(fmmus[k]) < Cursor
    BY <2>1, <2>2 DEF Below
  <2> QED
    BY <1>5, <1>6, <1>8, <1>11, <2>1, <2>3
<1>16. MappingsAreDisjoint'
  <2> SUFFICES ASSUME NEW i \in 1 .. n + 1, NEW j \in 1 .. n + 1, i < j,
                      overlap => fmmus'[i].dir = fmmus'[j].dir
               PROVE  \/ LastBit(fmmus'[i]) < FirstBit(fmmus'[j])
                      \/ LastBit(fmmus'[j]) < FirstBit(fmmus'[i])
    BY <1>3, <1>4 DEF MappingsAreDisjoint, LastBit, FirstBit
  <2>1. i \in 1 .. n /\ fmmus'[i] = fmmus[i]
    BY <1>0, <1>3
  <2>2. CASE j = n + 1
    <3>1. fmmus'[j] = g /\ g.dir = m.phase
      BY <1>3, <2>2 DEF g
    <3> QED
      BY <1>15, <2>1, <3>1
  <2>3. CASE j \in 1 .. n
    <3>1. fmmus'[j] = fmmus[j]
      BY <1>3, <2>3
    <3>2. \/ LastBit(fmmus[i]) < FirstBit(fmmus[j])
          \/ LastBit(fmmus[j]) < FirstBit(fmmus[i])
      BY <1>0, <2>1, <2>3, <3>1 DEF DisjointInv, MappingsAreDisjoint
    <3> QED
      BY <2>1, <3>1, <3>2
  <2> QED
    BY <1>0, <2>2, <2>3
<1> QED
  BY <1>14, <1>16

\* There are no FMMUs at first.
LEMMA InitDisjoint ==
  ASSUME Init PROVE DisjointInv
<1>1. Len(fmmus) = 0
  BY DEF Init
<1> QED
  BY <1>1, InitTyped DEF DisjointInv, BelowLimit, MappingsAreDisjoint

\* A new FMMU lies behind those of its direction, and no other step adds one.
LEMMA NextDisjoint ==
  ASSUME DisjointInv, [Next]_vars PROVE DisjointInv'
<1>1. TypeInv /\ MapTyped /\ Advance /\ TypeInv'
  BY NextTyped DEF DisjointInv, TypeInv
<1>2. /\ m \in Locals /\ m.start \in Nat /\ m.so \in Nat /\ m.LogAddr \in Nat
      /\ m.BitPos \in 0 .. 7 /\ Padded \in {0, 1}
      /\ m.BitPos <= 8 * Padded
  BY <1>1, LocalsType DEF Padded
<1>3. CASE CreateFMMU
  BY <1>1, <1>3, CreateDisjoint DEF DisjointInv
<1>4. CASE EndSlave
  <2>1. /\ ~overlap /\ m.phase \in Dirs /\ m'.LogAddr = m.LogAddr
        /\ m'.BitPos = m.BitPos /\ UNCHANGED <<fmmus, overlap>>
    BY <1>1, <1>4, EndSlaveFacts
  <2>2. /\ LimitO = Cursor /\ LimitI = Cursor /\ LimitO' = Cursor
        /\ LimitI' = Cursor /\ Cursor \in Nat
    BY <1>2, <2>1 DEF LimitO, LimitI, Cursor
  <2> QED
    BY <1>1, <2>1, <2>2, LimitsUp DEF DisjointInv
<1>5. CASE EndOutputs
  <2>1. /\ ~overlap /\ m.phase \in Dirs /\ m'.LogAddr = m.LogAddr + Padded
        /\ m'.BitPos = 0 /\ UNCHANGED <<fmmus, overlap>>
    BY <1>1, <1>5, EndOutputsFacts DEF Dirs
  <2>2. /\ LimitO = Cursor /\ LimitI = Cursor
        /\ LimitO' = Cursor' /\ LimitI' = Cursor'
    BY <2>1 DEF LimitO, LimitI
  <2>3. /\ Cursor = 8 * m.LogAddr + m.BitPos
        /\ Cursor' = 8 * (m.LogAddr + Padded)
    BY <1>2, <2>1 DEF Cursor
  <2>4. Cursor' \in Nat /\ Cursor <= Cursor'
    BY <1>2, <2>3
  <2> QED
    BY <1>1, <2>1, <2>2, <2>4, LimitsUp DEF DisjointInv
<1>6. CASE EndInputs
  <2>1. m.phase \in Dirs /\ m'.phase = "mapped" /\ UNCHANGED <<fmmus, overlap>>
    BY <1>1, <1>6, EndInputsFacts DEF Dirs
  <2> QED
    BY <1>1, <2>1, LimitsUp DEF DisjointInv, Dirs
<1>7. CASE EndSlaveOutputs
  <2>1. /\ overlap /\ m.phase = "O" /\ m'.phase = "I"
        /\ m'.start = m.start /\ m'.so = m.LogAddr + Padded
        /\ m'.LogAddr = m.start /\ m'.BitPos = 0
        /\ UNCHANGED <<fmmus, overlap>>
    BY <1>1, <1>7, EndSlaveOutputsFacts
  <2>2. /\ LimitO = 8 * m.LogAddr + m.BitPos /\ LimitI = 8 * m.start
        /\ LimitO' = 8 * (m.LogAddr + Padded) /\ LimitI' = 8 * m.start
    BY <1>2, <2>1 DEF LimitO, LimitI, Cursor
  <2>3. LimitO' \in Nat /\ LimitI' \in Nat /\ LimitO <= LimitO' /\ LimitI <= LimitI'
    BY <1>2, <2>2
  <2> QED
    BY <1>1, <2>1, <2>3, LimitsUp DEF DisjointInv, Dirs
<1>8. CASE EndSlaveInputs
  <2> DEFINE si == m.LogAddr + Padded
             end == IF si > m.so THEN si ELSE m.so
  <2>1. si = m.LogAddr + Padded /\ end = IF si > m.so THEN si ELSE m.so
    OBVIOUS
  <2> HIDE DEF si, end
  <2>2. /\ overlap /\ m.phase = "I" /\ si \in Nat /\ end \in Nat
        /\ m'.start = end /\ m'.LogAddr = end /\ m'.BitPos = 0
        /\ UNCHANGED <<fmmus, overlap>>
        /\ m'.phase = "O" \/ m'.phase = "mapped"
    BY <1>1, <1>8, <2>1, EndSlaveInputsFacts
  <2>3. /\ LimitO = 8 * m.so /\ LimitI = 8 * m.LogAddr + m.BitPos
        /\ m'.phase = "O" => LimitO' = 8 * end /\ LimitI' = 8 * end
    BY <1>2, <2>2 DEF LimitO, LimitI, Cursor
  <2>4. m.so <= end /\ m.LogAddr + Padded <= end
    BY <1>2, <2>1, <2>2
  <2>5. m'.phase = "O" => /\ LimitO' \in Nat /\ LimitI' \in Nat
                          /\ LimitO <= LimitO' /\ LimitI <= LimitI'
    BY <1>2, <2>2, <2>3, <2>4
  <2> QED
    BY <1>1, <2>2, <2>5, LimitsUp DEF DisjointInv, Dirs
<1>9. CASE StartExchange \/ SendDatagram \/ ReceiveDatagram \/ EndExchange
             \/ UNCHANGED vars
  <2>1. UNCHANGED <<overlap, m, fmmus>>
    BY <1>9 DEF StartExchange, SendDatagram, ReceiveDatagram, EndExchange, vars
  <2> QED
    BY <1>1, <2>1, SMTT(30)
       DEF DisjointInv, BelowLimit, Below, LimitO, LimitI, Cursor,
           MappingsAreDisjoint, FirstBit, LastBit
<1> QED
  BY <1>3, <1>4, <1>5, <1>6, <1>7, <1>8, <1>9 DEF Next

\* No two FMMUs have a bit of the process image in common, whatever the
\* slaves have (ecx_config_create_output_mappings, ..._input_mappings).
THEOREM MappingsStayDisjoint == Spec => []MappingsAreDisjoint
<1>1. DisjointInv => MappingsAreDisjoint
  BY DEF DisjointInv
<1>2. Spec => []DisjointInv
  BY InitDisjoint, NextDisjoint, PTL DEF Spec
<1> QED
  BY <1>1, <1>2, PTL

(* In separate images the outputs lie before the inputs.                   *)
Apart(f) == /\ f.dir = "O" => LastBit(f) < 8 * group.Obytes
            /\ f.dir = "I" => 8 * group.Obytes <= FirstBit(f)
OutputsFirst ==
  ~overlap =>
    /\ m.phase = "O" => \A k \in 1 .. Len(fmmus) : fmmus[k].dir = "O"
    /\ m.phase \in {"I", "mapped"} => \A k \in 1 .. Len(fmmus) : Apart(fmmus[k])

InsideInv == DisjointInv /\ OutputsFirst /\ MappingsLieInImage

\* No FMMU starts before the image.
LEMMA BitNat ==
  ASSUME TypeInv, NEW k \in 1 .. Len(fmmus)
  PROVE  FirstBit(fmmus[k]) \in Nat
<1>1. fmmus \in Seq(Fmmu)
  BY DEF TypeInv, MapTyped
<1>2. fmmus[k] \in Fmmu
  BY <1>1, ElementOfSeq
<1> DEFINE s == fmmus[k].start
           b == fmmus[k].startbit
<1>3. s \in Nat /\ b \in 0 .. 7
  BY <1>2 DEF Fmmu
<1>4. FirstBit(fmmus[k]) = 8 * s + b
  BY DEF FirstBit
<1> HIDE DEF s, b
<1> QED
  BY <1>3, <1>4

\* The byte in which the cursor stands, once finished, is behind it.
LEMMA PaddedReaches ==
  ASSUME MapTyped
  PROVE  /\ Cursor <= 8 * (m.LogAddr + Padded) /\ Cursor \in Nat
         /\ m.LogAddr + Padded \in Nat
<1> DEFINE a == m.LogAddr
           b == m.BitPos
<1>1. /\ a \in Nat /\ b \in 0 .. 7 /\ Cursor = 8 * a + b
      /\ Padded = IF b > 0 THEN 1 ELSE 0
  BY LocalsType DEF Cursor, Padded
<1> HIDE DEF a, b
<1>2. /\ Cursor <= 8 * (a + Padded) /\ Cursor \in Nat /\ a + Padded \in Nat
  BY <1>1
<1> QED
  BY <1>2 DEF a

\* What a new FMMU has to do with the others and with the images.
LEMMA CreateAppends ==
  ASSUME TypeInv, CreateFMMU
  PROVE  /\ m.phase \in Dirs /\ m'.phase = m.phase /\ overlap' = overlap
         /\ group'.Obytes = group.Obytes
         /\ Len(fmmus') = Len(fmmus) + 1
         /\ \A k \in 1 .. Len(fmmus) : fmmus'[k] = fmmus[k]
         /\ fmmus'[Len(fmmus) + 1].dir = m.phase
         /\ ~overlap /\ m.phase = "I"
            => 8 * group.Obytes <= FirstBit(fmmus'[Len(fmmus) + 1])
<1>1. MapTyped /\ Advance
  BY DEF TypeInv
<1>2. PICK f, shared, last : Created(f, shared, last) /\ Placed(f)
  BY <1>1, CreateFacts
<1>3. m.phase \in Dirs /\ overlap' = overlap
  BY <1>2 DEF Created
<1> DEFINE g == fmmus'[Len(fmmus) + 1]
<1>4. /\ m'.phase = m.phase /\ group'.Obytes = group.Obytes
      /\ Len(fmmus') = Len(fmmus) + 1
      /\ \A k \in 1 .. Len(fmmus) : fmmus'[k] = fmmus[k]
      /\ g.dir = m.phase /\ g.start = f.start /\ g.startbit = f.startbit
  BY <1>1, <1>2, CreatedFacts
<1> HIDE DEF g
<1>5. ASSUME ~overlap, m.phase = "I" PROVE 8 * group.Obytes <= FirstBit(g)
  <2>1. FirstBit(g) = FirstBit(f)
    BY <1>4 DEF FirstBit
  <2>2. Cursor <= FirstBit(f)
    BY <1>2 DEF Placed
  <2>3. group.Obytes <= m.oLogAddr /\ m.oLogAddr <= m.LogAddr
    BY <1>1, <1>5 DEF Advance, Base, Dirs
  <2>4. FirstBit(f) \in Int
    <3>1. f.start \in Nat /\ f.startbit \in 0 .. 7
      BY <1>2 DEF Created
    <3> QED
      BY <3>1 DEF FirstBit
  <2>5. /\ group.Obytes \in Nat /\ m.oLogAddr \in Nat /\ m.LogAddr \in Nat
        /\ m.BitPos \in 0 .. 7
    BY <1>1, LocalsType, ResultsType
  <2>6. 8 * group.Obytes <= Cursor /\ Cursor \in Nat
    BY <2>3, <2>5 DEF Cursor
  <2>7. group.Obytes \in Nat
    BY <2>5
  <2> QED
    BY <2>1, <2>2, <2>4, <2>6, <2>7
<1> QED
  BY <1>3, <1>4, <1>5 DEF g

\* A new input of separate images lies behind all outputs.
LEMMA CreateInside ==
  ASSUME InsideInv, CreateFMMU PROVE OutputsFirst' /\ MappingsLieInImage'
<1>1. TypeInv
  BY DEF InsideInv, DisjointInv
<1>2. PICK n \in Nat : n = Len(fmmus)
  BY <1>1, LimitType
<1>3. /\ m.phase \in Dirs /\ m'.phase = m.phase /\ overlap' = overlap
      /\ group'.Obytes = group.Obytes /\ Len(fmmus') = n + 1
      /\ \A k \in 1 .. n : fmmus'[k] = fmmus[k]
      /\ fmmus'[n + 1].dir = m.phase
      /\ ~overlap /\ m.phase = "I" => 8 * group.Obytes <= FirstBit(fmmus'[n + 1])
  BY <1>1, <1>2, CreateAppends
<1>4. ASSUME NEW k \in 1 .. n + 1 PROVE k \in 1 .. n \/ k = n + 1
  BY <1>4
<1>5. CASE ~overlap /\ m.phase = "O"
  <2>1. \A k \in 1 .. n : fmmus[k].dir = "O"
    BY <1>2, <1>5 DEF InsideInv, OutputsFirst
  <2>2. \A k \in 1 .. n + 1 : fmmus'[k].dir = "O"
    BY <1>3, <1>4, <1>5, <2>1
  <2> QED
    BY <1>3, <1>5, <2>2 DEF OutputsFirst, MappingsLieInImage, Dirs
<1>6. CASE ~overlap /\ m.phase = "I"
  <2>1. \A k \in 1 .. n : Apart(fmmus[k])
    BY <1>2, <1>6 DEF InsideInv, OutputsFirst
  <2>2. ASSUME NEW k \in 1 .. n PROVE Apart(fmmus[k])'
    <3>1. Apart(fmmus[k]) /\ fmmus'[k] = fmmus[k]
      BY <1>3, <2>1
    <3> QED
      BY <1>3, <3>1 DEF Apart, LastBit, FirstBit
  <2>3. Apart(fmmus[n + 1])'
    BY <1>3, <1>6 DEF Apart, FirstBit
  <2>4. \A k \in 1 .. n + 1 : Apart(fmmus[k])'
    BY <1>4, <2>2, <2>3
  <2> QED
    BY <1>3, <1>6, <2>4 DEF OutputsFirst, MappingsLieInImage, Dirs
<1>7. CASE overlap
  BY <1>3, <1>7 DEF OutputsFirst, MappingsLieInImage, Dirs
<1> QED
  BY <1>3, <1>5, <1>6, <1>7 DEF Dirs

\* The outputs of all slaves: what is mapped lies below the place reached.
LEMMA EndOutputsInside ==
  ASSUME InsideInv, EndOutputs PROVE OutputsFirst' /\ MappingsLieInImage'
<1>1. TypeInv /\ MapTyped /\ Advance
  BY DEF InsideInv, DisjointInv, TypeInv
<1>2. /\ ~overlap /\ m.phase = "O" /\ m'.phase = "I"
      /\ group'.Obytes = m.LogAddr + Padded
      /\ UNCHANGED <<overlap, fmmus>>
  BY <1>1, EndOutputsFacts
<1>3. Cursor <= 8 * group'.Obytes /\ Cursor \in Nat /\ group'.Obytes \in Nat
  BY <1>1, <1>2, PaddedReaches
<1>4. ASSUME NEW k \in 1 .. Len(fmmus) PROVE Apart(fmmus[k])'
  <2>1. fmmus[k].dir = "O"
    BY <1>2 DEF InsideInv, OutputsFirst
  <2>2. Below(k)
    BY <1>2 DEF InsideInv, DisjointInv, BelowLimit, Dirs
  <2>3. LastBit(fmmus[k]) < Cursor
    BY <1>2, <2>1, <2>2 DEF Below, LimitO
  <2>4. LastBit(fmmus[k]) \in Int
    BY <1>1, BitType
  <2>5. LastBit(fmmus[k]) < 8 * group'.Obytes
    BY <1>3, <2>3, <2>4
  <2> QED
    BY <1>2, <2>1, <2>5 DEF Apart, LastBit
<1> QED
  BY <1>2, <1>4 DEF OutputsFirst, MappingsLieInImage

\* The inputs of all slaves, in separate images.
LEMMA EndInputsInside ==
  ASSUME InsideInv, EndInputs PROVE OutputsFirst' /\ MappingsLieInImage'
<1>1. TypeInv /\ MapTyped /\ Advance
  BY DEF InsideInv, DisjointInv, TypeInv
<1>2. /\ ~overlap /\ m.phase = "I" /\ m'.phase = "mapped"
      /\ group'.Obytes = group.Obytes
      /\ group'.Ibytes = (m.LogAddr + Padded) - group.Obytes
      /\ UNCHANGED <<overlap, fmmus>>
  BY <1>1, EndInputsFacts
<1>3. /\ Cursor <= 8 * (m.LogAddr + Padded) /\ Cursor \in Nat
      /\ m.LogAddr + Padded \in Nat
  BY <1>1, PaddedReaches
<1>4. group.Obytes \in Nat
  BY <1>1, ResultsType
<1>5. group'.Obytes + group'.Ibytes = m.LogAddr + Padded
  BY <1>2, <1>3, <1>4
<1>6. ASSUME NEW k \in 1 .. Len(fmmus)
      PROVE  /\ Apart(fmmus[k])
             /\ LastBit(fmmus[k]) < 8 * (group'.Obytes + group'.Ibytes)
             /\ fmmus[k].dir \in Dirs /\ FirstBit(fmmus[k]) \in Nat
  <2>1. Apart(fmmus[k]) /\ Below(k)
    BY <1>2 DEF InsideInv, OutputsFirst, DisjointInv, BelowLimit, Dirs
  <2>2. LastBit(fmmus[k]) < Cursor
    BY <1>2, <2>1 DEF Below, LimitO, LimitI
  <2>3. /\ LastBit(fmmus[k]) \in Int /\ fmmus[k].dir \in Dirs
        /\ FirstBit(fmmus[k]) \in Nat
    BY <1>1, BitType, BitNat
  <2>4. LastBit(fmmus[k]) < 8 * (m.LogAddr + Padded)
    BY <1>3, <2>2, <2>3
  <2> QED
    BY <1>5, <2>1, <2>3, <2>4
<1>7. OutputsFirst'
  BY <1>2, <1>6 DEF OutputsFirst, Apart, LastBit, FirstBit
<1>8. MappingsLieInImage'
  <2> SUFFICES ASSUME NEW k \in 1 .. Len(fmmus), NEW f, f = fmmus[k]
               PROVE  /\ 8 * (IF f.dir = "I" THEN group'.Obytes ELSE 0)
                           <= FirstBit(f)
                      /\ LastBit(f) <
                           8 * ((IF f.dir = "I" THEN group'.Obytes ELSE 0)
                                + (IF f.dir = "O" THEN group'.Obytes
                                                  ELSE group'.Ibytes))
    BY <1>2 DEF MappingsLieInImage, LastBit, FirstBit
  <2>1. Apart(f) /\ FirstBit(f) \in Nat
        /\ LastBit(f) < 8 * (group'.Obytes + group'.Ibytes)
    BY <1>6
  <2>2. CASE f.dir = "O"
    <3>1. LastBit(f) < 8 * group'.Obytes
      BY <1>2, <2>1, <2>2 DEF Apart
    <3>2. 0 + group'.Obytes = group'.Obytes /\ 8 * 0 <= FirstBit(f)
      BY <1>2, <1>4, <2>1
    <3> QED
      BY <2>2, <3>1, <3>2
  <2>3. CASE f.dir = "I"
    BY <1>2, <2>1, <2>3 DEF Apart
  <2> QED
    BY <1>6, <2>2, <2>3 DEF Dirs
<1> QED
  BY <1>7, <1>8

\* The inputs of the last slave, in images that overlap.
LEMMA EndSlaveInputsInside ==
  ASSUME InsideInv, EndSlaveInputs PROVE OutputsFirst' /\ MappingsLieInImage'
<1>1. TypeInv /\ MapTyped /\ Advance
  BY DEF InsideInv, DisjointInv, TypeInv
<1> DEFINE si == m.LogAddr + Padded
           end == IF si > m.so THEN si ELSE m.so
<1>2. si = m.LogAddr + Padded /\ end = IF si > m.so THEN si ELSE m.so
  OBVIOUS
<1>3. Cursor <= 8 * si /\ Cursor \in Nat /\ si \in Nat
  BY <1>1, PaddedReaches
<1> HIDE DEF si, end
<1>4. /\ overlap /\ m.phase = "I" /\ UNCHANGED <<overlap, fmmus>>
      /\ \/ m'.phase = "O"
         \/ m'.phase = "mapped" /\ group'.Obytes = m.so /\ group'.Ibytes = si
  BY <1>1, <1>2, EndSlaveInputsFacts
<1>5. ASSUME m'.phase = "mapped", NEW k \in 1 .. Len(fmmus), NEW f, f = fmmus[k]
      PROVE  /\ 0 <= FirstBit(f)
             /\ f.dir = "O" => LastBit(f) < 8 * group'.Obytes
             /\ f.dir # "O" => LastBit(f) < 8 * group'.Ibytes
  <2>1. Below(k)
    BY <1>4 DEF InsideInv, DisjointInv, BelowLimit, Dirs
  <2>2. LastBit(f) < IF f.dir = "O" THEN 8 * m.so ELSE Cursor
    BY <1>4, <1>5, <2>1 DEF Below, LimitO, LimitI
  <2>3. LastBit(f) \in Int /\ FirstBit(f) \in Nat
    BY <1>1, <1>5, BitType, BitNat
  <2>4. group'.Obytes = m.so /\ group'.Ibytes = si
    BY <1>4, <1>5
  <2> QED
    BY <1>3, <2>2, <2>3, <2>4
<1>6. MappingsLieInImage'
  <2> SUFFICES ASSUME m'.phase = "mapped",
                      NEW k \in 1 .. Len(fmmus), NEW f, f = fmmus[k]
               PROVE  /\ 8 * 0 <= FirstBit(f)
                      /\ LastBit(f) < 8 * (0 + (IF f.dir = "O" THEN group'.Obytes
                                                               ELSE group'.Ibytes))
    BY <1>4 DEF MappingsLieInImage, LastBit, FirstBit
  <2>1. group'.Obytes \in Nat /\ group'.Ibytes \in Nat
    BY <1>1, <1>3, <1>4, LocalsType
  <2>2. /\ 0 + group'.Obytes = group'.Obytes /\ 0 + group'.Ibytes = group'.Ibytes
        /\ 8 * 0 = 0
    BY <2>1
  <2> QED
    BY <1>5, <2>2
<1> QED
  BY <1>4, <1>6 DEF OutputsFirst

\* Every step keeps the outputs before the inputs, and both in the image.
LEMMA NextInside ==
  ASSUME InsideInv, [Next]_vars PROVE InsideInv'
<1>1. DisjointInv' /\ MapTyped /\ Advance
  BY NextDisjoint DEF InsideInv, DisjointInv, TypeInv
<1>2. CASE CreateFMMU
  BY <1>1, <1>2, CreateInside DEF InsideInv
<1>3. CASE EndOutputs
  BY <1>1, <1>3, EndOutputsInside DEF InsideInv
<1>4. CASE EndInputs
  BY <1>1, <1>4, EndInputsInside DEF InsideInv
<1>5. CASE EndSlaveInputs
  BY <1>1, <1>5, EndSlaveInputsInside DEF InsideInv
<1>6. CASE EndSlave
  <2>1. /\ ~overlap /\ m.phase \in Dirs /\ m'.phase = m.phase
        /\ UNCHANGED <<overlap, fmmus, group>>
    BY <1>1, <1>6, EndSlaveFacts
  <2>2. OutputsFirst'
    BY <2>1 DEF InsideInv, OutputsFirst, Apart, LastBit, FirstBit
  <2> QED
    BY <1>1, <2>1, <2>2 DEF InsideInv, MappingsLieInImage, Dirs
<1>7. CASE EndSlaveOutputs
  <2>1. overlap /\ m'.phase = "I" /\ UNCHANGED <<overlap, fmmus>>
    BY <1>1, <1>7, EndSlaveOutputsFacts
  <2> QED
    BY <1>1, <2>1 DEF InsideInv, OutputsFirst, MappingsLieInImage
<1>8. CASE StartExchange \/ SendDatagram \/ ReceiveDatagram \/ EndExchange
             \/ UNCHANGED vars
  <2>1. UNCHANGED <<overlap, m, fmmus, group>>
    BY <1>8 DEF StartExchange, SendDatagram, ReceiveDatagram, EndExchange, vars
  <2>2. OutputsFirst'
    BY <2>1 DEF InsideInv, OutputsFirst, Apart, LastBit, FirstBit
  <2>3. MappingsLieInImage'
    BY <2>1 DEF InsideInv, MappingsLieInImage, LastBit, FirstBit
  <2> QED
    BY <1>1, <2>2, <2>3 DEF InsideInv
<1> QED
  BY <1>2, <1>3, <1>4, <1>5, <1>6, <1>7, <1>8 DEF Next

\* The image the mapping reports holds every FMMU, whatever the slaves have
\* and however many bits the last byte of a direction is left with
\* (ecx_config_map_group and ecx_config_overlap_map_group).
THEOREM MappingsAreInside == Spec => []MappingsLieInImage
<1>1. Init => InsideInv
  <2> SUFFICES ASSUME Init PROVE InsideInv
    OBVIOUS
  <2>1. Len(fmmus) = 0 /\ m.phase = "O"
    BY DEF Init, MIdle
  <2> QED
    BY <2>1, InitDisjoint DEF InsideInv, OutputsFirst, MappingsLieInImage
<1>2. InsideInv => MappingsLieInImage
  BY DEF InsideInv
<1> QED
  BY <1>1, <1>2, NextInside, PTL DEF Spec

\* The FMMUs share the image out, whatever the slaves have.
THEOREM ImageIsShared == Spec => []MappingsShareImage
<1>1. MappingsAreDisjoint /\ MappingsLieInImage => MappingsShareImage
  BY DEF MappingsShareImage
<1> QED
  BY <1>1, MappingsStayDisjoint, MappingsAreInside, PTL

-----------------------------------------------------------------------------
(* The segments.                                                           *)

(* The mapping has a segment left to close, or more than it can need.      *)
SegmentsFit ==
  m.currentsegment < EC_MAXIOSEGMENTS \/ 2 * N + 2 <= EC_MAXIOSEGMENTS

(* How many times bytes were accounted for, and what that makes of them.   *)
Accounts == IF overlap \/ m.phase = "O" THEN m.slave - 1 ELSE N + m.slave
FewSegments ==
  m.phase \in Dirs =>
    /\ m.currentsegment <= Accounts \/ m.currentsegment = 1
    /\ Accounts = 0 => m.segmentsize = 0

Summed ==
  /\ m.phase \in Dirs =>
       /\ Len(IOsegment) = m.currentsegment - 1
       /\ Total(IOsegment, m.currentsegment - 1) + m.segmentsize = Base
       /\ \A k \in 1 .. Len(IOsegment) : IOsegment[k] <= MaxSegment
       /\ m.segmentsize <= MaxSegment
  /\ m.phase \in {"I", "mapped"} /\ ~overlap =>
       group.Obytes = Total(IOsegment, group.Isegment - 1) + group.Ioffset
  /\ SegmentsMakeUpImage

SegmentsInv == TypeInv /\ FewSegments /\ (SegmentsFit => Summed)

\* The bytes accounted for are in the segments, unless none was left.
LEMMA GrownSum ==
  ASSUME MapTyped, NEW diff \in Nat, diff <= MaxSegment,
         NEW io, NEW cur, NEW size, Grown(diff, io, cur, size),
         cur < EC_MAXIOSEGMENTS \/ m.currentsegment < EC_MAXIOSEGMENTS,
         Len(IOsegment) = m.currentsegment - 1, m.segmentsize <= MaxSegment,
         \A k \in 1 .. Len(IOsegment) : IOsegment[k] <= MaxSegment
  PROVE  /\ io \in Seq(Nat) /\ cur \in Nat \ {0} /\ size \in Nat
         /\ m.currentsegment <= cur /\ Len(io) = cur - 1 /\ size <= MaxSegment
         /\ Total(io, cur - 1) + size
              = Total(IOsegment, m.currentsegment - 1) + m.segmentsize + diff
         /\ \A k \in 1 .. Len(io) : io[k] <= MaxSegment
         /\ \A n \in 0 .. m.currentsegment - 1 : Total(io, n) = Total(IOsegment, n)
<1>1. /\ m.segmentsize \in Nat /\ m.currentsegment \in Nat \ {0}
      /\ MaxSegment \in Nat /\ EC_MAXIOSEGMENTS \in Nat
      /\ IOsegment \in Seq(Nat) /\ io \in Seq(Nat)
  <2>1. /\ m.segmentsize \in Nat /\ m.currentsegment \in 1 .. EC_MAXIOSEGMENTS
        /\ MaxSegment \in Nat /\ EC_MAXIOSEGMENTS \in Nat
    BY LocalsType
  <2>2. IOsegment \in Seq(Nat) /\ io \in Seq(Nat)
    BY DEF MapTyped, Grown
  <2> QED
    BY <2>1, <2>2
<1> DEFINE n == m.currentsegment - 1
<1>2. n \in Nat /\ n + 1 = m.currentsegment /\ Len(IOsegment) = n
  BY <1>1
<1>3. Total(IOsegment, n) \in Nat
  <2>1. \A k \in 1 .. n : IOsegment[k] \in Nat
    BY <1>1, <1>2, ElementOfSeq
  <2> HIDE DEF n
  <2> QED
    BY <1>2, <2>1, TotalNat
<1>4. CASE m.segmentsize + diff <= MaxSegment
  <2>1. cur = m.currentsegment /\ size = m.segmentsize + diff /\ io = IOsegment
    BY <1>1, <1>4 DEF Grown
  <2> HIDE DEF n
  <2>2. cur - 1 = n
    BY <2>1 DEF n
  <2>3. Total(io, cur - 1) = Total(IOsegment, n)
    BY <2>1, <2>2
  <2>4. Total(io, cur - 1) + size = Total(IOsegment, n) + m.segmentsize + diff
    BY <1>1, <1>3, <2>1, <2>3
  <2>5. size \in Nat /\ size <= MaxSegment /\ cur \in Nat \ {0}
        /\ m.currentsegment <= cur /\ Len(io) = cur - 1
    BY <1>1, <1>4, <2>1
  <2> QED
    BY <1>1, <2>1, <2>4, <2>5 DEF n
<1>5. CASE m.segmentsize + diff > MaxSegment
  <2>1. /\ Len(io) = m.currentsegment /\ io[m.currentsegment] = m.segmentsize
        /\ \A k \in 1 .. n : io[k] = IOsegment[k]
        /\ cur = m.currentsegment + 1 /\ size = diff
    BY <1>1, <1>5, SMTT(30) DEF Grown
  <2> HIDE DEF n
  <2>2. \A k \in 0 .. n : Total(io, k) = Total(IOsegment, k)
    <3> SUFFICES ASSUME NEW k \in 0 .. n PROVE Total(io, k) = Total(IOsegment, k)
      OBVIOUS
    <3>1. k \in Nat /\ \A l \in 1 .. k : io[l] = IOsegment[l]
      BY <1>2, <2>1
    <3> QED
      BY <3>1, TotalSame
  <2>3. Total(io, n + 1) = Total(io, n) + io[n + 1]
    BY <1>2, TotalStep
  <2>4. n \in 0 .. n /\ cur - 1 = n + 1
    BY <1>2, <2>1
  <2>5. Total(io, cur - 1) = Total(IOsegment, n) + m.segmentsize
    <3>1. Total(io, n) = Total(IOsegment, n)
      BY <2>2, <2>4
    <3>2. io[n + 1] = m.segmentsize
      BY <1>2, <2>1
    <3> QED
      BY <2>3, <2>4, <3>1, <3>2
  <2>6. Total(io, cur - 1) + size = Total(IOsegment, n) + m.segmentsize + diff
    <3>1. size = diff /\ Total(IOsegment, n) \in Nat /\ m.segmentsize \in Nat
      BY <1>1, <1>3, <2>1
    <3> QED
      BY <2>5, <3>1
  <2>7. \A k \in 1 .. Len(io) : io[k] <= MaxSegment
    <3> SUFFICES ASSUME NEW k \in 1 .. n + 1 PROVE io[k] <= MaxSegment
      BY <1>2, <2>1
    <3>1. CASE k = n + 1
      BY <1>2, <2>1, <3>1
    <3>2. CASE k \in 1 .. n
      BY <1>2, <2>1, <3>2
    <3> QED
      BY <1>2, <3>1, <3>2
  <2>8. size \in Nat /\ size <= MaxSegment /\ cur \in Nat \ {0}
        /\ m.currentsegment <= cur /\ Len(io) = cur - 1
    <3> DEFINE c == m.currentsegment
    <3>1. c \in Nat \ {0} /\ cur = c + 1 /\ Len(io) = c
      BY <1>1, <2>1
    <3>2. size \in Nat /\ size <= MaxSegment
      BY <2>1
    <3> HIDE DEF c
    <3>3. cur \in Nat \ {0} /\ c <= cur /\ Len(io) = cur - 1
      BY <3>1
    <3> QED
      BY <3>2, <3>3 DEF c
  <2> QED
    BY <1>1, <2>2, <2>6, <2>7, <2>8 DEF n
<1> QED
  BY <1>1, <1>4, <1>5

\* The segments once the last of them is written.
LEMMA FinishedSum ==
  ASSUME NEW io \in Seq(Nat), NEW cur \in Nat \ {0}, NEW size \in Nat,
         Finished(io, cur, size), Len(io) = cur - 1, size <= MaxSegment,
         \A k \in 1 .. Len(io) : io[k] <= MaxSegment
  PROVE  /\ Len(IOsegment') = cur
         /\ Total(IOsegment', cur) = Total(io, cur - 1) + size
         /\ \A k \in 1 .. cur : IOsegment'[k] <= MaxSegment
         /\ \A n \in 0 .. cur - 1 : Total(IOsegment', n) = Total(io, n)
<1> DEFINE n == cur - 1
           s == IOsegment'
<1>1. n \in Nat /\ n + 1 = cur
  OBVIOUS
<1>2. /\ Len(s) = cur /\ s[cur] = size /\ \A k \in 1 .. n : s[k] = io[k]
  BY DEF Finished
<1> HIDE DEF n, s
<1>3. \A k \in 0 .. n : Total(s, k) = Total(io, k)
  <2> SUFFICES ASSUME NEW k \in 0 .. n PROVE Total(s, k) = Total(io, k)
    OBVIOUS
  <2>1. k \in Nat /\ \A l \in 1 .. k : s[l] = io[l]
    BY <1>1, <1>2
  <2> QED
    BY <2>1, TotalSame
<1>4. Total(s, n + 1) = Total(s, n) + s[n + 1]
  BY <1>1, TotalStep
<1>5. Total(s, cur) = Total(io, n) + size
  <2>1. n \in 0 .. n
    BY <1>1
  <2>2. Total(s, n) = Total(io, n)
    BY <1>3, <2>1
  <2> QED
    BY <1>1, <1>2, <1>4, <2>2
<1>6. \A k \in 1 .. cur : s[k] <= MaxSegment
  <2> SUFFICES ASSUME NEW k \in 1 .. cur PROVE s[k] <= MaxSegment
    OBVIOUS
  <2>1. k = cur \/ k \in 1 .. n
    BY <1>1
  <2>2. Len(io) = n
    BY DEF n
  <2> QED
    BY <1>2, <2>1, <2>2
<1> QED
  BY <1>2, <1>3, <1>5, <1>6 DEF n, s

\* One more account closes at most one segment, and the first none.
LEMMA GrownFew ==
  ASSUME MapTyped, NEW diff \in Nat, diff <= MaxSegment,
         NEW io, NEW cur, NEW size, Grown(diff, io, cur, size),
         NEW a \in Nat, m.currentsegment <= a \/ m.currentsegment = 1,
         a = 0 => m.segmentsize = 0, a <= 2 * N + 1
  PROVE  /\ cur <= a + 1 \/ cur = 1
         /\ cur < EC_MAXIOSEGMENTS \/ 2 * N + 2 <= EC_MAXIOSEGMENTS =>
              cur < EC_MAXIOSEGMENTS \/ m.currentsegment < EC_MAXIOSEGMENTS
         /\ cur < EC_MAXIOSEGMENTS => m.currentsegment < EC_MAXIOSEGMENTS
<1>1. /\ m.segmentsize \in Nat /\ m.currentsegment \in 1 .. EC_MAXIOSEGMENTS
      /\ MaxSegment \in Nat /\ EC_MAXIOSEGMENTS \in Nat /\ N \in Nat \ {0}
  BY LocalsType
<1>2. \/ cur = m.currentsegment
      \/ cur = m.currentsegment + 1 /\ m.segmentsize + diff > MaxSegment
  BY DEF Grown
<1>3. m.currentsegment \in Nat
  BY <1>1
<1>4. cur <= a + 1 \/ cur = 1
  BY <1>1, <1>2, <1>3
<1>5. cur < EC_MAXIOSEGMENTS => m.currentsegment < EC_MAXIOSEGMENTS
  BY <1>1, <1>2, <1>3
<1>6. 2 * N + 2 <= EC_MAXIOSEGMENTS => m.currentsegment < EC_MAXIOSEGMENTS
  BY <1>1, <1>3
<1> QED
  BY <1>4, <1>5, <1>6

\* How many bytes there are to account for.
LEMMA Differences ==
  ASSUME MapTyped, Advance, m.phase \in Dirs
  PROVE  /\ ~overlap => m.LogAddr - m.oLogAddr <= MaxSegment
         /\ Padded <= MaxSegment
         /\ overlap /\ m.phase = "I" =>
              (IF m.LogAddr + Padded > m.so THEN m.LogAddr + Padded ELSE m.so)
                - m.start <= MaxSegment
<1>1. /\ N \in Nat \ {0} /\ m.slave \in 1 .. N + 1
      /\ m.start \in Nat /\ m.so \in Nat /\ m.LogAddr \in Nat
      /\ m.oLogAddr \in Nat /\ Padded \in {0, 1}
      /\ MaxSegment \in Nat \ {0}
  BY LocalsType
<1>2. ~overlap => m.LogAddr - m.oLogAddr <= MaxSegment
  <2> SUFFICES ASSUME ~overlap PROVE m.LogAddr - m.oLogAddr <= MaxSegment
    OBVIOUS
  <2>1. CASE m.slave <= N
    <3> DEFINE of == BytesOf(Bits(m.slave, m.phase))
    <3>1. m.LogAddr + Padded <= m.oLogAddr + of + 1
      BY <2>1 DEF Advance, Base
    <3>2. of \in Nat /\ of + 1 <= MaxSegment
      <4>1. m.slave \in 1 .. N
        BY <1>1, <2>1
      <4> QED
        BY <4>1, KindType
    <3> HIDE DEF of
    <3> QED
      BY <1>1, <3>1, <3>2
  <2>2. CASE m.slave > N
    <3>1. m.LogAddr = m.oLogAddr
      BY <2>2 DEF Advance
    <3> QED
      BY <1>1, <3>1
  <2> QED
    BY <1>1, <2>1, <2>2
<1>3. Padded <= MaxSegment
  BY <1>1
<1>4. ASSUME overlap, m.phase = "I", NEW end,
             end = IF m.LogAddr + Padded > m.so THEN m.LogAddr + Padded ELSE m.so
      PROVE  end - m.start <= MaxSegment
  <2> DEFINE ofI == BytesOf(Bits(m.slave, "I"))
             ofO == BytesOf(Bits(m.slave, "O"))
  <2>1. m.slave \in 1 .. N
    BY <1>1, <1>4 DEF Advance
  <2>2. /\ m.LogAddr + Padded <= m.start + ofI + 1
        /\ m.so <= m.start + ofO + 1
    BY <1>1, <1>4, <2>1 DEF Advance, Base
  <2>3. ofI \in Nat /\ ofO \in Nat /\ ofI + 1 <= MaxSegment /\ ofO + 1 <= MaxSegment
    BY <2>1, KindType DEF Dirs
  <2> HIDE DEF ofI, ofO
  <2> QED
    BY <1>1, <1>4, <2>2, <2>3
<1> QED
  BY <1>2, <1>3, <1>4

\* A segment that is closed was counted, and so were the bytes in it.
LEMMA AccountsType ==
  ASSUME MapTyped
  PROVE  Accounts \in Nat /\ Accounts <= 2 * N + 1
BY LocalsType DEF Accounts

\* What the sums say while the mapping goes on.
LEMMA SummedFacts ==
  ASSUME SegmentsInv, m.phase \in Dirs, SegmentsFit
  PROVE  /\ Len(IOsegment) = m.currentsegment - 1
         /\ Total(IOsegment, m.currentsegment - 1) + m.segmentsize = Base
         /\ \A k \in 1 .. Len(IOsegment) : IOsegment[k] <= MaxSegment
         /\ m.segmentsize <= MaxSegment
         /\ m.phase = "I" /\ ~overlap =>
              group.Obytes = Total(IOsegment, group.Isegment - 1) + group.Ioffset
         /\ group.Isegment - 1 \in 0 .. m.currentsegment - 1
<1>1. group.Isegment <= m.currentsegment
  BY DEF SegmentsInv, TypeInv, Indices
<1>2. m.currentsegment \in 1 .. EC_MAXIOSEGMENTS
  BY LocalsType DEF SegmentsInv, TypeInv
<1>3. group.Isegment \in Nat \ {0}
  BY ResultsType DEF SegmentsInv
<1>4. group.Isegment - 1 \in 0 .. m.currentsegment - 1
  BY <1>1, <1>2, <1>3
<1> QED
  BY <1>4 DEF SegmentsInv, Summed

\* The segments still add up after a slave's outputs or inputs,
LEMMA EndSlaveSegments ==
  ASSUME SegmentsInv, EndSlave
  PROVE  FewSegments' /\ (SegmentsFit' => Summed')
<1> DEFINE diff == m.LogAddr - m.oLogAddr
           a == Accounts
<1>1. MapTyped /\ Advance
  BY DEF SegmentsInv, TypeInv
<1>2. /\ ~overlap /\ m.phase \in Dirs /\ m.slave <= N
      /\ diff \in Nat /\ m'.phase = m.phase /\ m'.slave = m.slave + 1
      /\ m'.oLogAddr = m.LogAddr
      /\ Grown(diff, IOsegment', m'.currentsegment, m'.segmentsize)
      /\ UNCHANGED <<slaves, overlap, group>>
  BY <1>1, EndSlaveFacts
<1>3. diff <= MaxSegment
  BY <1>1, <1>2, Differences
<1>4. m.LogAddr \in Nat /\ m.oLogAddr \in Nat /\ m.slave \in Nat /\ N \in Nat
  BY <1>1, LocalsType
<1>a. m.oLogAddr + diff = m.LogAddr
  BY <1>4
<1>5. a \in Nat /\ a <= 2 * N + 1
  BY <1>1, AccountsType
<1>6. Accounts' = a + 1
  BY <1>2, <1>4 DEF Accounts
<1>7. /\ m.currentsegment <= a \/ m.currentsegment = 1
      /\ a = 0 => m.segmentsize = 0
  BY <1>2 DEF SegmentsInv, FewSegments
<1> HIDE DEF diff, a
<1>8. /\ m'.currentsegment <= a + 1 \/ m'.currentsegment = 1
      /\ m'.currentsegment < EC_MAXIOSEGMENTS \/ 2 * N + 2 <= EC_MAXIOSEGMENTS =>
           m'.currentsegment < EC_MAXIOSEGMENTS \/ m.currentsegment < EC_MAXIOSEGMENTS
      /\ m'.currentsegment < EC_MAXIOSEGMENTS => m.currentsegment < EC_MAXIOSEGMENTS
  BY <1>1, <1>2, <1>3, <1>5, <1>7, GrownFew
<1>9. FewSegments'
  BY <1>5, <1>6, <1>8 DEF FewSegments
<1>10. ASSUME SegmentsFit' PROVE Summed'
  <2>1. SegmentsFit
    BY <1>8, <1>10 DEF SegmentsFit
  <2>2. /\ Len(IOsegment) = m.currentsegment - 1
        /\ Total(IOsegment, m.currentsegment - 1) + m.segmentsize = m.oLogAddr
        /\ \A k \in 1 .. Len(IOsegment) : IOsegment[k] <= MaxSegment
        /\ m.segmentsize <= MaxSegment
        /\ m.phase = "I" =>
             group.Obytes = Total(IOsegment, group.Isegment - 1) + group.Ioffset
        /\ group.Isegment - 1 \in 0 .. m.currentsegment - 1
    BY <1>2, <2>1, SummedFacts DEF Base
  <2>3. m'.currentsegment < EC_MAXIOSEGMENTS \/ m.currentsegment < EC_MAXIOSEGMENTS
    BY <1>8, <1>10 DEF SegmentsFit
  <2>4. /\ Len(IOsegment') = m'.currentsegment - 1
        /\ m'.segmentsize <= MaxSegment
        /\ Total(IOsegment', m'.currentsegment - 1) + m'.segmentsize
             = Total(IOsegment, m.currentsegment - 1) + m.segmentsize + diff
        /\ \A k \in 1 .. Len(IOsegment') : IOsegment'[k] <= MaxSegment
        /\ \A n \in 0 .. m.currentsegment - 1 :
             Total(IOsegment', n) = Total(IOsegment, n)
    BY <1>1, <1>2, <1>3, <2>2, <2>3, GrownSum
  <2>5. Total(IOsegment', group.Isegment - 1) = Total(IOsegment, group.Isegment - 1)
    BY <2>2, <2>4
  <2>6. Base' = m.LogAddr
    BY <1>2 DEF Base
  <2>7. Total(IOsegment', m'.currentsegment - 1) + m'.segmentsize = Base'
    BY <1>a, <2>2, <2>4, <2>6
  <2> QED
    BY <1>2, <2>2, <2>4, <2>5, <2>7 DEF Summed, SegmentsMakeUpImage, Dirs
<1> QED
  BY <1>9, <1>10

\* after all outputs,
LEMMA EndOutputsSegments ==
  ASSUME SegmentsInv, EndOutputs
  PROVE  FewSegments' /\ (SegmentsFit' => Summed')
<1> DEFINE a == Accounts
<1>1. MapTyped /\ Advance
  BY DEF SegmentsInv, TypeInv
<1>2. /\ ~overlap /\ m.phase = "O" /\ m.slave = N + 1
      /\ m'.phase = "I" /\ m'.slave = 1
      /\ m'.oLogAddr = m.LogAddr + Padded
      /\ Grown(Padded, IOsegment', m'.currentsegment, m'.segmentsize)
      /\ group'.Obytes = m.LogAddr + Padded
      /\ group'.Isegment = m'.currentsegment
      /\ group'.Ioffset = m'.segmentsize
      /\ UNCHANGED <<slaves, overlap>>
  BY <1>1, EndOutputsFacts
<1>3. Padded \in Nat /\ Padded <= MaxSegment
  BY <1>1, <1>2, LocalsType, Differences DEF Dirs
<1>4. m.LogAddr \in Nat /\ m.oLogAddr \in Nat /\ N \in Nat
      /\ m.oLogAddr = m.LogAddr
  <2>1. m.LogAddr \in Nat /\ m.oLogAddr \in Nat /\ N \in Nat
    BY <1>1, LocalsType
  <2>2. m.slave > N
    BY <1>2, <2>1
  <2> QED
    BY <1>1, <1>2, <2>1, <2>2 DEF Advance, Dirs
<1>5. a \in Nat /\ a <= 2 * N + 1 /\ a = N
  BY <1>1, <1>2, <1>4, AccountsType DEF Accounts
<1>6. Accounts' = a + 1
  BY <1>2, <1>4, <1>5 DEF Accounts
<1>7. /\ m.currentsegment <= a \/ m.currentsegment = 1
      /\ a = 0 => m.segmentsize = 0
  BY <1>2 DEF SegmentsInv, FewSegments, Dirs
<1> HIDE DEF a
<1>8. /\ m'.currentsegment <= a + 1 \/ m'.currentsegment = 1
      /\ m'.currentsegment < EC_MAXIOSEGMENTS \/ 2 * N + 2 <= EC_MAXIOSEGMENTS =>
           m'.currentsegment < EC_MAXIOSEGMENTS \/ m.currentsegment < EC_MAXIOSEGMENTS
      /\ m'.currentsegment < EC_MAXIOSEGMENTS => m.currentsegment < EC_MAXIOSEGMENTS
  BY <1>1, <1>2, <1>3, <1>5, <1>7, GrownFew
<1>9. FewSegments'
  BY <1>5, <1>6, <1>8 DEF FewSegments
<1>10. ASSUME SegmentsFit' PROVE Summed'
  <2>1. SegmentsFit
    BY <1>8, <1>10 DEF SegmentsFit
  <2>2. /\ Len(IOsegment) = m.currentsegment - 1
        /\ Total(IOsegment, m.currentsegment - 1) + m.segmentsize = m.oLogAddr
        /\ \A k \in 1 .. Len(IOsegment) : IOsegment[k] <= MaxSegment
        /\ m.segmentsize <= MaxSegment
    BY <1>2, <2>1, SummedFacts DEF Base, Dirs
  <2>3. m'.currentsegment < EC_MAXIOSEGMENTS \/ m.currentsegment < EC_MAXIOSEGMENTS
    BY <1>8, <1>10 DEF SegmentsFit
  <2>4. /\ Len(IOsegment') = m'.currentsegment - 1
        /\ m'.segmentsize <= MaxSegment
        /\ Total(IOsegment', m'.currentsegment - 1) + m'.segmentsize
             = Total(IOsegment, m.currentsegment - 1) + m.segmentsize + Padded
        /\ \A k \in 1 .. Len(IOsegment') : IOsegment'[k] <= MaxSegment
    BY <1>1, <1>2, <1>3, <2>2, <2>3, GrownSum
  <2>6. Base' = m.LogAddr + Padded
    BY <1>2 DEF Base
  <2>7. Total(IOsegment', m'.currentsegment - 1) + m'.segmentsize = Base'
    BY <1>4, <2>2, <2>4, <2>6
  <2>8. group'.Obytes = Total(IOsegment', group'.Isegment - 1) + group'.Ioffset
    BY <1>2, <2>6, <2>7
  <2> QED
    BY <1>2, <2>4, <2>7, <2>8 DEF Summed, SegmentsMakeUpImage, Dirs
<1> QED
  BY <1>9, <1>10

\* after all inputs,
LEMMA EndInputsSegments ==
  ASSUME SegmentsInv, EndInputs
  PROVE  FewSegments' /\ (SegmentsFit' => Summed')
<1> DEFINE a == Accounts
           cur == m'.currentsegment
           size == m'.segmentsize
<1>1. MapTyped /\ Advance
  BY DEF SegmentsInv, TypeInv
<1>2. /\ ~overlap /\ m.phase = "I" /\ m.slave = N + 1
      /\ m'.phase = "mapped"
      /\ group'.Obytes = group.Obytes
      /\ group'.Ibytes = (m.LogAddr + Padded) - group.Obytes
      /\ group'.nsegments = cur
      /\ group'.Isegment = group.Isegment
      /\ group'.Ioffset = group.Ioffset
      /\ UNCHANGED <<slaves, overlap>>
  BY <1>1, EndInputsFacts
<1>b. PICK io : Grown(Padded, io, cur, size) /\ Finished(io, cur, size)
  BY <1>1, EndInputsFacts
<1>3. Padded \in Nat /\ Padded <= MaxSegment
  BY <1>1, <1>2, LocalsType, Differences DEF Dirs
<1>4. m.LogAddr \in Nat /\ m.oLogAddr \in Nat /\ N \in Nat
      /\ m.oLogAddr = m.LogAddr /\ group.Obytes \in Nat
  <2>1. m.LogAddr \in Nat /\ m.oLogAddr \in Nat /\ N \in Nat
    BY <1>1, LocalsType
  <2>2. m.slave > N
    BY <1>2, <2>1
  <2>3. group.Obytes \in Nat
    BY ResultsType DEF SegmentsInv
  <2> QED
    BY <1>1, <1>2, <2>1, <2>2, <2>3 DEF Advance, Dirs
<1>5. a \in Nat /\ a <= 2 * N + 1
  BY <1>1, AccountsType
<1>7. /\ m.currentsegment <= a \/ m.currentsegment = 1
      /\ a = 0 => m.segmentsize = 0
  BY <1>2 DEF SegmentsInv, FewSegments, Dirs
<1> HIDE DEF a, cur, size
<1>8. /\ cur < EC_MAXIOSEGMENTS \/ 2 * N + 2 <= EC_MAXIOSEGMENTS =>
           cur < EC_MAXIOSEGMENTS \/ m.currentsegment < EC_MAXIOSEGMENTS
      /\ cur < EC_MAXIOSEGMENTS => m.currentsegment < EC_MAXIOSEGMENTS
  BY <1>1, <1>b, <1>3, <1>5, <1>7, GrownFew
<1>9. FewSegments'
  BY <1>2 DEF FewSegments, Dirs
<1>10. ASSUME SegmentsFit' PROVE Summed'
  <2>0. cur < EC_MAXIOSEGMENTS \/ 2 * N + 2 <= EC_MAXIOSEGMENTS
    BY <1>10 DEF SegmentsFit, cur
  <2>1. SegmentsFit
    BY <1>8, <2>0 DEF SegmentsFit
  <2>2. /\ Len(IOsegment) = m.currentsegment - 1
        /\ Total(IOsegment, m.currentsegment - 1) + m.segmentsize = m.oLogAddr
        /\ \A k \in 1 .. Len(IOsegment) : IOsegment[k] <= MaxSegment
        /\ m.segmentsize <= MaxSegment
        /\ group.Obytes = Total(IOsegment, group.Isegment - 1) + group.Ioffset
        /\ group.Isegment - 1 \in 0 .. m.currentsegment - 1
    BY <1>2, <2>1, SummedFacts DEF Base, Dirs
  <2>4. /\ io \in Seq(Nat) /\ cur \in Nat \ {0} /\ size \in Nat
        /\ m.currentsegment <= cur
        /\ Len(io) = cur - 1 /\ size <= MaxSegment
        /\ Total(io, cur - 1) + size
             = Total(IOsegment, m.currentsegment - 1) + m.segmentsize + Padded
        /\ \A k \in 1 .. Len(io) : io[k] <= MaxSegment
        /\ \A n \in 0 .. m.currentsegment - 1 : Total(io, n) = Total(IOsegment, n)
    BY <1>1, <1>b, <1>3, <1>8, <2>0, <2>2, GrownSum
  <2>5. /\ Len(IOsegment') = cur
        /\ Total(IOsegment', cur) = Total(io, cur - 1) + size
        /\ \A k \in 1 .. cur : IOsegment'[k] <= MaxSegment
        /\ \A n \in 0 .. cur - 1 : Total(IOsegment', n) = Total(io, n)
    BY <1>b, <2>4, FinishedSum
  <2>6. Total(IOsegment', cur) = m.LogAddr + Padded
    BY <1>4, <2>2, <2>4, <2>5
  <2>7. Size' = m.LogAddr + Padded
    <3>1. Size' = group.Obytes + ((m.LogAddr + Padded) - group.Obytes)
      BY <1>2 DEF Size
    <3> QED
      BY <1>3, <1>4, <3>1
  <2>8. group'.Obytes = Total(IOsegment', group'.Isegment - 1) + group'.Ioffset
    <3> DEFINE n == group.Isegment - 1
    <3>1. n \in 0 .. m.currentsegment - 1
      BY <2>2
    <3>2. n \in 0 .. cur - 1
      <4>1. m.currentsegment \in Nat
        BY <1>1, LocalsType
      <4> HIDE DEF n
      <4> QED
        BY <2>4, <3>1, <4>1
    <3>3. Total(IOsegment', n) = Total(IOsegment, n)
      BY <2>4, <2>5, <3>1, <3>2
    <3> QED
      BY <1>2, <2>2, <3>3
  <2>9. SegmentsMakeUpImage'
    BY <1>2, <2>5, <2>6, <2>7 DEF SegmentsMakeUpImage
  <2> QED
    BY <1>2, <2>8, <2>9 DEF Summed, Dirs
<1> QED
  BY <1>9, <1>10

\* after the outputs of a slave with overlapping images,
LEMMA EndSlaveOutputsSegments ==
  ASSUME SegmentsInv, EndSlaveOutputs
  PROVE  FewSegments' /\ (SegmentsFit' => Summed')
<1>1. MapTyped /\ Advance
  BY DEF SegmentsInv, TypeInv
<1>2. /\ overlap /\ m.phase = "O" /\ m'.phase = "I" /\ m'.slave = m.slave
      /\ m'.start = m.start
      /\ m'.currentsegment = m.currentsegment
      /\ m'.segmentsize = m.segmentsize
      /\ UNCHANGED <<overlap, IOsegment, group>>
  BY <1>1, EndSlaveOutputsFacts
<1>3. Accounts' = Accounts /\ Base' = Base /\ SegmentsFit' = SegmentsFit
  BY <1>2 DEF Accounts, Base, SegmentsFit
<1>4. FewSegments'
  BY <1>2, <1>3 DEF SegmentsInv, FewSegments, Dirs
<1>5. ASSUME SegmentsFit' PROVE Summed'
  <2>1. /\ Len(IOsegment) = m.currentsegment - 1
        /\ Total(IOsegment, m.currentsegment - 1) + m.segmentsize = Base
        /\ \A k \in 1 .. Len(IOsegment) : IOsegment[k] <= MaxSegment
        /\ m.segmentsize <= MaxSegment
    BY <1>2, <1>3, <1>5, SummedFacts DEF Dirs
  <2> QED
    BY <1>2, <1>3, <2>1 DEF Summed, SegmentsMakeUpImage
<1> QED
  BY <1>4, <1>5

\* and after its inputs.
LEMMA EndSlaveInputsSegments ==
  ASSUME SegmentsInv, EndSlaveInputs
  PROVE  FewSegments' /\ (SegmentsFit' => Summed')
<1> DEFINE a == Accounts
           cur == m'.currentsegment
           size == m'.segmentsize
           si == m.LogAddr + Padded
           end == IF si > m.so THEN si ELSE m.so
           diff == end - m.start
<1>1. MapTyped /\ Advance
  BY DEF SegmentsInv, TypeInv
<1>a. si = m.LogAddr + Padded /\ end = IF si > m.so THEN si ELSE m.so
  OBVIOUS
<1>b. overlap /\ m.phase = "I" => diff <= MaxSegment
  BY <1>1, Differences DEF Dirs
<1> HIDE DEF si, end
<1>2. /\ overlap /\ m.phase = "I" /\ m.slave <= N
      /\ si \in Nat /\ end \in Nat /\ diff \in Nat
      /\ m'.slave = m.slave + 1 /\ m'.start = end
      /\ UNCHANGED <<slaves, overlap>>
      /\ \/ /\ m'.phase = "O" /\ group' = group
            /\ Grown(diff, IOsegment', cur, size)
         \/ /\ m'.phase = "mapped"
            /\ group'.Obytes = m.so /\ group'.Ibytes = si
            /\ group'.nsegments = cur
            /\ \E io : Grown(diff, io, cur, size) /\ Finished(io, cur, size)
  BY <1>1, <1>a, EndSlaveInputsFacts
<1>3. diff <= MaxSegment
  BY <1>b, <1>2
<1>4. m.start \in Nat /\ m.so \in Nat /\ m.slave \in Nat /\ N \in Nat
  BY <1>1, LocalsType
<1>c. m.start + diff = end
  BY <1>2, <1>4
<1>5. a \in Nat /\ a <= 2 * N + 1
  BY <1>1, AccountsType
<1>6. m'.phase = "O" => Accounts' = a + 1
  BY <1>2, <1>4 DEF Accounts
<1>7. /\ m.currentsegment <= a \/ m.currentsegment = 1
      /\ a = 0 => m.segmentsize = 0
  BY <1>2 DEF SegmentsInv, FewSegments, Dirs
<1> HIDE DEF a, cur, size, diff
<1>d. PICK io : /\ Grown(diff, io, cur, size)
                /\ m'.phase = "O" => io = IOsegment'
                /\ m'.phase = "mapped" => Finished(io, cur, size)
  BY <1>2
<1>8. /\ cur <= a + 1 \/ cur = 1
      /\ cur < EC_MAXIOSEGMENTS \/ 2 * N + 2 <= EC_MAXIOSEGMENTS =>
           cur < EC_MAXIOSEGMENTS \/ m.currentsegment < EC_MAXIOSEGMENTS
      /\ cur < EC_MAXIOSEGMENTS => m.currentsegment < EC_MAXIOSEGMENTS
  BY <1>1, <1>2, <1>d, <1>3, <1>5, <1>7, GrownFew
<1>9. FewSegments'
  BY <1>2, <1>5, <1>6, <1>8 DEF FewSegments, Dirs, cur
<1>10. ASSUME SegmentsFit' PROVE Summed'
  <2>0. cur < EC_MAXIOSEGMENTS \/ 2 * N + 2 <= EC_MAXIOSEGMENTS
    BY <1>10 DEF SegmentsFit, cur
  <2>1. SegmentsFit
    BY <1>8, <2>0 DEF SegmentsFit
  <2>2. /\ Len(IOsegment) = m.currentsegment - 1
        /\ Total(IOsegment, m.currentsegment - 1) + m.segmentsize = m.start
        /\ \A k \in 1 .. Len(IOsegment) : IOsegment[k] <= MaxSegment
        /\ m.segmentsize <= MaxSegment
    BY <1>2, <2>1, SummedFacts DEF Base, Dirs
  <2>4. /\ io \in Seq(Nat) /\ cur \in Nat \ {0} /\ size \in Nat
        /\ Len(io) = cur - 1 /\ size <= MaxSegment
        /\ Total(io, cur - 1) + size
             = Total(IOsegment, m.currentsegment - 1) + m.segmentsize + diff
        /\ \A k \in 1 .. Len(io) : io[k] <= MaxSegment
    BY <1>1, <1>2, <1>d, <1>3, <1>8, <2>0, <2>2, GrownSum
  <2>5. Total(io, cur - 1) + size = end
    BY <1>c, <2>2, <2>4
  <2>6. CASE m'.phase = "O"
    <3>1. /\ Len(IOsegment') = cur - 1 /\ Base' = end
          /\ Total(IOsegment', cur - 1) + size = end
          /\ \A k \in 1 .. Len(IOsegment') : IOsegment'[k] <= MaxSegment
      BY <1>2, <1>d, <2>4, <2>5, <2>6 DEF Base
    <3> QED
      BY <1>2, <2>4, <2>6, <3>1
         DEF Summed, SegmentsMakeUpImage, Dirs, cur, size
  <2>7. CASE m'.phase = "mapped"
    <3>1. /\ Len(IOsegment') = cur
          /\ Total(IOsegment', cur) = Total(io, cur - 1) + size
          /\ \A k \in 1 .. cur : IOsegment'[k] <= MaxSegment
      BY <1>d, <2>4, <2>7, FinishedSum
    <3>2. /\ group'.Obytes = m.so /\ group'.Ibytes = si
          /\ group'.nsegments = cur
      BY <1>2, <2>7
    <3>3. Size' = end
      <4>1. Size' = IF m.so > si THEN m.so ELSE si
        BY <1>2, <3>2 DEF Size
      <4> QED
        BY <1>2, <1>4, <1>a, <4>1
    <3>4. SegmentsMakeUpImage'
      BY <2>5, <3>1, <3>2, <3>3 DEF SegmentsMakeUpImage
    <3> QED
      BY <1>2, <2>7, <3>4 DEF Summed, Dirs
  <2> QED
    BY <1>2, <2>6, <2>7
<1> QED
  BY <1>9, <1>10

\* Every step keeps the sums.
LEMMA NextSegments ==
  ASSUME SegmentsInv, [Next]_vars PROVE SegmentsInv'
<1>1. TypeInv /\ MapTyped /\ Advance /\ TypeInv'
  BY NextTyped DEF SegmentsInv, TypeInv
<1>2. CASE EndSlave \/ EndOutputs \/ EndInputs \/ EndSlaveOutputs \/ EndSlaveInputs
  BY <1>1, <1>2, EndSlaveSegments, EndOutputsSegments, EndInputsSegments,
     EndSlaveOutputsSegments, EndSlaveInputsSegments DEF SegmentsInv
<1>3. CASE CreateFMMU
  <2>1. PICK f, shared, last : Created(f, shared, last) /\ Placed(f)
    BY <1>1, <1>3, CreateFacts
  <2>2. /\ m'.phase = m.phase /\ m'.slave = m.slave
        /\ m'.start = m.start /\ m'.oLogAddr = m.oLogAddr
        /\ m'.currentsegment = m.currentsegment
        /\ m'.segmentsize = m.segmentsize
        /\ group'.Obytes = group.Obytes /\ group'.Isegment = group.Isegment
        /\ group'.Ioffset = group.Ioffset
    BY <1>1, <2>1, CreatedFacts
  <2>3. m.phase \in Dirs /\ UNCHANGED <<overlap, IOsegment>>
    BY <2>1 DEF Created
  <2>4. Accounts' = Accounts /\ Base' = Base /\ SegmentsFit' = SegmentsFit
    BY <2>2, <2>3 DEF Accounts, Base, SegmentsFit
  <2>5. FewSegments'
    BY <2>2, <2>4 DEF SegmentsInv, FewSegments
  <2>6. ASSUME SegmentsFit' PROVE Summed'
    <3>1. Summed /\ m'.phase # "mapped"
      BY <2>2, <2>3, <2>4, <2>6 DEF SegmentsInv, Dirs
    <3> QED
      BY <2>2, <2>3, <2>4, <3>1 DEF Summed, SegmentsMakeUpImage
  <2> QED
    BY <1>1, <2>5, <2>6 DEF SegmentsInv
<1>4. CASE StartExchange \/ SendDatagram \/ ReceiveDatagram \/ EndExchange
             \/ UNCHANGED vars
  <2>1. UNCHANGED <<overlap, m, IOsegment, group>>
    BY <1>4 DEF StartExchange, SendDatagram, ReceiveDatagram, EndExchange, vars
  <2> QED
    BY <1>1, <2>1, SMTT(30)
       DEF SegmentsInv, FewSegments, Accounts, SegmentsFit, Summed, Base,
           SegmentsMakeUpImage, Size
<1> QED
  BY <1>2, <1>3, <1>4 DEF Next

\* There are no segments at first.
LEMMA InitSegments ==
  ASSUME Init PROVE SegmentsInv
<1>1. /\ m.phase = "O" /\ m.slave = 1 /\ m.currentsegment = 1
      /\ m.segmentsize = 0 /\ m.start = 0 /\ m.oLogAddr = 0
      /\ IOsegment = <<>> /\ Len(IOsegment) = 0
  BY DEF Init, MIdle
<1>2. Total(IOsegment, 0) = 0 /\ 1 - 1 = 0
  BY TotalStep
<1>3. FewSegments
  BY <1>1 DEF FewSegments
<1>4. Base = 0 /\ MaxSegment \in Nat
  BY <1>1, IOMapAssumption DEF Base
<1>5. Summed
  BY <1>1, <1>2, <1>4 DEF Summed, SegmentsMakeUpImage
<1> QED
  BY <1>3, <1>5, InitTyped DEF SegmentsInv

\* The segments add up in every state.
LEMMA AlwaysSegments == Spec => []SegmentsInv
BY InitSegments, NextSegments, PTL DEF Spec

\* The segments make up the process image, unless the mapping came to the
\* last one there is: that one the code cannot follow by another
\* (ecx_config_map_group, ecx_config_overlap_map_group).
THEOREM SegmentsAreTheImage == Spec => [](SegmentsFit => SegmentsMakeUpImage)
<1>1. SegmentsInv => (SegmentsFit => SegmentsMakeUpImage)
  BY DEF SegmentsInv, Summed
<1> QED
  BY <1>1, AlwaysSegments, PTL

\* The slaves do not come to the last segment when there are enough: with the
\* 64 of EC_MAXIOSEGMENTS, up to 31 slaves do not.
COROLLARY EnoughSegments ==
  ASSUME 2 * N + 2 <= EC_MAXIOSEGMENTS PROVE Spec => []SegmentsMakeUpImage
<1>1. SegmentsInv => SegmentsMakeUpImage
  BY DEF SegmentsInv, Summed, SegmentsFit
<1> QED
  BY <1>1, AlwaysSegments, PTL

-----------------------------------------------------------------------------
(* The datagrams.                                                          *)

(* From the a-th on, and only there, the datagrams fr are of the commands  *)
(* cmds; they go from first to last without a gap.                         *)
Block(fr, a, cmds, first, last) ==
  /\ a \in 1 .. Len(fr) + 1
  /\ \A k \in 1 .. Len(fr) : fr[k].cmd \in cmds <=> a <= k
  /\ a = Len(fr) + 1 => first = last
  /\ a <= Len(fr) => /\ fr[a].start = first
                     /\ fr[Len(fr)].start + fr[Len(fr)].length = last
  /\ \A k \in a .. Len(fr) - 1 : fr[k + 1].start = fr[k].start + fr[k].length

CoversOf(fr, cmds, first, last) ==
  \E a, b \in 1 .. Len(fr) :
    /\ a <= b
    /\ \A k \in 1 .. Len(fr) : fr[k].cmd \in cmds <=> k \in a .. b
    /\ fr[a].start = first
    /\ fr[b].start + fr[b].length = last
    /\ \A k \in a .. b - 1 : fr[k + 1].start = fr[k].start + fr[k].length

\* A block goes on with the next datagram.
LEMMA BlockGrows ==
  ASSUME NEW fr \in Seq(Datagram), NEW d \in Datagram, NEW cmds, d.cmd \in cmds,
         NEW a, NEW first, NEW last, Block(fr, a, cmds, first, last),
         d.start = last, NEW fr2, fr2 = Append(fr, d),
         NEW last2, last2 = last + d.length
  PROVE  Block(fr2, a, cmds, first, last2) /\ a <= Len(fr2)
<1> DEFINE n == Len(fr)
<1>1. /\ n \in Nat /\ Len(fr2) = n + 1 /\ fr2[n + 1] = d
      /\ \A k \in 1 .. n : fr2[k] = fr[k]
  BY AppendProperties
<1>2. /\ a \in 1 .. n + 1
      /\ \A k \in 1 .. n : fr[k].cmd \in cmds <=> a <= k
      /\ a = n + 1 => first = last
      /\ a <= n => fr[a].start = first /\ fr[n].start + fr[n].length = last
      /\ \A k \in a .. n - 1 : fr[k + 1].start = fr[k].start + fr[k].length
  BY DEF Block
<1> HIDE DEF n
<1>3. \A k \in 1 .. n + 1 : fr2[k].cmd \in cmds <=> a <= k
  <2> SUFFICES ASSUME NEW k \in 1 .. n + 1
               PROVE  fr2[k].cmd \in cmds <=> a <= k
    OBVIOUS
  <2>1. k = n + 1 \/ k \in 1 .. n
    BY <1>1
  <2> QED
    BY <1>1, <1>2, <2>1
<1>4. fr2[a].start = first /\ a \in Nat /\ a <= n + 1
  <2>1. a = n + 1 \/ a \in 1 .. n
    BY <1>1, <1>2
  <2>2. a \in Nat /\ a <= n + 1
    BY <1>1, <1>2
  <2>3. CASE a = n + 1
    BY <1>1, <1>2, <2>2, <2>3
  <2>4. CASE a \in 1 .. n
    BY <1>1, <1>2, <2>2, <2>4
  <2> QED
    BY <2>1, <2>3, <2>4
<1>5. fr2[n + 1].start + fr2[n + 1].length = last2
  BY <1>1
<1>6. ASSUME NEW k \in a .. n PROVE fr2[k + 1].start = fr2[k].start + fr2[k].length
  <2>1. k \in 1 .. n
    BY <1>1, <1>2
  <2>2. CASE k = n
    BY <1>1, <1>2, <2>1, <2>2
  <2>3. CASE k # n
    <3>1. k \in a .. n - 1 /\ k + 1 \in 1 .. n
      BY <1>1, <1>4, <2>1, <2>3
    <3> QED
      BY <1>1, <1>2, <2>1, <3>1
  <2> QED
    BY <2>2, <2>3
<1>7. (n + 1) - 1 = n /\ a \in 1 .. (n + 1) + 1 /\ ~(a = (n + 1) + 1)
  BY <1>1, <1>4, <1>2
<1> QED
  BY <1>1, <1>3, <1>4, <1>5, <1>6, <1>7 DEF Block

\* A block of at least one datagram covers what it goes over.
LEMMA BlockCovers ==
  ASSUME NEW fr \in Seq(Datagram), NEW cmds, NEW a, NEW first, NEW last,
         Block(fr, a, cmds, first, last), a <= Len(fr)
  PROVE  CoversOf(fr, cmds, first, last)
<1> DEFINE b == Len(fr)
<1>1. b \in Nat /\ a \in 1 .. b /\ b \in 1 .. b
  <2>1. b \in Nat /\ a \in 1 .. b + 1 /\ a <= b
    BY DEF Block
  <2> QED
    BY <2>1
<1>2. \A k \in 1 .. b : fr[k].cmd \in cmds <=> k \in a .. b
  BY <1>1 DEF Block
<1>3. /\ fr[a].start = first /\ fr[b].start + fr[b].length = last
      /\ \A k \in a .. b - 1 : fr[k + 1].start = fr[k].start + fr[k].length
      /\ a <= b
  BY DEF Block
<1> HIDE DEF b
<1>4. Len(fr) = b
  BY DEF b
<1> QED
  BY <1>1, <1>2, <1>3, <1>4 DEF CoversOf

\* Datagrams of other commands change nothing of it.
LEMMA CoversKept ==
  ASSUME NEW fr \in Seq(Datagram), NEW d \in Datagram, NEW cmds, d.cmd \notin cmds,
         NEW first, NEW last, CoversOf(fr, cmds, first, last),
         NEW fr2, fr2 = Append(fr, d)
  PROVE  CoversOf(fr2, cmds, first, last)
<1> DEFINE n == Len(fr)
<1>1. /\ n \in Nat /\ Len(fr2) = n + 1 /\ fr2[n + 1] = d
      /\ \A k \in 1 .. n : fr2[k] = fr[k]
  BY AppendProperties
<1> HIDE DEF n
<1>2. PICK a \in 1 .. n, b \in 1 .. n :
        /\ a <= b
        /\ \A k \in 1 .. n : fr[k].cmd \in cmds <=> k \in a .. b
        /\ fr[a].start = first
        /\ fr[b].start + fr[b].length = last
        /\ \A k \in a .. b - 1 : fr[k + 1].start = fr[k].start + fr[k].length
  BY DEF CoversOf, n
<1>3. ASSUME NEW k \in 1 .. n + 1 PROVE fr2[k].cmd \in cmds <=> k \in a .. b
  <2>1. k = n + 1 \/ k \in 1 .. n
    BY <1>1
  <2>2. n + 1 \notin a .. b
    BY <1>1
  <2> QED
    BY <1>1, <1>2, <2>1, <2>2
<1>4. ASSUME NEW k \in a .. b - 1
      PROVE  fr2[k + 1].start = fr2[k].start + fr2[k].length
  <2>1. k \in 1 .. n /\ k + 1 \in 1 .. n
    BY <1>1
  <2> QED
    BY <1>1, <1>2, <2>1
<1>5. /\ fr2[a].start = first /\ fr2[b].start + fr2[b].length = last
      /\ a \in 1 .. n + 1 /\ b \in 1 .. n + 1
  BY <1>1, <1>2
<1> QED
  BY <1>1, <1>2, <1>3, <1>4, <1>5 DEF CoversOf

\* Before the first of them there is nothing.
LEMMA BlockEmpty ==
  ASSUME NEW fr \in Seq(Datagram), NEW cmds, NEW a, a = Len(fr) + 1, NEW first,
         \A k \in 1 .. Len(fr) : fr[k].cmd \notin cmds
  PROVE  Block(fr, a, cmds, first, first)
<1> DEFINE n == Len(fr)
<1>1. n \in Nat /\ a = n + 1
  OBVIOUS
<1>2. \A k \in 1 .. n : fr[k].cmd \notin cmds
  OBVIOUS
<1> HIDE DEF n
<1>3. a \in 1 .. n + 1 /\ ~(a <= n) /\ \A k \in a .. n - 1 : FALSE
  BY <1>1
<1>4. \A k \in 1 .. n : fr[k].cmd \in cmds <=> a <= k
  BY <1>1, <1>2
<1> QED
  BY <1>1, <1>3, <1>4 DEF Block, n

Reads == {"LRD", "LRW"}
Writes == {"LWR", "LRW"}

(* What the frames fr cover when all are sent.                             *)
CoverAll(fr) ==
  /\ group.Obytes > 0 =>
       CoversOf(fr, Writes, 0, IF blockLRW THEN group.Obytes ELSE Size)
  /\ group.Ibytes > 0 => CoversOf(fr, Reads, InputsFrom, Size)

SendingLRW ==
  /\ ~blockLRW
  /\ x.LogAdr = Total(IOsegment, x.seg - 1)
  /\ x.length = Size - x.LogAdr
  /\ Block(x.frames, 1, Reads, 0, x.LogAdr)
  /\ Block(x.frames, 1, Writes, 0, x.LogAdr)
SendingLRD ==
  /\ blockLRW /\ ~overlap /\ group.Isegment <= x.seg
  /\ x.LogAdr = IF x.seg = group.Isegment THEN group.Obytes
                ELSE Total(IOsegment, x.seg - 1)
  /\ x.length = Size - x.LogAdr
  /\ \A k \in 1 .. Len(x.frames) : x.frames[k].cmd = "LRD"
  /\ Block(x.frames, 1, Reads, group.Obytes, x.LogAdr)
SendingLWR ==
  /\ blockLRW /\ ~overlap
  /\ x.LogAdr = Total(IOsegment, x.seg - 1)
  /\ x.length = group.Obytes - x.LogAdr
  /\ \E a \in 1 .. Len(x.frames) + 1 : Block(x.frames, a, Writes, 0, x.LogAdr)
  /\ group.Ibytes > 0 => CoversOf(x.frames, Reads, group.Obytes, Size)
Sending ==
  /\ x.phase = "LRW" => SendingLRW
  /\ x.phase = "LRD" => SendingLRD
  /\ x.phase = "LWR" => SendingLWR
  /\ x.phase = "receive" => CoverAll(x.frames)

Covering == SegmentsFit /\ ~(overlap /\ blockLRW)
SendingInv == SegmentsInv /\ (Covering => Sending)

\* The sums of the segments once the mapping is done, step by step.
LEMMA MappedSums ==
  ASSUME SegmentsInv, SegmentsFit, m.phase = "mapped"
  PROVE  /\ Len(IOsegment) = group.nsegments /\ group.nsegments \in Nat
         /\ Total(IOsegment, group.nsegments) = Size
         /\ ~overlap => /\ group.Obytes = Total(IOsegment, group.Isegment - 1)
                                            + group.Ioffset
                        /\ Size = group.Obytes + group.Ibytes
         /\ Total(IOsegment, 0) = 0
         /\ \A s \in 1 .. group.nsegments :
              /\ IOsegment[s] \in Nat
              /\ Total(IOsegment, s - 1) \in Nat
              /\ Total(IOsegment, s) = Total(IOsegment, s - 1) + IOsegment[s]
<1>1. /\ Total(IOsegment, Len(IOsegment)) = Size
      /\ Len(IOsegment) = group.nsegments
      /\ ~overlap => group.Obytes = Total(IOsegment, group.Isegment - 1)
                                      + group.Ioffset
  BY DEF SegmentsInv, Summed, SegmentsMakeUpImage
<1>2. IOsegment \in Seq(Nat) /\ group.nsegments \in Nat
  BY ResultsType DEF SegmentsInv, TypeInv, MapTyped
<1>3. ~overlap => Size = group.Obytes + group.Ibytes
  BY DEF Size
<1>4. ASSUME NEW s \in 1 .. group.nsegments
      PROVE  /\ IOsegment[s] \in Nat
             /\ Total(IOsegment, s - 1) \in Nat
             /\ Total(IOsegment, s) = Total(IOsegment, s - 1) + IOsegment[s]
  <2> DEFINE n == s - 1
  <2>1. n \in Nat /\ n + 1 = s /\ \A k \in 1 .. n : k \in 1 .. Len(IOsegment)
    BY <1>1, <1>2
  <2>2. \A k \in 1 .. Len(IOsegment) : IOsegment[k] \in Nat
    BY <1>2, ElementOfSeq
  <2> HIDE DEF n
  <2>3. Total(IOsegment, n) \in Nat
    BY <2>1, <2>2, TotalNat
  <2>4. Total(IOsegment, n + 1) = Total(IOsegment, n) + IOsegment[n + 1]
    BY <2>1, TotalStep
  <2> QED
    BY <1>1, <2>1, <2>2, <2>3, <2>4 DEF n
<1>5. Total(IOsegment, 0) = 0
  BY TotalStep
<1> QED
  BY <1>1, <1>2, <1>3, <1>4, <1>5

\* What a datagram brings the exchange to.
LEMMA SentFacts ==
  ASSUME TypeInv, SendDatagram
  PROVE  /\ x.frames \in Seq(Datagram) /\ Sent \in Datagram
         /\ x'.frames = Append(x.frames, Sent) /\ x'.frames \in Seq(Datagram)
         /\ Len(x'.frames) = Len(x.frames) + 1 /\ Len(x.frames) \in Nat
         /\ x'.frames[Len(x.frames) + 1] = Sent
         /\ \A k \in 1 .. Len(x.frames) : x'.frames[k] = x.frames[k]
         /\ Sent.cmd = x.phase /\ Sent.start = x.LogAdr
         /\ Sent.length = Sublength
<1>1. /\ x.phase \in Commands /\ x'.frames = Append(x.frames, Sent)
  BY SendFacts
<1>2. x \in Transfer /\ Sent \in Datagram
  BY <1>1, SublengthType
<1>3. x.frames \in Seq(Datagram)
  BY <1>2, TransferType
<1>4. Sent.cmd = x.phase /\ Sent.start = x.LogAdr /\ Sent.length = Sublength
  BY DEF Sent
<1> QED
  BY <1>1, <1>2, <1>3, <1>4, AppendProperties

\* A block of datagrams goes on with the one that is sent.
LEMMA SentGrows ==
  ASSUME TypeInv, SendDatagram, NEW cmds, Sent.cmd \in cmds, NEW a, NEW first,
         Block(x.frames, a, cmds, first, x.LogAdr)
  PROVE  /\ Block(x'.frames, a, cmds, first, x.LogAdr + Sublength)
         /\ a <= Len(x'.frames)
<1> DEFINE fr == x.frames
           d == Sent
           last == x.LogAdr
           fr2 == x'.frames
           last2 == x.LogAdr + Sublength
<1>1. /\ fr \in Seq(Datagram) /\ d \in Datagram /\ fr2 = Append(fr, d)
      /\ d.start = last /\ d.length = Sublength
  BY SentFacts
<1>2. last2 = last + d.length /\ d.cmd \in cmds /\ Block(fr, a, cmds, first, last)
  BY <1>1
<1> HIDE DEF fr, d, last, fr2, last2
<1>3. Block(fr2, a, cmds, first, last2) /\ a <= Len(fr2)
  BY <1>1, <1>2, BlockGrows
<1> QED
  BY <1>3 DEF fr2, last2

\* What is covered when all is sent, in the next state.
LEMMA CoverNext ==
  ASSUME UNCHANGED <<slaves, overlap, group>>, CoverAll(x'.frames)
  PROVE  CoverAll(x.frames)'
<1>1. blockLRW' = blockLRW /\ Size' = Size /\ InputsFrom' = InputsFrom
  BY DEF blockLRW, Size, InputsFrom
<1> QED
  BY <1>1 DEF CoverAll, CoversOf

\* An exchange starts at the beginning of its part of the image.
LEMMA StartSending ==
  ASSUME SegmentsInv, StartExchange, Covering PROVE Sending'
<1>1. TypeInv /\ SegmentsFit /\ ~(overlap /\ blockLRW)
  BY DEF SegmentsInv, Covering
<1>2. /\ m.phase = "mapped"
      /\ UNCHANGED <<slaves, overlap, hasdc, m, fmmus, IOsegment, group>>
      /\ x'.frames = <<>>
      /\ \/ /\ ~blockLRW /\ x'.phase = "LRW" /\ x'.seg = 1
            /\ x'.length = Size /\ x'.LogAdr = 0
         \/ /\ blockLRW /\ group.Ibytes > 0 /\ x'.phase = "LRD"
            /\ x'.seg = group.Isegment /\ x'.length = group.Ibytes
            /\ x'.LogAdr = group.Obytes
         \/ /\ blockLRW /\ group.Ibytes = 0 /\ group.Obytes > 0
            /\ x'.phase = "LWR" /\ x'.seg = 1
            /\ x'.length = group.Obytes /\ x'.LogAdr = 0
  BY <1>1, StartFacts
<1>3. blockLRW' = blockLRW /\ Size' = Size
  BY <1>2 DEF blockLRW, Size
<1>4. /\ Total(IOsegment, 0) = 0 /\ 1 - 1 = 0
      /\ ~overlap => Size = group.Obytes + group.Ibytes
  BY <1>1, <1>2, MappedSums
<1>5. /\ Size \in Nat /\ group.Obytes \in Nat /\ group.Ibytes \in Nat
      /\ group.Isegment \in Nat
  BY <1>1, ResultsType
<1>6. \A cmds, first : Block(<<>>, 1, cmds, first, first)
  <2>1. /\ <<>> \in Seq(Datagram) /\ Len(<<>>) = 0 /\ 1 = 0 + 1
        /\ \A cmds : \A k \in 1 .. 0 : <<>>[k].cmd \notin cmds
    OBVIOUS
  <2> QED
    BY <2>1, BlockEmpty, Zenon
<1>7. CASE ~blockLRW
  <2>1. /\ x'.phase = "LRW" /\ x'.seg = 1 /\ x'.length = Size /\ x'.LogAdr = 0
    BY <1>2, <1>7
  <2>2. /\ Block(x'.frames, 1, Reads, 0, x'.LogAdr)
        /\ Block(x'.frames, 1, Writes, 0, x'.LogAdr)
    BY <1>2, <1>6, <2>1
  <2>3. x'.LogAdr = Total(IOsegment', x'.seg - 1) /\ x'.length = Size' - x'.LogAdr
    BY <1>2, <1>3, <1>4, <1>5, <2>1
  <2>4. SendingLRW'
    BY <1>3, <1>7, <2>2, <2>3 DEF SendingLRW, Reads, Writes, Block
  <2> QED
    BY <2>1, <2>4 DEF Sending
<1>8. CASE blockLRW /\ group.Ibytes > 0
  <2>1. /\ x'.phase = "LRD" /\ x'.seg = group.Isegment
        /\ x'.length = group.Ibytes /\ x'.LogAdr = group.Obytes
    BY <1>2, <1>5, <1>8
  <2>2. Block(x'.frames, 1, Reads, group.Obytes, x'.LogAdr)
    BY <1>2, <1>6, <2>1
  <2>3. /\ x'.length = Size' - x'.LogAdr /\ group'.Isegment <= x'.seg
        /\ x'.seg = group'.Isegment /\ x'.LogAdr = group'.Obytes
    BY <1>1, <1>2, <1>3, <1>4, <1>5, <1>8, <2>1
  <2>4. Len(x'.frames) = 0
    BY <1>2
  <2>5. SendingLRD'
    BY <1>1, <1>2, <1>3, <1>8, <2>2, <2>3, <2>4 DEF SendingLRD, Reads, Block
  <2> QED
    BY <2>1, <2>5 DEF Sending
<1>9. CASE blockLRW /\ ~(group.Ibytes > 0)
  <2>1. /\ x'.phase = "LWR" /\ x'.seg = 1
        /\ x'.length = group.Obytes /\ x'.LogAdr = 0
    BY <1>2, <1>9
  <2>2. Block(x'.frames, 1, Writes, 0, x'.LogAdr)
    BY <1>2, <1>6, <2>1
  <2>3. /\ x'.LogAdr = Total(IOsegment', x'.seg - 1)
        /\ x'.length = group'.Obytes - x'.LogAdr
    BY <1>2, <1>4, <1>5, <2>1
  <2>4. 1 \in 1 .. Len(x'.frames) + 1
    BY <1>2
  <2>5. SendingLWR'
    BY <1>1, <1>2, <1>3, <1>9, <2>2, <2>3, <2>4 DEF SendingLWR, Writes, Block
  <2> QED
    BY <2>1, <2>5 DEF Sending
<1> QED
  BY <1>7, <1>8, <1>9

\* One command for outputs and inputs: a datagram a segment.
LEMMA SendLRW ==
  ASSUME SegmentsInv, SendDatagram, SegmentsFit, x.phase = "LRW", SendingLRW
  PROVE  Sending'
<1> DEFINE after == x.LogAdr + Sublength
<1>1. TypeInv
  BY DEF SegmentsInv
<1>2. /\ x.phase \in Commands
      /\ UNCHANGED <<slaves, overlap, hasdc, m, fmmus, IOsegment, group>>
      /\ \/ /\ More /\ x'.phase = x.phase /\ x'.seg = x.seg + 1
            /\ x'.length = x.length - Sublength /\ x'.LogAdr = after
         \/ ~More /\ x'.phase = "receive"
  BY <1>1, SendFacts
<1>3. /\ x.frames \in Seq(Datagram) /\ Sent \in Datagram
      /\ x'.frames = Append(x.frames, Sent) /\ x'.frames \in Seq(Datagram)
      /\ Len(x'.frames) = Len(x.frames) + 1 /\ Len(x.frames) \in Nat
      /\ Sent.cmd = x.phase /\ Sent.start = x.LogAdr /\ Sent.length = Sublength
  BY <1>1, SentFacts
<1>4. m.phase = "mapped"
  BY <1>1, <1>2 DEF TypeInv, ExchangeTyped, Commands
<1>5. /\ x.seg \in 1 .. Len(IOsegment) /\ x.LogAdr \in Int
      /\ x.length \in Int /\ Sublength \in Int
  BY <1>1, <1>2, SublengthType
<1>6. Sublength = IOsegment[x.seg]
  BY DEF Sublength
<1>7. /\ Len(IOsegment) = group.nsegments /\ group.nsegments \in Nat
      /\ Total(IOsegment, group.nsegments) = Size
  BY <1>4, MappedSums
<1>8. /\ IOsegment[x.seg] \in Nat /\ Total(IOsegment, x.seg - 1) \in Nat
      /\ Total(IOsegment, x.seg) = Total(IOsegment, x.seg - 1) + IOsegment[x.seg]
  BY <1>4, <1>5, <1>7, MappedSums
<1>9. after = Total(IOsegment, x.seg)
  BY <1>6, <1>8 DEF SendingLRW
<1>10. /\ Block(x'.frames, 1, Reads, 0, after) /\ Block(x'.frames, 1, Writes, 0, after)
       /\ 1 <= Len(x'.frames)
  <2>1. Sent.cmd \in Reads /\ Sent.cmd \in Writes
    BY <1>3 DEF Reads, Writes
  <2>2. /\ Block(x.frames, 1, Reads, 0, x.LogAdr)
        /\ Block(x.frames, 1, Writes, 0, x.LogAdr)
    BY DEF SendingLRW
  <2>3. Block(x'.frames, 1, Reads, 0, after) /\ 1 <= Len(x'.frames)
    BY <1>1, <2>1, <2>2, SentGrows
  <2>4. Block(x'.frames, 1, Writes, 0, after)
    BY <1>1, <2>1, <2>2, SentGrows
  <2> QED
    BY <2>3, <2>4
<1>11. blockLRW' = blockLRW /\ Size' = Size
  BY <1>2 DEF blockLRW, Size
<1>12. Size \in Nat
  BY <1>1, ResultsType
<1>13. CASE More
  <2>1. /\ x'.phase = "LRW" /\ x'.seg = x.seg + 1
        /\ x'.length = x.length - Sublength /\ x'.LogAdr = after
    BY <1>2, <1>13
  <2>2. x'.seg - 1 = x.seg
    BY <1>5, <1>7, <2>1
  <2>3. x'.LogAdr = Total(IOsegment', x'.seg - 1)
    BY <1>2, <1>9, <2>1, <2>2
  <2>4. x'.length = Size' - x'.LogAdr
    <3>1. x.length = Size - x.LogAdr
      BY DEF SendingLRW
    <3> QED
      BY <1>5, <1>11, <1>12, <2>1, <3>1
  <2>5. /\ Block(x'.frames, 1, Reads, 0, x'.LogAdr)
        /\ Block(x'.frames, 1, Writes, 0, x'.LogAdr)
    BY <1>10, <2>1
  <2>6. SendingLRW'
    BY <1>11, <2>3, <2>4, <2>5 DEF SendingLRW, Reads, Writes, Block
  <2> QED
    BY <2>1, <2>6 DEF Sending
<1>14. CASE ~More
  <2>1. after = Size
    <3>1. x.length - Sublength = 0 \/ ~(x.seg + 1 <= group.nsegments)
      BY <1>14 DEF More
    <3>2. CASE x.length - Sublength = 0
      <4>1. x.length = Size - x.LogAdr
        BY DEF SendingLRW
      <4> QED
        BY <1>5, <1>12, <3>2, <4>1
    <3>3. CASE ~(x.seg + 1 <= group.nsegments)
      <4>1. x.seg = group.nsegments
        BY <1>5, <1>7, <3>3
      <4> QED
        BY <1>7, <1>9, <4>1
    <3> QED
      BY <3>1, <3>2, <3>3
  <2>2. CoversOf(x'.frames, Reads, 0, Size) /\ CoversOf(x'.frames, Writes, 0, Size)
    BY <1>3, <1>10, <2>1, BlockCovers
  <2>3. ~blockLRW
    BY DEF SendingLRW
  <2>4. CoverAll(x'.frames)
    BY <2>2, <2>3 DEF CoverAll, InputsFrom
  <2>5. CoverAll(x.frames)'
    BY <1>2, <2>4, CoverNext
  <2>6. x'.phase = "receive"
    BY <1>2, <1>14
  <2> QED
    BY <2>5, <2>6 DEF Sending
<1> QED
  BY <1>13, <1>14

\* The inputs first, from where they start.
LEMMA SendLRD ==
  ASSUME SegmentsInv, SendDatagram, SegmentsFit, x.phase = "LRD", SendingLRD
  PROVE  Sending'
<1> DEFINE after == x.LogAdr + Sublength
           n == Len(x.frames)
<1>1. TypeInv /\ blockLRW /\ ~overlap
  BY DEF SegmentsInv, SendingLRD
<1>2. /\ x.phase \in Commands
      /\ UNCHANGED <<slaves, overlap, hasdc, m, fmmus, IOsegment, group>>
      /\ \/ /\ More /\ x'.phase = x.phase /\ x'.seg = x.seg + 1
            /\ x'.length = x.length - Sublength /\ x'.LogAdr = after
         \/ /\ ~More /\ group.Obytes > 0
            /\ x'.phase = "LWR" /\ x'.seg = 1
            /\ x'.length = group.Obytes /\ x'.LogAdr = 0
         \/ ~More /\ group.Obytes = 0 /\ x'.phase = "receive"
  BY <1>1, SendFacts
<1>3. /\ x.frames \in Seq(Datagram) /\ Sent \in Datagram
      /\ x'.frames = Append(x.frames, Sent) /\ x'.frames \in Seq(Datagram)
      /\ Len(x'.frames) = n + 1 /\ n \in Nat
      /\ x'.frames[n + 1] = Sent /\ \A k \in 1 .. n : x'.frames[k] = x.frames[k]
      /\ Sent.cmd = x.phase /\ Sent.start = x.LogAdr /\ Sent.length = Sublength
  BY <1>1, SentFacts
<1>4. m.phase = "mapped"
  BY <1>1, <1>2 DEF TypeInv, ExchangeTyped, Commands
<1>5. /\ x.seg \in 1 .. Len(IOsegment) /\ x.LogAdr \in Int
      /\ x.length \in Int /\ Sublength \in Int
  BY <1>1, <1>2, SublengthType
<1>6. Sublength = IF x.seg = group.Isegment THEN IOsegment[x.seg] - group.Ioffset
                  ELSE IOsegment[x.seg]
  BY DEF Sublength
<1>7. /\ Len(IOsegment) = group.nsegments /\ group.nsegments \in Nat
      /\ Total(IOsegment, group.nsegments) = Size
      /\ Total(IOsegment, 0) = 0
      /\ group.Obytes = Total(IOsegment, group.Isegment - 1) + group.Ioffset
  BY <1>1, <1>4, MappedSums
<1>8. /\ IOsegment[x.seg] \in Nat /\ Total(IOsegment, x.seg - 1) \in Nat
      /\ Total(IOsegment, x.seg) = Total(IOsegment, x.seg - 1) + IOsegment[x.seg]
  BY <1>4, <1>5, <1>7, MappedSums
<1>a. /\ Size \in Nat /\ group.Obytes \in Nat /\ group.Isegment \in Nat
      /\ group.Ioffset \in Nat
  BY <1>1, ResultsType
<1>b. /\ group.Isegment <= x.seg /\ x.length = Size - x.LogAdr
      /\ x.LogAdr = IF x.seg = group.Isegment THEN group.Obytes
                    ELSE Total(IOsegment, x.seg - 1)
      /\ \A k \in 1 .. n : x.frames[k].cmd = "LRD"
      /\ Block(x.frames, 1, Reads, group.Obytes, x.LogAdr)
  BY DEF SendingLRD
<1>9. after = Total(IOsegment, x.seg)
  <2>1. CASE x.seg = group.Isegment
    <3> DEFINE before == Total(IOsegment, x.seg - 1)
               whole == IOsegment[x.seg]
    <3>1. /\ before \in Nat /\ whole \in Nat
          /\ Total(IOsegment, x.seg) = before + whole
          /\ group.Obytes = before + group.Ioffset
          /\ x.LogAdr = group.Obytes /\ Sublength = whole - group.Ioffset
      BY <1>6, <1>7, <1>8, <1>b, <2>1
    <3> HIDE DEF before, whole
    <3> QED
      BY <1>a, <3>1
  <2>2. CASE x.seg # group.Isegment
    BY <1>6, <1>8, <1>b, <2>2
  <2> QED
    BY <2>1, <2>2
<1> HIDE DEF n
<1>10. Block(x'.frames, 1, Reads, group.Obytes, after) /\ 1 <= Len(x'.frames)
  <2>1. Sent.cmd \in Reads
    BY <1>3 DEF Reads
  <2> QED
    BY <1>1, <1>b, <2>1, SentGrows
<1>c. \A k \in 1 .. n + 1 : x'.frames[k].cmd = "LRD"
  <2> SUFFICES ASSUME NEW k \in 1 .. n + 1 PROVE x'.frames[k].cmd = "LRD"
    OBVIOUS
  <2>1. k = n + 1 \/ k \in 1 .. n
    BY <1>3
  <2> QED
    BY <1>3, <1>b, <2>1
<1>11. blockLRW' = blockLRW /\ Size' = Size
  BY <1>2 DEF blockLRW, Size
<1>13. CASE More
  <2>1. /\ x'.phase = "LRD" /\ x'.seg = x.seg + 1
        /\ x'.length = x.length - Sublength /\ x'.LogAdr = after
    BY <1>2, <1>13
  <2>a. /\ x.seg \in Nat /\ group.Isegment \in Nat
        /\ group'.Isegment = group.Isegment
    BY <1>2, <1>5, <1>7, <1>a
  <2>b. group.Isegment <= x.seg
    BY <1>b
  <2>2. /\ x'.seg - 1 = x.seg /\ group'.Isegment <= x'.seg
        /\ ~(x'.seg = group'.Isegment)
    BY <2>1, <2>a, <2>b
  <2>3. x'.LogAdr = Total(IOsegment', x'.seg - 1)
    BY <1>2, <1>9, <2>1, <2>2
  <2>4. x'.length = Size' - x'.LogAdr
    BY <1>5, <1>11, <1>a, <1>b, <2>1
  <2>5. Block(x'.frames, 1, Reads, group'.Obytes, x'.LogAdr)
    BY <1>2, <1>10, <2>1
  <2>6. \A k \in 1 .. Len(x'.frames) : x'.frames[k].cmd = "LRD"
    BY <1>3, <1>c
  <2>7. SendingLRD'
    BY <1>1, <1>2, <1>11, <2>2, <2>3, <2>4, <2>5, <2>6
       DEF SendingLRD, Reads, Block
  <2> QED
    BY <2>1, <2>7 DEF Sending
<1>14. CASE ~More
  <2>1. after = Size
    <3>1. x.length - Sublength = 0 \/ ~(x.seg + 1 <= group.nsegments)
      BY <1>14 DEF More
    <3>2. CASE x.length - Sublength = 0
      BY <1>5, <1>a, <1>b, <3>2
    <3>3. CASE ~(x.seg + 1 <= group.nsegments)
      <4>1. x.seg = group.nsegments
        BY <1>5, <1>7, <3>3
      <4> QED
        BY <1>7, <1>9, <4>1
    <3> QED
      BY <3>1, <3>2, <3>3
  <2>2. CoversOf(x'.frames, Reads, group.Obytes, Size)
    BY <1>3, <1>10, <2>1, BlockCovers
  <2>3. CASE group.Obytes = 0
    <3>1. x'.phase = "receive"
      BY <1>2, <1>14, <2>3, <1>a
    <3>2. CoverAll(x'.frames)
      BY <1>1, <2>2, <2>3 DEF CoverAll, InputsFrom
    <3>3. CoverAll(x.frames)'
      BY <1>2, <3>2, CoverNext
    <3> QED
      BY <3>1, <3>3 DEF Sending
  <2>4. CASE group.Obytes # 0
    <3>1. /\ x'.phase = "LWR" /\ x'.seg = 1
          /\ x'.length = group.Obytes /\ x'.LogAdr = 0
      BY <1>2, <1>14, <2>4
    <3>2. \A k \in 1 .. Len(x'.frames) : x'.frames[k].cmd \notin Writes
      BY <1>3, <1>c DEF Writes
    <3>3. PICK a : a = Len(x'.frames) + 1
      OBVIOUS
    <3>4. Block(x'.frames, a, Writes, 0, 0)
      BY <1>3, <3>2, <3>3, BlockEmpty
    <3>5. a \in 1 .. Len(x'.frames) + 1
      BY <3>4 DEF Block
    <3>6. Block(x'.frames, a, Writes, 0, x'.LogAdr)
      BY <3>1, <3>4
    <3>7. /\ x'.LogAdr = Total(IOsegment', x'.seg - 1)
          /\ x'.length = group'.Obytes - x'.LogAdr
      BY <1>2, <1>7, <1>a, <3>1
    <3>8. CoversOf(x'.frames, Reads, group'.Obytes, Size')
      BY <1>2, <1>11, <2>2
    <3>9. SendingLWR'
      BY <1>1, <1>2, <1>11, <3>5, <3>6, <3>7, <3>8
         DEF SendingLWR, Writes, Reads, Block, CoversOf
    <3> QED
      BY <3>1, <3>9 DEF Sending
  <2> QED
    BY <2>3, <2>4
<1> QED
  BY <1>13, <1>14

\* Then the outputs: the last datagram may be shorter than its segment.
LEMMA SendLWR ==
  ASSUME SegmentsInv, SendDatagram, SegmentsFit, x.phase = "LWR", SendingLWR
  PROVE  Sending'
<1> DEFINE after == x.LogAdr + Sublength
           n == Len(x.frames)
<1>1. TypeInv /\ blockLRW /\ ~overlap
  BY DEF SegmentsInv, SendingLWR
<1>2. /\ x.phase \in Commands
      /\ UNCHANGED <<slaves, overlap, hasdc, m, fmmus, IOsegment, group>>
      /\ \/ /\ More /\ x'.phase = x.phase /\ x'.seg = x.seg + 1
            /\ x'.length = x.length - Sublength /\ x'.LogAdr = after
         \/ ~More /\ x'.phase = "receive"
  BY <1>1, SendFacts
<1>3. /\ x.frames \in Seq(Datagram) /\ Sent \in Datagram
      /\ x'.frames = Append(x.frames, Sent) /\ x'.frames \in Seq(Datagram)
      /\ Len(x'.frames) = n + 1 /\ n \in Nat
      /\ Sent.cmd = x.phase /\ Sent.start = x.LogAdr /\ Sent.length = Sublength
  BY <1>1, SentFacts
<1>4. m.phase = "mapped"
  BY <1>1, <1>2 DEF TypeInv, ExchangeTyped, Commands
<1>5. /\ x.seg \in 1 .. Len(IOsegment) /\ x.LogAdr \in Int
      /\ x.length \in Int /\ Sublength \in Int
  BY <1>1, <1>2, SublengthType
<1>6. Sublength = IF IOsegment[x.seg] > x.length THEN x.length ELSE IOsegment[x.seg]
  BY DEF Sublength
<1>7. /\ Len(IOsegment) = group.nsegments /\ group.nsegments \in Nat
      /\ Total(IOsegment, group.nsegments) = Size
      /\ Size = group.Obytes + group.Ibytes
  BY <1>1, <1>4, MappedSums
<1>8. /\ IOsegment[x.seg] \in Nat /\ Total(IOsegment, x.seg - 1) \in Nat
      /\ Total(IOsegment, x.seg) = Total(IOsegment, x.seg - 1) + IOsegment[x.seg]
  BY <1>4, <1>5, <1>7, MappedSums
<1>a. Size \in Nat /\ group.Obytes \in Nat /\ group.Ibytes \in Nat
  BY <1>1, ResultsType
<1>b. /\ x.length = group.Obytes - x.LogAdr
      /\ x.LogAdr = Total(IOsegment, x.seg - 1)
      /\ group.Ibytes > 0 => CoversOf(x.frames, Reads, group.Obytes, Size)
  BY DEF SendingLWR
<1>c. PICK a \in 1 .. n + 1 : Block(x.frames, a, Writes, 0, x.LogAdr)
  BY DEF SendingLWR
<1>9. /\ after = Total(IOsegment, x.seg) \/ after = group.Obytes
      /\ x.length - Sublength # 0 => after = Total(IOsegment, x.seg)
                                     /\ after <= group.Obytes
  <2> DEFINE whole == IOsegment[x.seg]
             total == Total(IOsegment, x.seg)
             before == Total(IOsegment, x.seg - 1)
  <2>1. /\ whole \in Nat /\ before \in Nat /\ total = before + whole
        /\ x.LogAdr = before /\ x.length = group.Obytes - before
        /\ Sublength = IF whole > x.length THEN x.length ELSE whole
    BY <1>6, <1>8, <1>b
  <2> HIDE DEF whole, total, before
  <2>2. /\ after = total \/ after = group.Obytes
        /\ x.length - Sublength # 0 => after = total /\ after <= group.Obytes
    BY <1>5, <1>a, <2>1
  <2> QED
    BY <2>2 DEF total
<1> HIDE DEF n
<1>10. Block(x'.frames, a, Writes, 0, after) /\ a <= Len(x'.frames)
  <2>1. Sent.cmd \in Writes
    BY <1>3 DEF Writes
  <2> QED
    BY <1>1, <1>c, <2>1, SentGrows
<1>d. group.Ibytes > 0 => CoversOf(x'.frames, Reads, group.Obytes, Size)
  <2>1. Sent.cmd \notin Reads
    BY <1>3 DEF Reads
  <2> QED
    BY <1>3, <1>b, <2>1, CoversKept
<1>11. blockLRW' = blockLRW /\ Size' = Size
  BY <1>2 DEF blockLRW, Size
<1>13. CASE More
  <2>1. /\ x'.phase = "LWR" /\ x'.seg = x.seg + 1
        /\ x'.length = x.length - Sublength /\ x'.LogAdr = after
        /\ x.length - Sublength # 0
    BY <1>2, <1>13 DEF More
  <2>2. x'.seg - 1 = x.seg
    BY <1>5, <1>7, <2>1
  <2>3. x'.LogAdr = Total(IOsegment', x'.seg - 1)
    BY <1>2, <1>9, <2>1, <2>2
  <2>4. x'.length = group'.Obytes - x'.LogAdr
    BY <1>2, <1>5, <1>a, <1>b, <2>1, SMTT(30)
  <2>5. Block(x'.frames, a, Writes, 0, x'.LogAdr)
    BY <1>10, <2>1
  <2>6. a \in 1 .. Len(x'.frames) + 1
    BY <1>10 DEF Block
  <2>7. group'.Ibytes > 0 => CoversOf(x'.frames, Reads, group'.Obytes, Size')
    BY <1>2, <1>11, <1>d
  <2>8. SendingLWR'
    BY <1>1, <1>2, <1>11, <2>3, <2>4, <2>5, <2>6, <2>7
       DEF SendingLWR, Writes, Reads, Block, CoversOf
  <2> QED
    BY <2>1, <2>8 DEF Sending
<1>14. CASE ~More
  <2>1. after = group.Obytes
    <3>1. x.length - Sublength = 0 \/ ~(x.seg + 1 <= group.nsegments)
      BY <1>14 DEF More
    <3>2. CASE x.length - Sublength = 0
      BY <1>5, <1>a, <1>b, <3>2
    <3>3. CASE ~(x.seg + 1 <= group.nsegments) /\ x.length - Sublength # 0
      <4>1. x.seg = group.nsegments
        BY <1>5, <1>7, <3>3
      <4>2. after = Size /\ after <= group.Obytes
        BY <1>7, <1>9, <3>3, <4>1
      <4> HIDE DEF after
      <4> QED
        BY <1>7, <1>a, <4>2
    <3> QED
      BY <3>1, <3>2, <3>3
  <2>2. CoversOf(x'.frames, Writes, 0, group.Obytes)
    BY <1>3, <1>10, <2>1, BlockCovers
  <2>3. CoverAll(x'.frames)
    BY <1>1, <1>d, <2>2 DEF CoverAll, InputsFrom
  <2>4. CoverAll(x.frames)'
    BY <1>2, <2>3, CoverNext
  <2>5. x'.phase = "receive"
    BY <1>2, <1>14
  <2> QED
    BY <2>4, <2>5 DEF Sending
<1> QED
  BY <1>13, <1>14

\* Every step keeps what has been sent contiguous.
LEMMA NextSending ==
  ASSUME SendingInv, [Next]_vars PROVE SendingInv'
<1>1. SegmentsInv /\ SegmentsInv' /\ TypeInv /\ TypeInv'
  BY NextSegments DEF SendingInv, SegmentsInv
<1>2. CASE CreateFMMU \/ EndSlave \/ EndOutputs \/ EndInputs
             \/ EndSlaveOutputs \/ EndSlaveInputs
  <2>1. UNCHANGED x /\ m.phase \in Dirs
    BY <1>1, <1>2, MappingIndices
  <2>2. x'.phase = "idle"
    BY <1>1, <2>1 DEF TypeInv, ExchangeTyped, Dirs
  <2> QED
    BY <1>1, <2>2 DEF SendingInv, Sending
<1>3. CASE StartExchange \/ SendDatagram \/ ReceiveDatagram \/ EndExchange
             \/ UNCHANGED vars
  <2>1. UNCHANGED <<slaves, overlap, m, IOsegment, group>>
    BY <1>3 DEF StartExchange, SendDatagram, ReceiveDatagram, EndExchange, vars
  <2>2. blockLRW' = blockLRW /\ SegmentsFit' = SegmentsFit
    BY <2>1 DEF blockLRW, SegmentsFit
  <2>3. Covering' => Covering
    BY <2>1, <2>2 DEF Covering
  <2>4. SUFFICES ASSUME Covering PROVE Sending'
    BY <1>1, <2>3 DEF SendingInv
  <2>5. Sending /\ SegmentsFit
    BY <2>4 DEF SendingInv, Covering
  <2>6. CASE StartExchange
    BY <1>1, <2>4, <2>6, StartSending
  <2>7. CASE SendDatagram
    <3>1. x.phase \in Commands
      BY <1>1, <2>7, SendFacts
    <3> QED
      BY <1>1, <2>5, <2>7, <3>1, SendLRW, SendLRD, SendLWR DEF Sending, Commands
  <2>8. CASE ReceiveDatagram
    <3>1. x.phase = "receive" /\ x'.phase = "receive" /\ x'.frames = x.frames
      BY <1>1, <2>8, ReceiveFacts
    <3>2. CoverAll(x.frames)'
      BY <2>1, <2>5, <3>1, CoverNext DEF Sending
    <3> QED
      BY <3>1, <3>2 DEF Sending
  <2>9. CASE EndExchange
    <3>1. x'.phase = "idle"
      BY <2>9 DEF EndExchange, XIdle
    <3> QED
      BY <3>1 DEF Sending
  <2>10. CASE UNCHANGED vars
    <3>1. UNCHANGED <<slaves, overlap, m, IOsegment, group, x>>
      BY <2>10 DEF vars
    <3>2. Size' = Size /\ InputsFrom' = InputsFrom
      BY <3>1 DEF Size, InputsFrom, blockLRW
    <3> QED
      BY <2>2, <2>5, <3>1, <3>2
         DEF Sending, SendingLRW, SendingLRD, SendingLWR, CoverAll
  <2> QED
    BY <1>3, <2>6, <2>7, <2>8, <2>9, <2>10, Zenon
<1> QED
  BY <1>2, <1>3 DEF Next

\* Nothing is sent at first.
LEMMA InitSending ==
  ASSUME Init PROVE SendingInv
<1>1. x.phase = "idle"
  BY DEF Init, XIdle
<1> QED
  BY <1>1, InitSegments DEF SendingInv, Sending

\* The datagrams that write are contiguous and cover the outputs, those that
\* read cover the inputs, however the segments were cut
\* (ecx_main_send_processdata).
THEOREM DatagramsCover == Spec => [](SegmentsFit => DatagramsCoverImage)
<1>1. SendingInv => (SegmentsFit => DatagramsCoverImage)
  <2> SUFFICES ASSUME SendingInv, SegmentsFit, x.phase = "receive",
                      ~(overlap /\ blockLRW)
               PROVE  /\ group.Obytes > 0 =>
                           Covers({"LWR", "LRW"}, 0,
                                  IF blockLRW THEN group.Obytes ELSE Size)
                      /\ group.Ibytes > 0 => Covers({"LRD", "LRW"}, InputsFrom, Size)
    BY DEF DatagramsCoverImage
  <2>1. CoverAll(x.frames)
    BY DEF SendingInv, Covering, Sending
  <2>2. \A cmds, first, last :
          CoversOf(x.frames, cmds, first, last) => Covers(cmds, first, last)
    BY DEF CoversOf, Covers
  <2> QED
    BY <2>1, <2>2, Zenon DEF CoverAll, Writes, Reads
<1>2. Spec => []SendingInv
  BY InitSending, NextSending, PTL DEF Spec
<1> QED
  BY <1>1, <1>2, PTL

(* The FMMUs of a direction, and the commands that serve it.               *)
Mapped(dir) == {k \in 1 .. Len(fmmus) : fmmus[k].dir = dir}
Serving(dir) == IF dir = "O" THEN Writes ELSE Reads

(* The master expects every FMMU to be counted.                            *)
AllCounted ==
  /\ group.outputsWKC = Cardinality(Mapped("O"))
  /\ group.inputsWKC = Cardinality(Mapped("I"))

(* One command for both directions, or one for each.                       *)
OneKind ==
  /\ x.phase \in Commands => (x.phase = "LRW" <=> ~blockLRW)
  /\ \A k \in 1 .. Len(x.frames) : x.frames[k].cmd = "LRW" <=> ~blockLRW

(* Every FMMU that answered was reached by a datagram that came back, and  *)
(* when none is reached twice the counter is no higher than the answers.   *)
Whole == ~\E k \in 1 .. Len(fmmus) : Straddling(fmmus[k])
WasReached(k) ==
  \E j \in 1 .. x.pulled : /\ Reaches(fmmus[k], x.frames[j])
                           /\ x.frames[j].cmd \in Serving(fmmus[k].dir)
Done(dir) == x.done \cap Mapped(dir)
Answered ==
  /\ \A k \in x.done : k \in 1 .. Len(fmmus) /\ WasReached(k)
  /\ Whole /\ ~x.misread =>
       x.wkc <= 2 * Cardinality(Done("O")) + Cardinality(Done("I"))

CountInv == TypeInv /\ AllCounted /\ OneKind /\ Answered

\* The FMMUs of a direction can be counted.
LEMMA MappedType ==
  ASSUME TypeInv, NEW dir
  PROVE  /\ Len(fmmus) \in Nat /\ IsFiniteSet(Mapped(dir))
         /\ Cardinality(Mapped(dir)) \in Nat
         /\ IsFiniteSet(Done(dir)) /\ Cardinality(Done(dir)) \in Nat
         /\ Cardinality(Done(dir)) <= Cardinality(Mapped(dir))
         /\ Cardinality(Done(dir)) = Cardinality(Mapped(dir)) =>
              Mapped(dir) \subseteq x.done
<1>1. Len(fmmus) \in Nat
  <2>1. fmmus \in Seq(Fmmu)
    BY DEF TypeInv, MapTyped
  <2> QED
    BY <2>1
<1>2. IsFiniteSet(1 .. Len(fmmus))
  <2>1. 1 \in Int /\ Len(fmmus) \in Int
    BY <1>1
  <2> QED
    BY <2>1, FS_Interval
<1>3. IsFiniteSet(Mapped(dir))
  <2>1. Mapped(dir) \in SUBSET (1 .. Len(fmmus))
    BY DEF Mapped
  <2> QED
    BY <1>2, <2>1, FS_Subset
<1>4. Done(dir) \in SUBSET Mapped(dir)
  BY DEF Done
<1>5. /\ IsFiniteSet(Done(dir))
      /\ Cardinality(Done(dir)) <= Cardinality(Mapped(dir))
      /\ Cardinality(Mapped(dir)) = Cardinality(Done(dir)) =>
           Mapped(dir) = Done(dir)
  BY <1>3, <1>4, FS_Subset
<1>6. Mapped(dir) = Done(dir) => Mapped(dir) \subseteq x.done
  BY DEF Done
<1> QED
  BY <1>1, <1>3, <1>5, <1>6, FS_CardinalityType

\* Two sets without a common member count as many as both.
LEMMA CountBoth ==
  ASSUME NEW S, NEW T, IsFiniteSet(S), IsFiniteSet(T), S \cap T = {}
  PROVE  Cardinality(S \cup T) = Cardinality(S) + Cardinality(T)
<1>1. /\ Cardinality(S) \in Nat /\ Cardinality(T) \in Nat
      /\ Cardinality(S \cap T) = 0
  BY FS_EmptySet, FS_CardinalityType
<1>2. Cardinality(S \cup T)
        = Cardinality(S) + Cardinality(T) - Cardinality(S \cap T)
  BY FS_Union
<1> DEFINE a == Cardinality(S)
           b == Cardinality(T)
<1>3. a \in Nat /\ b \in Nat /\ Cardinality(S \cup T) = a + b - 0
  BY <1>1, <1>2
<1> HIDE DEF a, b
<1>4. Cardinality(S \cup T) = a + b
  BY <1>3
<1> QED
  BY <1>4 DEF a, b

\* One more FMMU is one more of its direction.
LEMMA CreateCounted ==
  ASSUME TypeInv, AllCounted, CreateFMMU PROVE AllCounted'
<1>1. MapTyped /\ Advance
  BY DEF TypeInv
<1>2. PICK f, shared, last : Created(f, shared, last)
  BY <1>1, CreateFacts
<1> DEFINE n == Len(fmmus)
           one(dir) == IF m.phase = dir THEN {n + 1} ELSE {}
<1>3. /\ group'.outputsWKC = group.outputsWKC + (IF m.phase = "O" THEN 1 ELSE 0)
      /\ group'.inputsWKC = group.inputsWKC + (IF m.phase = "I" THEN 1 ELSE 0)
      /\ Len(fmmus') = n + 1
      /\ \A k \in 1 .. n : fmmus'[k] = fmmus[k]
      /\ fmmus'[n + 1].dir = m.phase
  BY <1>1, <1>2, CreatedFacts
<1>4. n \in Nat
  BY MappedType
<1> HIDE DEF n
<1>5. ASSUME NEW dir
      PROVE  Cardinality(Mapped(dir)')
               = Cardinality(Mapped(dir)) + (IF m.phase = dir THEN 1 ELSE 0)
  <2>1. Mapped(dir)' = Mapped(dir) \cup one(dir)
    <3>1. Mapped(dir)' = {k \in 1 .. n + 1 : fmmus'[k].dir = dir}
      BY <1>3 DEF Mapped
    <3>2. Mapped(dir) = {k \in 1 .. n : fmmus[k].dir = dir}
      BY DEF Mapped, n
    <3>3. \A k : k \in 1 .. n + 1 <=> k \in 1 .. n \/ k = n + 1
      BY <1>4
    <3> QED
      BY <1>3, <3>1, <3>2, <3>3
  <2>2. n + 1 \notin Mapped(dir) /\ IsFiniteSet(Mapped(dir))
    <3>1. n + 1 \notin 1 .. n
      BY <1>4
    <3> QED
      BY <3>1, MappedType DEF Mapped, n
  <2>3. CASE m.phase = dir
    <3>1. Mapped(dir)' = Mapped(dir) \cup {n + 1}
      BY <2>1, <2>3
    <3> QED
      BY <2>2, <2>3, <3>1, FS_AddElement
  <2>4. CASE m.phase # dir
    <3>1. Mapped(dir)' = Mapped(dir)
      BY <2>1, <2>4
    <3> QED
      BY <2>4, <3>1, MappedType
  <2> QED
    BY <2>3, <2>4
<1>6. /\ Cardinality(Mapped("O")') = group'.outputsWKC
      /\ Cardinality(Mapped("I")') = group'.inputsWKC
  BY <1>3, <1>5 DEF AllCounted
<1> QED
  BY <1>6 DEF AllCounted

\* No other step of the mapping counts.
LEMMA OthersCounted ==
  ASSUME TypeInv, AllCounted,
         EndSlave \/ EndOutputs \/ EndInputs \/ EndSlaveOutputs \/ EndSlaveInputs
  PROVE  AllCounted' /\ UNCHANGED fmmus
<1>1. group \in Results
  BY ResultsType, Zenon
<1>2. UNCHANGED fmmus
  BY DEF EndSlave, EndOutputs, EndInputs, EndSlaveOutputs, EndSlaveInputs
<1>3. group'.outputsWKC = group.outputsWKC /\ group'.inputsWKC = group.inputsWKC
  <2>1. MapTyped /\ Advance
    BY DEF TypeInv
  <2>2. CASE EndSlave
    BY <2>2 DEF EndSlave
  <2>3. CASE EndOutputs
    BY <2>1, <2>3, EndOutputsFacts
  <2>4. CASE EndInputs
    BY <2>1, <2>4, EndInputsFacts
  <2>5. CASE EndSlaveOutputs
    BY <2>5 DEF EndSlaveOutputs
  <2>6. CASE EndSlaveInputs
    <3> DEFINE si == m.LogAddr + Padded
               end == IF si > m.so THEN si ELSE m.so
    <3>1. si = m.LogAddr + Padded /\ end = IF si > m.so THEN si ELSE m.so
      OBVIOUS
    <3> HIDE DEF si, end
    <3> QED
      BY <2>1, <2>6, <3>1, EndSlaveInputsFacts
  <2> QED
    BY <2>2, <2>3, <2>4, <2>5, <2>6
<1>4. \A dir : Mapped(dir)' = Mapped(dir)
  BY <1>2 DEF Mapped
<1> QED
  BY <1>2, <1>3, <1>4 DEF AllCounted

\* An FMMU that this datagram reaches did not answer before.
LEMMA Fresh ==
  ASSUME TypeInv, OneKind, Answered, Whole, x.pulled < Len(x.frames),
         NEW d, d = x.frames[x.pulled + 1], NEW dir \in Dirs,
         d.cmd \in Serving(dir), NEW k \in Reached(d, dir)
  PROVE  k \notin x.done
<1> SUFFICES ASSUME k \in x.done PROVE FALSE
  OBVIOUS
<1>1. x.pulled \in Nat /\ Len(x.frames) \in Nat /\ x.frames \in Seq(Datagram)
  <2>1. x \in Transfer
    BY DEF TypeInv, ExchangeTyped
  <2>2. x.pulled \in Nat /\ x.frames \in Seq(Datagram)
    BY <2>1, TransferType
  <2> QED
    BY <2>2
<1>2. k \in 1 .. Len(fmmus) /\ fmmus[k].dir = dir /\ Reaches(fmmus[k], d)
  BY DEF Reached
<1>3. PICK j \in 1 .. x.pulled : /\ Reaches(fmmus[k], x.frames[j])
                                 /\ x.frames[j].cmd \in Serving(dir)
  BY <1>2 DEF Answered, WasReached
<1> DEFINE i == x.pulled + 1
<1>4. i \in 1 .. Len(x.frames) /\ j \in 1 .. Len(x.frames) /\ i # j
  BY <1>1
<1>5. x.frames[i].cmd = x.frames[j].cmd
  <2>1. x.frames[i].cmd = "LRW" <=> x.frames[j].cmd = "LRW"
    BY <1>4 DEF OneKind
  <2>2. x.frames[i].cmd \in Serving(dir)
    OBVIOUS
  <2> HIDE DEF i
  <2> QED
    BY <1>3, <2>1, <2>2 DEF Serving, Writes, Reads
<1>6. Straddling(fmmus[k])
  BY <1>2, <1>3, <1>4, <1>5 DEF Straddling
<1> QED
  BY <1>2, <1>6 DEF Whole

\* What a datagram's counter adds is what answers it.
LEMMA AnswersCounted ==
  ASSUME TypeInv, OneKind, Answered, Whole, ReceiveDatagram,
         NEW d, d = x.frames[x.pulled + 1], NEW dir \in Dirs,
         x'.done = x.done \cup Answers(d)
  PROVE  Cardinality(Done(dir)')
           = Cardinality(Done(dir))
             + (IF d.cmd \in Serving(dir) THEN Cardinality(Reached(d, dir)) ELSE 0)
<1>1. /\ x.pulled < Len(x.frames) /\ UNCHANGED fmmus
      /\ x \in Transfer
  BY ReceiveFacts DEF TypeInv, ExchangeTyped
<1>2. d.cmd \in Commands
  <2>1. x.pulled \in Nat /\ x.frames \in Seq(Datagram)
    BY <1>1, TransferType
  <2>2. x.pulled + 1 \in 1 .. Len(x.frames)
    BY <1>1, <2>1
  <2>3. d \in Datagram
    BY <2>1, <2>2, ElementOfSeq
  <2> QED
    BY <2>3 DEF Datagram, Commands
<1> DEFINE new == IF d.cmd \in Serving(dir) THEN Reached(d, dir) ELSE {}
<1>3. Done(dir)' = Done(dir) \cup new
  <2>1. Mapped(dir)' = Mapped(dir)
    BY <1>1 DEF Mapped
  <2>2. \A b : Reached(d, b) \subseteq Mapped(b)
    BY DEF Reached, Mapped
  <2>3. Mapped("O") \cap Mapped("I") = {}
    BY DEF Mapped
  <2>4. Answers(d) \cap Mapped(dir) = new
    <3>1. CASE dir = "O"
      BY <1>2, <2>2, <2>3, <3>1 DEF Answers, Serving, Writes, Commands
    <3>2. CASE dir = "I"
      BY <1>2, <2>2, <2>3, <3>2 DEF Answers, Serving, Reads, Commands
    <3> QED
      BY <3>1, <3>2 DEF Dirs
  <2> HIDE DEF new
  <2> QED
    BY <2>1, <2>4 DEF Done
<1>4. new \cap Done(dir) = {}
  BY <1>1, Fresh DEF Done
<1>5. IsFiniteSet(new) /\ IsFiniteSet(Done(dir))
  BY ReachedType, MappedType, FS_EmptySet
<1>6. Cardinality(new)
        = IF d.cmd \in Serving(dir) THEN Cardinality(Reached(d, dir)) ELSE 0
  BY FS_EmptySet
<1> HIDE DEF new
<1>7. Cardinality(Done(dir)') = Cardinality(Done(dir)) + Cardinality(new)
  BY <1>3, <1>4, <1>5, CountBoth
<1> QED
  BY <1>6, <1>7

\* Nothing has answered when nothing is counted.
LEMMA NoAnswers ==
  ASSUME TypeInv', x'.done = {}, x'.wkc = 0 PROVE Answered'
<1>1. Done("O")' = {} /\ Done("I")' = {}
  BY DEF Done
<1>2. Cardinality(Done("O")') = 0 /\ Cardinality(Done("I")') = 0
  BY <1>1, FS_EmptySet
<1>3. x'.wkc <= 2 * Cardinality(Done("O")') + Cardinality(Done("I")')
  BY <1>2
<1> QED
  BY <1>3 DEF Answered

\* A frame that comes back adds to the counter what it adds to the answers.
LEMMA ReceiveCounted ==
  ASSUME TypeInv, OneKind, Answered, ReceiveDatagram PROVE Answered'
<1> DEFINE d == x.frames[x.pulled + 1]
<1>0. d = x.frames[x.pulled + 1]
  OBVIOUS
<1> HIDE DEF d
<1>1. /\ x.pulled < Len(x.frames) /\ UNCHANGED fmmus
      /\ x'.frames = x.frames /\ x'.pulled = x.pulled + 1
      /\ \/ x'.wkc = x.wkc /\ x'.done = x.done /\ x'.misread = x.misread
         \/ /\ x'.misread = (x.misread \/ Misread)
            /\ ~Misread => x'.wkc = x.wkc + Wkc(d)
            /\ x'.done = x.done \cup Answers(d)
  BY <1>0, ReceiveFacts
<1>2. x.pulled \in Nat /\ x.wkc \in Nat /\ x.frames \in Seq(Datagram)
  BY TransferType DEF TypeInv, ExchangeTyped
<1>3. d.cmd \in Commands
  <2>1. x.pulled + 1 \in 1 .. Len(x.frames)
    BY <1>1, <1>2
  <2>2. d \in Datagram
    BY <1>0, <1>2, <2>1, ElementOfSeq
  <2> QED
    BY <2>2 DEF Datagram, Commands
<1>4. Whole' = Whole
  BY <1>1 DEF Whole, Straddling
<1>5. \A k : k \in 1 .. Len(fmmus) /\ WasReached(k) => WasReached(k)'
  <2> SUFFICES ASSUME NEW k, WasReached(k) PROVE WasReached(k)'
    OBVIOUS
  <2>1. PICK j \in 1 .. x.pulled : /\ Reaches(fmmus[k], x.frames[j])
                                   /\ x.frames[j].cmd \in Serving(fmmus[k].dir)
    BY DEF WasReached
  <2>2. j \in 1 .. x'.pulled
    BY <1>1, <1>2
  <2> QED
    BY <1>1, <2>1, <2>2 DEF WasReached
<1>6. \A k \in Answers(d) : k \in 1 .. Len(fmmus) /\ WasReached(k)'
  <2> SUFFICES ASSUME NEW k \in Answers(d)
               PROVE  k \in 1 .. Len(fmmus) /\ WasReached(k)'
    OBVIOUS
  <2>1. PICK dir \in Dirs : k \in Reached(d, dir) /\ d.cmd \in Serving(dir)
    BY <1>3 DEF Answers, Dirs, Serving, Reads, Writes, Commands
  <2>2. /\ k \in 1 .. Len(fmmus) /\ fmmus[k].dir = dir
        /\ Reaches(fmmus[k], d)
    BY <2>1 DEF Reached
  <2>3. x.pulled + 1 \in 1 .. x'.pulled
    BY <1>1, <1>2
  <2> QED
    BY <1>0, <1>1, <2>1, <2>2, <2>3 DEF WasReached
<1>7. CASE x'.wkc = x.wkc /\ x'.done = x.done /\ x'.misread = x.misread
  <2>1. Done("O")' = Done("O") /\ Done("I")' = Done("I")
    BY <1>1, <1>7 DEF Done, Mapped
  <2> QED
    BY <1>1, <1>4, <1>5, <1>7, <2>1 DEF Answered
<1>8. CASE /\ x'.misread = (x.misread \/ Misread)
           /\ ~Misread => x'.wkc = x.wkc + Wkc(d)
           /\ x'.done = x.done \cup Answers(d)
  <2>1. \A k \in x'.done : k \in 1 .. Len(fmmus') /\ WasReached(k)'
    BY <1>1, <1>5, <1>6, <1>8 DEF Answered
  <2>2. ASSUME Whole', ~x'.misread
        PROVE  x'.wkc <= 2 * Cardinality(Done("O")') + Cardinality(Done("I")')
    <3>1. Whole /\ ~x.misread /\ ~Misread
      BY <1>4, <1>8, <2>2
    <3> DEFINE o == Cardinality(Done("O"))
               i == Cardinality(Done("I"))
               ro == Cardinality(Reached(d, "O"))
               ri == Cardinality(Reached(d, "I"))
    <3>2. /\ Cardinality(Done("O")')
               = o + (IF d.cmd \in Serving("O") THEN ro ELSE 0)
          /\ Cardinality(Done("I")')
               = i + (IF d.cmd \in Serving("I") THEN ri ELSE 0)
      BY <1>0, <1>8, <3>1, AnswersCounted DEF Dirs
    <3>3. /\ d.cmd \in Serving("O") <=> d.cmd # "LRD"
          /\ d.cmd \in Serving("I") <=> d.cmd # "LWR"
      BY <1>3 DEF Serving, Reads, Writes, Commands
    <3>4. Wkc(d) = (IF d.cmd # "LRD" THEN 2 * ro ELSE 0)
                     + (IF d.cmd # "LWR" THEN ri ELSE 0)
      BY DEF Wkc
    <3>5. o \in Nat /\ i \in Nat /\ ro \in Nat /\ ri \in Nat
      BY MappedType, ReachedType
    <3>6. x.wkc <= 2 * o + i
      BY <3>1 DEF Answered
    <3>7. x'.wkc = x.wkc + Wkc(d)
      BY <1>8, <3>1
    <3> HIDE DEF o, i, ro, ri
    <3> QED
      BY <1>2, <3>2, <3>3, <3>4, <3>5, <3>6, <3>7
  <2> QED
    BY <2>1, <2>2 DEF Answered
<1> QED
  BY <1>1, <1>7, <1>8

\* The exchange stays with its commands.
LEMMA SendOneKind ==
  ASSUME TypeInv, OneKind, SendDatagram PROVE OneKind'
<1>1. /\ x.phase \in Commands /\ UNCHANGED slaves
      /\ \/ x'.phase = x.phase
         \/ x.phase = "LRD" /\ x'.phase = "LWR"
         \/ x'.phase = "receive"
  BY SendFacts
<1>2. /\ Len(x.frames) \in Nat /\ Len(x'.frames) = Len(x.frames) + 1
      /\ x'.frames[Len(x.frames) + 1].cmd = x.phase
      /\ \A k \in 1 .. Len(x.frames) : x'.frames[k] = x.frames[k]
  BY SentFacts
<1>3. blockLRW' = blockLRW
  BY <1>1 DEF blockLRW
<1>4. x'.phase \in Commands => (x'.phase = "LRW" <=> ~blockLRW)
  BY <1>1 DEF OneKind, Commands
<1>5. ASSUME NEW k \in 1 .. Len(x'.frames)
      PROVE  x'.frames[k].cmd = "LRW" <=> ~blockLRW
  <2>1. k \in 1 .. Len(x.frames) \/ k = Len(x.frames) + 1
    BY <1>2
  <2> QED
    BY <1>1, <1>2, <2>1 DEF OneKind
<1> QED
  BY <1>3, <1>4, <1>5 DEF OneKind

\* Every step keeps the counting.
LEMMA NextCounted ==
  ASSUME CountInv, [Next]_vars PROVE CountInv'
<1>1. TypeInv /\ TypeInv' /\ AllCounted /\ OneKind /\ Answered
  BY NextTyped DEF CountInv
<1>2. CASE CreateFMMU \/ EndSlave \/ EndOutputs \/ EndInputs
             \/ EndSlaveOutputs \/ EndSlaveInputs
  <2>1. UNCHANGED x /\ m.phase \in Dirs
    BY <1>1, <1>2, MappingIndices
  <2>2. x = XIdle
    BY <1>1, <2>1 DEF TypeInv, ExchangeTyped, Dirs
  <2>3. /\ x'.phase = "idle" /\ x'.frames = <<>> /\ x'.done = {}
        /\ x'.wkc = 0
    BY <2>1, <2>2 DEF XIdle
  <2>4. OneKind'
    BY <2>3 DEF OneKind, Commands
  <2>5. Answered'
    BY <1>1, <2>3, NoAnswers
  <2>6. AllCounted'
    BY <1>1, <1>2, CreateCounted, OthersCounted
  <2> QED
    BY <1>1, <2>4, <2>5, <2>6 DEF CountInv
<1>3. CASE StartExchange \/ SendDatagram \/ ReceiveDatagram \/ EndExchange
             \/ UNCHANGED vars
  <2>1. UNCHANGED <<slaves, fmmus, group>>
    BY <1>3 DEF StartExchange, SendDatagram, ReceiveDatagram, EndExchange, vars
  <2>2. AllCounted' /\ blockLRW' = blockLRW
    BY <1>1, <2>1 DEF AllCounted, Mapped, blockLRW
  <2>3. CASE StartExchange
    <3>1. /\ x'.frames = <<>> /\ x'.wkc = 0 /\ x'.done = {}
          /\ x'.phase \in Commands => (x'.phase = "LRW" <=> ~blockLRW)
      BY <1>1, <2>3, StartFacts
    <3>2. OneKind'
      BY <2>2, <3>1 DEF OneKind
    <3> QED
      BY <1>1, <2>2, <3>1, <3>2, NoAnswers DEF CountInv
  <2>4. CASE SendDatagram
    <3>1. x.phase \in Commands /\ x'.wkc = x.wkc /\ x'.done = x.done
      BY <1>1, <2>4, SendFacts
    <3>2. x.wkc = 0 /\ x.done = {}
      BY <1>1, <3>1 DEF TypeInv, ExchangeTyped
    <3> QED
      BY <1>1, <2>2, <2>4, <3>1, <3>2, NoAnswers, SendOneKind DEF CountInv
  <2>5. CASE ReceiveDatagram
    <3>1. x'.phase = "receive" /\ x'.frames = x.frames
      BY <1>1, <2>5, ReceiveFacts
    <3>2. OneKind'
      BY <1>1, <2>2, <3>1 DEF OneKind, Commands
    <3> QED
      BY <1>1, <2>2, <2>5, <3>2, ReceiveCounted DEF CountInv
  <2>6. CASE EndExchange
    <3>1. /\ x'.phase = "idle" /\ x'.frames = <<>> /\ x'.done = {}
          /\ x'.wkc = 0
      BY <2>6 DEF EndExchange, XIdle
    <3>2. OneKind'
      BY <3>1 DEF OneKind, Commands
    <3> QED
      BY <1>1, <2>2, <3>1, <3>2, NoAnswers DEF CountInv
  <2>7. CASE UNCHANGED vars
    <3>1. UNCHANGED <<slaves, fmmus, x>>
      BY <2>7 DEF vars
    <3>2. /\ Whole' = Whole /\ Done("O")' = Done("O") /\ Done("I")' = Done("I")
          /\ \A k : WasReached(k)' <=> WasReached(k)
      BY <3>1 DEF Whole, Straddling, Done, Mapped, WasReached
    <3>3. OneKind' /\ Answered'
      BY <1>1, <2>2, <3>1, <3>2 DEF OneKind, Answered
    <3> QED
      BY <1>1, <2>2, <3>3 DEF CountInv
  <2> QED
    BY <1>3, <2>3, <2>4, <2>5, <2>6, <2>7, Zenon
<1> QED
  BY <1>2, <1>3 DEF Next

\* Nothing is mapped and nothing sent at first.
LEMMA InitCounted ==
  ASSUME Init PROVE CountInv
<1>1. TypeInv
  BY InitTyped
<1>2. /\ fmmus = <<>> /\ group.outputsWKC = 0 /\ group.inputsWKC = 0
      /\ x.phase = "idle" /\ x.frames = <<>> /\ x.done = {} /\ x.wkc = 0
  BY DEF Init, XIdle
<1>3. \A dir : Mapped(dir) = {} /\ Done(dir) = {}
  BY <1>2 DEF Mapped, Done
<1>4. AllCounted
  BY <1>2, <1>3, FS_EmptySet DEF AllCounted
<1>5. OneKind
  BY <1>2 DEF OneKind, Commands
<1>6. Answered
  <2>1. Cardinality(Done("O")) = 0 /\ Cardinality(Done("I")) = 0
    BY <1>3, FS_EmptySet
  <2>2. x.wkc <= 2 * Cardinality(Done("O")) + Cardinality(Done("I"))
    BY <1>2, <2>1
  <2> QED
    BY <1>2, <2>2 DEF Answered
<1> QED
  BY <1>1, <1>4, <1>5, <1>6 DEF CountInv

\* A work counter as high as the master expects it means that every FMMU was
\* served, as long as no FMMU is reached twice and the first frame is not
\* misread (ecx_receive_processdata_group, EtherCATMaster::ethercatHandler).
THEOREM ExpectedIsComplete == Spec => []ExpectedMeansComplete
<1>1. CountInv => ExpectedMeansComplete
  <2> SUFFICES ASSUME CountInv, x.wkc >= Expected, ~x.misread, Whole
               PROVE  x.done = 1 .. Len(fmmus)
    BY DEF ExpectedMeansComplete, Whole
  <2>1. TypeInv /\ AllCounted /\ Answered
    BY DEF CountInv
  <2> DEFINE o == Cardinality(Done("O"))
             i == Cardinality(Done("I"))
             O == Cardinality(Mapped("O"))
             I == Cardinality(Mapped("I"))
  <2>2. x.wkc \in Nat /\ x.wkc >= 2 * O + I /\ x.wkc <= 2 * o + i
    <3>1. x.wkc \in Nat
      BY <2>1, TransferType DEF TypeInv, ExchangeTyped
    <3> QED
      BY <2>1, <3>1 DEF Answered, AllCounted, Expected
  <2>3. /\ o \in Nat /\ i \in Nat /\ O \in Nat /\ I \in Nat
        /\ o <= O /\ i <= I
        /\ o = O => Mapped("O") \subseteq x.done
        /\ i = I => Mapped("I") \subseteq x.done
    BY <2>1, MappedType
  <2> HIDE DEF o, i, O, I
  <2>4. o = O /\ i = I
    BY <2>2, <2>3
  <2>5. Mapped("O") \subseteq x.done /\ Mapped("I") \subseteq x.done
    BY <2>3, <2>4
  <2>6. ASSUME NEW k \in 1 .. Len(fmmus) PROVE k \in x.done
    <3>1. fmmus \in Seq(Fmmu)
      BY <2>1 DEF TypeInv, MapTyped
    <3>2. fmmus[k] \in Fmmu
      BY <3>1, ElementOfSeq
    <3>3. fmmus[k].dir \in Dirs
      BY <3>2 DEF Fmmu
    <3> QED
      BY <2>5, <3>3 DEF Mapped, Dirs
  <2>7. x.done \subseteq 1 .. Len(fmmus)
    BY <2>1 DEF Answered
  <2> QED
    BY <2>6, <2>7
<1>2. Spec => []CountInv
  BY InitCounted, NextCounted, PTL DEF Spec
<1> QED
  BY <1>1, <1>2, PTL
=============================================================================
