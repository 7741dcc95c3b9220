------------------------- MODULE SerialFramingProofs -------------------------
(***************************************************************************)
(* Proofs about SerialFraming for every line: any values of the bytes, any *)
(* payloads whose length takes two bytes, any cut into chunks, any number  *)
(* of bytes lost or changed.  A receiver that is in step holds so many     *)
(* bytes of one frame, and the rest of it is what comes next on the wire.  *)
(***************************************************************************)
EXTENDS SerialFraming, SequenceTheorems, WellFoundedInduction, TLAPS

(* The smallest of some numbers is one of them. *)
LEMMA MinIsLeast ==
  ASSUME NEW S \in SUBSET Nat, S # {}
  PROVE  Min(S) \in S /\ \A m \in S : Min(S) <= m
<1>1. PICK n \in S : \A m \in S : ~(<<m, n>> \in OpToRel(<, Nat))
  BY NatLessThanWellFounded, WFMin
<1>2. ASSUME NEW m \in S
      PROVE  n <= m
  <2>1. <<m, n>> \in Nat \X Nat /\ ~(<<m, n>> \in OpToRel(<, Nat))
    BY <1>1
  <2>2. ~(m < n)
    BY <2>1 DEF OpToRel
  <2> QED
    BY <2>2
<1> QED
  BY <1>2 DEF Min

(* What holds of 0, and of the next number with each, holds of all. *)
LEMMA CountingUp ==
  ASSUME NEW S, 0 \in S, \A n \in Nat : n \in S => n + 1 \in S
  PROVE  \A n \in Nat : n \in S
<1> DEFINE Missing == {n \in Nat : n \notin S}
<1>1. ASSUME Missing # {}
      PROVE  FALSE
  <2> DEFINE m == Min(Missing)
  <2>1. m \in Missing /\ \A n \in Missing : m <= n
    <3>1. Missing \subseteq Nat
      OBVIOUS
    <3> HIDE DEF Missing
    <3> QED
      BY <1>1, <3>1, MinIsLeast
  <2>2. m \in Nat /\ m \notin S /\ m # 0
    BY <2>1
  <2> HIDE DEF m
  <2>3. m - 1 \in Nat /\ m - 1 \in S /\ m - 1 + 1 = m
    BY <2>1, <2>2
  <2> QED
    BY <2>2, <2>3
<1> QED
  BY <1>1

(* What is computed round by round is there. *)
Computed(S, first, n, g) ==
  \E f \in [0 .. n -> S] : f[0] = first /\ \A k \in 1 .. n : f[k] = g[k][f[k - 1]]

(* Some function is computed by any rounds. *)
LEMMA Rounds ==
  ASSUME NEW S, NEW first \in S, NEW n \in Nat, NEW g \in [1 .. n -> [S -> S]]
  PROVE  Computed(S, first, n, g)
<1> DEFINE Is(f, m) == /\ f \in [0 .. m -> S] /\ f[0] = first
                       /\ \A k \in 1 .. m : f[k] = g[k][f[k - 1]]
           Found == {m \in Nat : m <= n => \E f : Is(f, m)}
<1>1. 0 \in Found
  <2>1. Is([k \in 0 .. 0 |-> first], 0)
    OBVIOUS
  <2> HIDE DEF Is
  <2> QED
    BY <2>1
<1>2. ASSUME NEW m \in Nat, m \in Found
      PROVE  m + 1 \in Found
  <2>1. CASE ~(m + 1 <= n)
    BY <2>1
  <2>2. CASE m + 1 <= n
    <3>1. PICK f : Is(f, m)
      <4>1. m <= n
        BY <2>2
      <4> QED
        BY <1>2, <4>1
    <3> DEFINE h == [k \in 0 .. m + 1 |-> IF k = m + 1 THEN g[m + 1][f[m]] ELSE f[k]]
    <3>2. f[m] \in S /\ m + 1 \in 1 .. n
      BY <2>2, <3>1
    <3>3. g[m + 1][f[m]] \in S
      BY <3>2
    <3>4. h \in [0 .. m + 1 -> S]
      BY <3>1, <3>3
    <3>5. h[0] = first
      BY <3>1
    <3>6. ASSUME NEW k \in 1 .. m + 1
          PROVE  h[k] = g[k][h[k - 1]]
      <4>1. CASE k = m + 1
        <5>1. k - 1 = m /\ h[m] = f[m]
          BY <4>1
        <5> QED
          BY <4>1, <5>1
      <4>2. CASE k # m + 1
        <5>1. k \in 1 .. m /\ h[k] = f[k] /\ h[k - 1] = f[k - 1]
          BY <4>2
        <5> QED
          BY <3>1, <5>1
      <4> QED
        BY <4>1, <4>2
    <3> HIDE DEF h
    <3>7. Is(h, m + 1)
      BY <3>4, <3>5, <3>6
    <3>8. m + 1 \in Nat
      OBVIOUS
    <3> HIDE DEF Is
    <3> QED
      BY <3>7, <3>8
  <2> QED
    BY <2>1, <2>2
<1>3. PICK f : Is(f, n)
  <2> HIDE DEF Is, Found
  <2>1. n \in Found
    BY <1>1, <1>2, CountingUp
  <2> QED
    BY <2>1 DEF Found
<1> QED
  BY <1>3 DEF Computed

------------------------------------------------------------------------------
(* The checksum *)
LEMMA ByteFacts ==
  /\ Base \in Nat /\ Base > 1 /\ Byte = 0 .. Base - 1 /\ 0 \in Byte
  /\ Mark \in Byte /\ Magic1 \in Byte /\ Magic2 \in Byte
  /\ MaxFrame \in Nat /\ MaxFrame > 0 /\ MaxUnit \in Nat
BY FramingAssumption DEF Byte

(* The sums stay bytes. *)
LEMMA SummedIsByte ==
  ASSUME NEW sums \in Byte \X Byte, NEW b \in Byte
  PROVE  Summed(sums, b) \in Byte \X Byte
<1> DEFINE Mod(n) == n % (Base - 1)
           sum1   == Mod(sums[1] + b)
<1>1. \A n \in Nat : Mod(n) \in Byte
  BY ByteFacts
<1>2. \A m, n \in Byte : m + n \in Nat
  BY ByteFacts
<1>3. sums[1] \in Byte /\ sums[2] \in Byte
  OBVIOUS
<1>4. Summed(sums, b) = <<sum1, Mod(sums[2] + sum1)>>
  BY DEF Summed
<1> HIDE DEF Mod
<1>5. sum1 \in Byte
  BY <1>1, <1>2, <1>3
<1> HIDE DEF sum1
<1>6. Mod(sums[2] + sum1) \in Byte
  BY <1>1, <1>2, <1>3, <1>5
<1> QED
  BY <1>4, <1>5, <1>6

(* The checksum of a payload is two bytes. *)
LEMMA ChecksumIsBytes ==
  ASSUME NEW p \in Seq(Byte)
  PROVE  /\ Checksum(p) \in Seq(Byte) /\ Len(Checksum(p)) = 2
         /\ \A i \in 1 .. 2 : Checksum(p)[i] \in Byte
<1> DEFINE S == Byte \X Byte
           n == Len(p)
           g == [k \in 1 .. n |-> [sums \in S |-> Summed(sums, p[k])]]
           IsSums(f) == f = [k \in 0 .. n |-> IF k = 0 THEN <<0, 0>> ELSE Summed(f[k - 1], p[k])]
<1>1. n \in Nat /\ \A k \in 1 .. n : p[k] \in Byte
  BY LenProperties
<1> HIDE DEF n
<1>2. <<0, 0>> \in S
  BY ByteFacts
<1>3. g \in [1 .. n -> [S -> S]]
  <2>1. \A k \in 1 .. n, sums \in S : Summed(sums, p[k]) \in S
    BY <1>1, SummedIsByte
  <2> HIDE DEF S
  <2> QED
    BY <2>1
<1>4. PICK f \in [0 .. n -> S] :
        f[0] = <<0, 0>> /\ \A k \in 1 .. n : f[k] = g[k][f[k - 1]]
  <2> DEFINE zero == <<0, 0>>
  <2>1. zero \in S /\ n \in Nat
    BY <1>1, <1>2
  <2> HIDE DEF S, g, zero
  <2>2. Computed(S, zero, n, g)
    BY <1>3, <2>1, Rounds
  <2> QED
    BY <2>2 DEF Computed, zero
<1>5. IsSums(f)
  <2>1. \A k \in 0 .. n : f[k] = IF k = 0 THEN <<0, 0>> ELSE Summed(f[k - 1], p[k])
    <3> TAKE k \in 0 .. n
    <3>1. CASE k = 0
      BY <1>4, <3>1
    <3>2. CASE k # 0
      <4>1. k \in 1 .. n /\ k - 1 \in 0 .. n
        BY <1>1, <3>2
      <4>2. f[k - 1] \in S
        <5> HIDE DEF S
        <5> QED
          BY <4>1
      <4>3. g[k][f[k - 1]] = Summed(f[k - 1], p[k])
        <5> HIDE DEF S
        <5> QED
          BY <4>1, <4>2
      <4> QED
        BY <1>4, <3>2, <4>1, <4>3
    <3> QED
      BY <3>1, <3>2
  <2>2. f = [k \in 0 .. n |-> f[k]]
    OBVIOUS
  <2> QED
    BY <2>1, <2>2
<1> DEFINE sums == CHOOSE h : IsSums(h)
<1>6. fletcher16(p) = sums[n]
  BY DEF fletcher16, n
<1>7. IsSums(sums)
  <2> HIDE DEF IsSums
  <2> QED
    BY <1>5
<1> HIDE DEF sums
<1>8. \A k \in 0 .. n : sums[k] = IF k = 0 THEN <<0, 0>> ELSE Summed(sums[k - 1], p[k])
  BY <1>7
<1> DEFINE Fine == {k \in Nat : k <= n => sums[k] \in S}
<1>9. 0 \in Fine
  BY <1>1, <1>2, <1>8
<1>10. ASSUME NEW k \in Nat, k \in Fine
       PROVE  k + 1 \in Fine
  <2>1. CASE k + 1 <= n
    <3>1. k <= n /\ k + 1 \in 1 .. n /\ k + 1 \in 0 .. n /\ k + 1 # 0 /\ k + 1 - 1 = k
      BY <1>1, <2>1
    <3>2. sums[k + 1] = Summed(sums[k], p[k + 1])
      BY <1>8, <3>1
    <3>3. sums[k] \in Byte \X Byte /\ p[k + 1] \in Byte
      BY <1>1, <1>10, <3>1
    <3> QED
      BY <3>2, <3>3, SummedIsByte
  <2>2. CASE ~(k + 1 <= n)
    BY <2>2
  <2> QED
    BY <2>1, <2>2
<1>11. n \in Fine
  <2> HIDE DEF Fine
  <2> QED
    BY <1>1, <1>9, <1>10, CountingUp
<1>12. sums[n] \in Byte \X Byte
  BY <1>1, <1>11
<1>13. Checksum(p) = <<sums[n][2], sums[n][1]>>
  BY <1>6 DEF Checksum
<1> QED
  BY <1>12, <1>13
------------------------------------------------------------------------------
(* Framed and MaySend as functions of the kind of line. *)
Frame(kind, p) ==
  IF kind = "bridge"
  THEN <<Magic1, Magic2, Msb(Len(p)), Lsb(Len(p))>> \o p \o Checksum(p)
  ELSE <<Mark, Lsb(Len(p)), Msb(Len(p))>> \o p

Fits(kind, p) == kind = "bridge" => Len(p) <= MaxUnit

(* The frame that follows the first. *)
Following(kind, e) == IF Len(e) = 2 THEN Frame(kind, e[2]) ELSE <<>>

(* All but the first k bytes of frame f, then g. *)
OnWire(w, k, f, g) ==
  /\ Len(w) = Len(f) - k + Len(g)
  /\ \A i \in 1 .. Len(f) - k : w[i] = f[k + i]
  /\ \A i \in 1 .. Len(g) : w[Len(f) - k + i] = g[i]

(* The first k bytes of f. *)
Begun(b, k, f) == b \in Seq(Byte) /\ Len(b) = k /\ \A i \in 1 .. k : b[i] = f[i]

(* A receiver at the start of a frame, or with k bytes of it. *)
Rests(kind, r, b) ==
  /\ kind = "device"  => r.state = "idle"
  /\ kind = "gateway" => \A i \in 1 .. Len(b) : b[i] # Mark
  /\ kind = "bridge"  => b = <<>>

Least2(m, n) == IF m < n THEN m ELSE n

Within(r, k, p) ==
  \/ k = 1 /\ r.state = "header"
  \/ k = 2 /\ r.state = "length" /\ r.frame_len = Lsb(Len(p))
  \/ /\ k > 2 /\ r.state = "body"
     /\ r.frame_len = Len(p) /\ r.rx_len = k - 3
     /\ Len(r.rx_buf) = Least2(k - 3, MaxFrame)
     /\ \A i \in 1 .. Len(r.rx_buf) : r.rx_buf[i] = p[i]

Stands(kind, r, b, k, p) ==
  IF k = 0 THEN Rests(kind, r, b)
  ELSE IF kind = "device" THEN Within(r, k, p) ELSE Begun(b, k, Frame(kind, p))

InStep(kind, w, r, b, e) ==
  /\ e = <<>> => w = <<>> /\ Rests(kind, r, b)
  /\ e # <<>> => \E k \in 0 .. Len(Frame(kind, e[1])) - 1 :
       OnWire(w, k, Frame(kind, e[1]), Following(kind, e)) /\ Stands(kind, r, b, k, e[1])

Receiving == [state : {"idle", "header", "length", "body"},
              frame_len : Nat, rx_len : Nat, rx_buf : Seq(Byte)]

FramesTyped ==
  /\ line \in Lines /\ wire \in Seq(Byte) /\ rx \in Receiving /\ rxBuffer \in Seq(Byte)
  /\ expected \in Seq(line.traffic) /\ Len(expected) <= 2
  /\ \A i \in 1 .. Len(expected) : Fits(line.kind, expected[i])
  /\ right \in BOOLEAN /\ damaged \in BOOLEAN /\ left \in Nat

FrameInv ==
  /\ FramesTyped
  /\ right
  /\ damaged => expected = <<>>
  /\ ~damaged => InStep(line.kind, wire, rx, rxBuffer, expected)

------------------------------------------------------------------------------
(* A length and its two bytes *)
LEMMA LengthOfBytes ==
  ASSUME NEW n \in Nat, n < Base * Base
  PROVE  /\ Lsb(n) \in Byte /\ Msb(n) \in Byte
         /\ Lsb(n) + Base * Msb(n) = n /\ Base * Msb(n) + Lsb(n) = n
<1>1. Base \in Nat /\ Base > 0
  BY ByteFacts
<1>2. n = Base * (n \div Base) + (n % Base) /\ n % Base \in 0 .. Base - 1 /\ n \div Base \in Nat
  BY <1>1
<1>3. n \div Base < Base
  BY <1>1, <1>2
<1> QED
  BY <1>1, <1>2, <1>3 DEF Lsb, Msb, Byte

(* A payload is a sequence of bytes, and its length takes two. *)
LEMMA PayloadTyped ==
  ASSUME NEW p \in Payloads
  PROVE  /\ p \in Seq(Byte) /\ Len(p) \in Nat /\ Len(p) > 0 /\ Len(p) < Base * Base
         /\ \A i \in 1 .. Len(p) : p[i] \in Byte
<1>1. p \in Seq(Byte) /\ p # <<>> /\ Len(p) < Base * Base
  BY FramingAssumption
<1> QED
  BY <1>1, LenProperties, EmptySeq

(* Where the bytes of two sequences are once they are joined. *)
LEMMA Joined ==
  ASSUME NEW s \in Seq(Byte), NEW t \in Seq(Byte)
  PROVE  /\ s \o t \in Seq(Byte) /\ Len(s \o t) = Len(s) + Len(t)
         /\ \A i \in 1 .. Len(s) : (s \o t)[i] = s[i]
         /\ \A i \in 1 .. Len(t) : (s \o t)[Len(s) + i] = t[i]
<1>1. /\ Len(s) \in Nat /\ Len(t) \in Nat /\ s \o t \in Seq(Byte)
      /\ Len(s \o t) = Len(s) + Len(t)
  BY ConcatProperties, LenProperties
<1>2. \A i \in 1 .. Len(s) + Len(t) : (s \o t)[i] = IF i <= Len(s) THEN s[i] ELSE t[i - Len(s)]
  BY ConcatProperties
<1>3. ASSUME NEW i \in 1 .. Len(t)
      PROVE  (s \o t)[Len(s) + i] = t[i]
  <2>1. /\ Len(s) + i \in 1 .. Len(s) + Len(t) /\ ~(Len(s) + i <= Len(s))
        /\ Len(s) + i - Len(s) = i
    BY <1>1
  <2> QED
    BY <1>2, <2>1
<1>4. ASSUME NEW i \in 1 .. Len(s)
      PROVE  (s \o t)[i] = s[i]
  <2>1. i \in 1 .. Len(s) + Len(t) /\ i <= Len(s)
    BY <1>1
  <2> QED
    BY <1>2, <2>1
<1> QED
  BY <1>1, <1>3, <1>4

(* What a frame holds where. *)
LEMMA FrameShape ==
  ASSUME NEW kind, NEW p \in Payloads
  PROVE  /\ Frame(kind, p) \in Seq(Byte)
         /\ Len(Frame(kind, p)) = IF kind = "bridge" THEN Len(p) + 6 ELSE Len(p) + 3
         /\ kind = "bridge" =>
              /\ Frame(kind, p)[1] = Magic1 /\ Frame(kind, p)[2] = Magic2
              /\ Frame(kind, p)[3] = Msb(Len(p)) /\ Frame(kind, p)[4] = Lsb(Len(p))
              /\ \A i \in 1 .. Len(p) : Frame(kind, p)[4 + i] = p[i]
              /\ \A i \in 1 .. 2 : Frame(kind, p)[4 + Len(p) + i] = Checksum(p)[i]
         /\ kind # "bridge" =>
              /\ Frame(kind, p)[1] = Mark
              /\ Frame(kind, p)[2] = Lsb(Len(p)) /\ Frame(kind, p)[3] = Msb(Len(p))
              /\ \A i \in 1 .. Len(p) : Frame(kind, p)[3 + i] = p[i]
<1> DEFINE l == Lsb(Len(p))
           m == Msb(Len(p))
           c == Checksum(p)
<1>1. /\ p \in Seq(Byte) /\ Len(p) \in Nat /\ c \in Seq(Byte) /\ Len(c) = 2
      /\ l \in Byte /\ m \in Byte
  BY PayloadTyped, LengthOfBytes, ChecksumIsBytes
<1> HIDE DEF l, m, c
<1>2. /\ Mark \in Byte /\ Magic1 \in Byte /\ Magic2 \in Byte
  BY ByteFacts
<1>3. CASE kind = "bridge"
  <2> DEFINE h  == <<Magic1, Magic2, m, l>>
             hp == h \o p
             f  == hp \o c
  <2>1. h \in Seq(Byte) /\ Len(h) = 4 /\ h[1] = Magic1 /\ h[2] = Magic2 /\ h[3] = m /\ h[4] = l
    BY <1>1, <1>2
  <2>2. Frame(kind, p) = f
    BY <1>3 DEF Frame, l, m, c
  <2> HIDE DEF h
  <2>3. /\ hp \in Seq(Byte) /\ Len(hp) = 4 + Len(p)
        /\ \A i \in 1 .. 4 : hp[i] = h[i]
        /\ \A i \in 1 .. Len(p) : hp[4 + i] = p[i]
    <3>1. /\ hp \in Seq(Byte) /\ Len(hp) = Len(h) + Len(p)
          /\ \A i \in 1 .. Len(h) : hp[i] = h[i]
          /\ \A i \in 1 .. Len(p) : hp[Len(h) + i] = p[i]
      BY <1>1, <2>1, Joined
    <3> HIDE DEF hp
    <3> QED
      BY <2>1, <3>1
  <2> HIDE DEF hp
  <2>4. /\ f \in Seq(Byte) /\ Len(f) = 4 + Len(p) + 2
        /\ \A i \in 1 .. 4 + Len(p) : f[i] = hp[i]
        /\ \A i \in 1 .. 2 : f[4 + Len(p) + i] = c[i]
    <3>1. Len(hp) = 4 + Len(p) /\ Len(c) = 2
      BY <1>1, <2>3
    <3>2. /\ f \in Seq(Byte) /\ Len(f) = Len(hp) + Len(c)
          /\ \A i \in 1 .. Len(hp) : f[i] = hp[i]
          /\ \A i \in 1 .. Len(c) : f[Len(hp) + i] = c[i]
      BY <1>1, <2>3, Joined
    <3> HIDE DEF f
    <3> QED
      BY <3>1, <3>2
  <2> HIDE DEF f
  <2>5. 1 \in 1 .. 4 /\ 2 \in 1 .. 4 /\ 3 \in 1 .. 4 /\ 4 \in 1 .. 4
    OBVIOUS
  <2>6. \A i \in 1 .. 4 : i \in 1 .. 4 + Len(p)
    BY <1>1
  <2>7. \A i \in 1 .. 4 : f[i] = h[i]
    BY <2>3, <2>4, <2>6
  <2>8. \A i \in 1 .. Len(p) : 4 + i \in 1 .. 4 + Len(p)
    BY <1>1
  <2>9. \A i \in 1 .. Len(p) : f[4 + i] = p[i]
    BY <2>3, <2>4, <2>8
  <2>10. Len(f) = Len(p) + 6
    BY <1>1, <2>4
  <2>11. f[1] = Magic1 /\ f[2] = Magic2 /\ f[3] = m /\ f[4] = l
    BY <2>1, <2>5, <2>7
  <2> QED
    BY <1>3, <2>2, <2>4, <2>9, <2>10, <2>11 DEF l, m, c
<1>4. CASE kind # "bridge"
  <2> DEFINE h == <<Mark, l, m>>
             f == h \o p
  <2>1. h \in Seq(Byte) /\ Len(h) = 3 /\ h[1] = Mark /\ h[2] = l /\ h[3] = m
    BY <1>1, <1>2
  <2>2. Frame(kind, p) = f
    BY <1>4 DEF Frame, l, m
  <2> HIDE DEF h
  <2>3. /\ f \in Seq(Byte) /\ Len(f) = 3 + Len(p)
        /\ \A i \in 1 .. 3 : f[i] = h[i]
        /\ \A i \in 1 .. Len(p) : f[3 + i] = p[i]
    <3>1. /\ f \in Seq(Byte) /\ Len(f) = Len(h) + Len(p)
          /\ \A i \in 1 .. Len(h) : f[i] = h[i]
          /\ \A i \in 1 .. Len(p) : f[Len(h) + i] = p[i]
      BY <1>1, <2>1, Joined
    <3> HIDE DEF f
    <3> QED
      BY <2>1, <3>1
  <2> HIDE DEF f
  <2>4. 1 \in 1 .. 3 /\ 2 \in 1 .. 3 /\ 3 \in 1 .. 3
    OBVIOUS
  <2>5. Len(f) = Len(p) + 3
    BY <1>1, <2>3
  <2>6. f[1] = Mark /\ f[2] = l /\ f[3] = m
    BY <2>1, <2>3, <2>4
  <2> QED
    BY <1>4, <2>2, <2>3, <2>5, <2>6 DEF l, m
<1> QED
  BY <1>3, <1>4

------------------------------------------------------------------------------
(* What is put on the wire, and read off it byte by byte *)
FlatAs(seqs) ==
  /\ Len(seqs) = 1 => FlattenSeq(seqs) = seqs[1]
  /\ Len(seqs) = 2 => FlattenSeq(seqs) = seqs[1] \o seqs[2]

(* A burst of one or two frames is these one after the other. *)
LEMMA Flattened ==
  ASSUME NEW seqs, Len(seqs) \in {1, 2}
  PROVE  FlatAs(seqs)
<1> DEFINE Is(f) == f = [i \in 1 .. Len(seqs) |-> IF i = 1 THEN seqs[i] ELSE f[i - 1] \o seqs[i]]
           flatten == CHOOSE f : Is(f)
           two == [i \in 1 .. Len(seqs) |-> IF i = 1 THEN seqs[1] ELSE seqs[1] \o seqs[2]]
<1>1. FlattenSeq(seqs) = flatten[Len(seqs)]
  <2>1. Len(seqs) # 0
    OBVIOUS
  <2> QED
    BY <2>1, Zenon DEF FlattenSeq
<1>2. Is(two)
  <2>1. \A i \in 1 .. Len(seqs) :
          two[i] = IF i = 1 THEN seqs[i] ELSE two[i - 1] \o seqs[i]
    <3> TAKE i \in 1 .. Len(seqs)
    <3> HIDE DEF two
    <3>1. i = 1 \/ (i = 2 /\ i - 1 = 1 /\ 1 \in 1 .. Len(seqs))
      <4>1. CASE Len(seqs) = 1
        <5>1. 1 .. Len(seqs) = {1}
          BY <4>1
        <5> QED
          BY <5>1
      <4>2. CASE Len(seqs) = 2
        <5>1. 1 .. Len(seqs) = {1, 2}
          BY <4>2
        <5> QED
          BY <5>1
      <4> QED
        BY <4>1, <4>2
    <3> USE DEF two
    <3> QED
      BY <3>1
  <2>2. two = [i \in 1 .. Len(seqs) |-> two[i]]
    OBVIOUS
  <2> HIDE DEF two
  <2> QED
    BY <2>1, <2>2
<1>3. Is(flatten)
  <2> HIDE DEF Is
  <2> QED
    BY <1>2
<1> HIDE DEF flatten
<1>4. \A i \in 1 .. Len(seqs) : flatten[i] = IF i = 1 THEN seqs[i] ELSE flatten[i - 1] \o seqs[i]
  BY <1>3
<1>5. CASE Len(seqs) = 1
  <2>1. flatten[1] = seqs[1]
    BY <1>4, <1>5
  <2> QED
    BY <1>1, <1>5, <2>1 DEF FlatAs
<1>6. CASE Len(seqs) = 2
  <2>1. /\ 1 \in 1 .. Len(seqs) /\ 2 \in 1 .. Len(seqs) /\ 2 - 1 = 1 /\ 2 # 1
    BY <1>6
  <2>2. flatten[1] = seqs[1] /\ flatten[2] = flatten[2 - 1] \o seqs[2]
    BY <1>4, <2>1
  <2> QED
    BY <1>1, <1>6, <2>1, <2>2 DEF FlatAs
<1> QED
  BY <1>5, <1>6 DEF FlatAs

(* Frame and Fits are what the line makes of a payload. *)
LEMMA KindOfLine ==
  ASSUME line \in Lines
  PROVE  /\ line.kind \in {"device", "gateway", "bridge"}
         /\ \A p \in line.traffic : p \in Payloads
         /\ \A p : Framed(p) = Frame(line.kind, p)
         /\ \A p : MaySend(p) => Fits(line.kind, p)
<1>1. line.kind \in {"device", "gateway", "bridge"}
  BY FramingAssumption
<1>2. \A p \in line.traffic : p \in Payloads
  BY DEF Payloads
<1>3. \A p : Framed(p) = Frame(line.kind, p)
  BY DEF Framed, Frame
<1>4. \A p : MaySend(p) => Fits(line.kind, p)
  BY DEF MaySend, Fits
<1> QED
  BY <1>1, <1>2, <1>3, <1>4

(* A burst is all of its first frame, then the second. *)
LEMMA BurstOnWire ==
  ASSUME line \in Lines,
         NEW burst \in {<<p>> : p \in line.traffic} \cup (line.traffic \X line.traffic),
         NEW w, w = FlattenSeq([i \in 1 .. Len(burst) |-> Framed(burst[i])])
  PROVE  /\ burst \in Seq(line.traffic) /\ Len(burst) \in 1 .. 2 /\ w \in Seq(Byte)
         /\ OnWire(w, 0, Frame(line.kind, burst[1]), Following(line.kind, burst))
<1> DEFINE seqs == [i \in 1 .. Len(burst) |-> Framed(burst[i])]
           f == Frame(line.kind, burst[1])
           g == Following(line.kind, burst)
<1>1. /\ burst \in Seq(line.traffic) /\ Len(burst) \in {1, 2}
      /\ \A i \in 1 .. Len(burst) : burst[i] \in line.traffic
  OBVIOUS
<1>2. Len(burst) \in Nat /\ Len(seqs) = Len(burst)
  BY <1>1
<1>3. \A i \in 1 .. Len(burst) : seqs[i] = Frame(line.kind, burst[i])
  BY KindOfLine
<1>4. /\ Len(seqs) = 1 => w = seqs[1]
      /\ Len(seqs) = 2 => w = seqs[1] \o seqs[2]
  <2> HIDE DEF seqs
  <2>1. w = FlattenSeq(seqs)
    BY DEF seqs
  <2>2. Len(seqs) \in {1, 2}
    BY <1>1, <1>2
  <2>3. FlatAs(seqs)
    BY <2>2, Flattened
  <2> QED
    BY <2>1, <2>3 DEF FlatAs
<1>5. burst[1] \in Payloads /\ seqs[1] = f /\ f \in Seq(Byte)
  <2>1. 1 \in 1 .. Len(burst)
    BY <1>1
  <2> QED
    BY <1>1, <1>3, <2>1, KindOfLine, FrameShape
<1> HIDE DEF seqs, f
<1>6. CASE Len(burst) = 1
  <2>1. w = f /\ g = <<>>
    BY <1>2, <1>4, <1>5, <1>6 DEF Following
  <2>2. Len(f) \in Nat /\ Len(g) = 0
    BY <1>5, <2>1, LenProperties
  <2> HIDE DEF g
  <2>3. OnWire(w, 0, f, g)
    <3>1. Len(f) = Len(f) - 0 + Len(g) /\ Len(f) - 0 = Len(f) /\ \A i \in 1 .. Len(f) : 0 + i = i
      BY <2>2
    <3>2. 1 .. Len(g) = {}
      BY <2>2
    <3> QED
      BY <2>1, <3>1, <3>2 DEF OnWire
  <2> QED
    BY <1>1, <1>5, <2>1, <2>3 DEF f, g
<1>7. CASE Len(burst) = 2
  <2>1. burst[2] \in Payloads /\ seqs[2] = g /\ g \in Seq(Byte)
    <3>1. 2 \in 1 .. Len(burst)
      BY <1>7
    <3> QED
      BY <1>1, <1>3, <1>7, <3>1, KindOfLine, FrameShape DEF Following
  <2> HIDE DEF g
  <2>2. w = f \o g
    BY <1>2, <1>4, <1>5, <1>7, <2>1
  <2>3. /\ w \in Seq(Byte) /\ Len(w) = Len(f) + Len(g)
        /\ \A i \in 1 .. Len(f) : w[i] = f[i]
        /\ \A i \in 1 .. Len(g) : w[Len(f) + i] = g[i]
    <3>1. /\ f \o g \in Seq(Byte) /\ Len(f \o g) = Len(f) + Len(g)
          /\ \A i \in 1 .. Len(f) : (f \o g)[i] = f[i]
          /\ \A i \in 1 .. Len(g) : (f \o g)[Len(f) + i] = g[i]
      BY <1>5, <2>1, Joined
    <3> QED
      BY <2>2, <3>1
  <2>4. Len(f) \in Nat /\ Len(g) \in Nat
    BY <1>5, <2>1, LenProperties
  <2>5. OnWire(w, 0, f, g)
    BY <2>3, <2>4 DEF OnWire
  <2> QED
    BY <1>1, <2>3, <2>5 DEF f, g
<1> QED
  BY <1>1, <1>6, <1>7

(* The first byte on the wire is the next of the frame. *)
LEMMA NextOnWire ==
  ASSUME NEW w \in Seq(Byte), NEW f \in Seq(Byte), NEW g \in Seq(Byte),
         NEW k \in 0 .. Len(f) - 1, OnWire(w, k, f, g)
  PROVE  /\ w # <<>> /\ Head(w) = f[k + 1] /\ Head(w) \in Byte /\ Tail(w) \in Seq(Byte)
         /\ k + 1 < Len(f) => OnWire(Tail(w), k + 1, f, g)
         /\ k + 1 = Len(f) => Tail(w) = g
<1>1. /\ Len(w) \in Nat /\ Len(f) \in Nat /\ Len(g) \in Nat /\ k \in Nat /\ k < Len(f)
      /\ Len(w) = Len(f) - k + Len(g)
  BY LenProperties DEF OnWire
<1>2. Len(w) > 0 /\ w # <<>> /\ w[1] = f[k + 1] /\ Head(w) = w[1] /\ w[1] \in Byte
  <2>1. Len(w) > 0 /\ 1 \in 1 .. Len(f) - k
    BY <1>1
  <2>2. w # <<>>
    BY <2>1
  <2> QED
    BY <2>1, <2>2 DEF OnWire
<1> DEFINE t == Tail(w)
<1>3. t \in Seq(Byte) /\ Len(t) = Len(w) - 1 /\ \A i \in 1 .. Len(w) - 1 : t[i] = w[i + 1]
  BY <1>2, HeadTailProperties
<1> HIDE DEF t
<1>4. \A i \in 1 .. Len(f) - (k + 1) : t[i] = f[k + 1 + i]
  <2> TAKE i \in 1 .. Len(f) - (k + 1)
  <2>1. i \in 1 .. Len(w) - 1 /\ i + 1 \in 1 .. Len(f) - k /\ k + (i + 1) = k + 1 + i
    BY <1>1
  <2> QED
    BY <1>3, <2>1 DEF OnWire
<1>5. \A i \in 1 .. Len(g) : t[Len(f) - (k + 1) + i] = g[i]
  <2> TAKE i \in 1 .. Len(g)
  <2>1. /\ Len(f) - (k + 1) + i \in 1 .. Len(w) - 1
        /\ Len(f) - (k + 1) + i + 1 = Len(f) - k + i
    BY <1>1
  <2>2. w[Len(f) - k + i] = g[i]
    BY DEF OnWire
  <2> QED
    BY <1>3, <2>1, <2>2
<1>6. ASSUME k + 1 < Len(f)
      PROVE  OnWire(t, k + 1, f, g)
  <2>1. Len(t) = Len(f) - (k + 1) + Len(g)
    BY <1>1, <1>3
  <2> QED
    BY <1>4, <1>5, <2>1 DEF OnWire
<1>7. ASSUME k + 1 = Len(f)
      PROVE  t = g
  <2>1. Len(t) = Len(g)
    <3>1. Len(t) = Len(w) - 1
      BY <1>3
    <3> QED
      BY <1>1, <1>7, <3>1
  <2>2. \A i \in 1 .. Len(g) : t[i] = g[i]
    <3> TAKE i \in 1 .. Len(g)
    <3>1. Len(f) - (k + 1) + i = i
      BY <1>1, <1>7
    <3> QED
      BY <1>5, <3>1
  <2> QED
    BY <1>3, <2>1, <2>2, SeqEqual
<1> QED
  BY <1>2, <1>3, <1>6, <1>7 DEF t

------------------------------------------------------------------------------
(* The machine of the device, byte by byte *)
Arrives(kind, p) == IF kind = "device" THEN Clipped(p, MaxFrame) ELSE p

Advances(kind, p, k, r, b, frames) ==
  \/ /\ k + 1 < Len(Frame(kind, p)) /\ frames = <<>>
     /\ Stands(kind, r, b, k + 1, p)
  \/ /\ k + 1 = Len(Frame(kind, p)) /\ frames = <<Arrives(kind, p)>>
     /\ Rests(kind, r, b)

(* The fields of the machine. *)
LEMMA ReceivingFields ==
  ASSUME NEW r \in Receiving
  PROVE  /\ r.state \in {"idle", "header", "length", "body"}
         /\ r.frame_len \in Nat /\ r.rx_len \in Nat /\ r.rx_buf \in Seq(Byte)
BY DEF Receiving

(* The body of a frame: one byte more. *)
LEMMA BodyByteFields ==
  ASSUME NEW r \in Receiving, NEW b \in Byte
  PROVE  /\ BodyByte(r, b) \in Receiving
         /\ BodyByte(r, b).state = r.state /\ BodyByte(r, b).frame_len = r.frame_len
         /\ BodyByte(r, b).rx_len = r.rx_len + 1
         /\ BodyByte(r, b).rx_buf = IF r.rx_len < MaxFrame THEN Append(r.rx_buf, b) ELSE r.rx_buf
<1> DEFINE buf == IF r.rx_len < MaxFrame THEN Append(r.rx_buf, b) ELSE r.rx_buf
<1>1. buf \in Seq(Byte) /\ r.rx_len + 1 \in Nat
  BY ReceivingFields, AppendProperties
<1>2. BodyByte(r, b) = [r EXCEPT !.rx_buf = buf, !.rx_len = r.rx_len + 1]
  BY DEF BodyByte
<1> HIDE DEF buf
<1>3. BodyByte(r, b) = [state |-> r.state, frame_len |-> r.frame_len,
                        rx_len |-> r.rx_len + 1, rx_buf |-> buf]
  BY <1>2 DEF Receiving
<1>4. BodyByte(r, b) \in Receiving
  BY <1>1, <1>3, ReceivingFields DEF Receiving
<1> QED
  BY <1>3, <1>4 DEF buf

(* The machine after a header. *)
LEMMA HeaderReadFields ==
  ASSUME NEW r \in Receiving, NEW len \in Nat
  PROVE  /\ HeaderRead(r, len) \in Receiving
         /\ HeaderRead(r, len).frame_len = len /\ HeaderRead(r, len).rx_len = 0
         /\ HeaderRead(r, len).rx_buf = <<>>
         /\ HeaderRead(r, len).state = IF len > 0 THEN "body" ELSE "idle"
<1> DEFINE st == IF len > 0 THEN "body" ELSE "idle"
<1>1. st \in {"idle", "header", "length", "body"} /\ <<>> \in Seq(Byte)
  BY EmptySeq
<1>2. HeaderRead(r, len) = [r EXCEPT !.frame_len = len, !.rx_len = 0, !.rx_buf = <<>>, !.state = st]
  BY DEF HeaderRead
<1> HIDE DEF st
<1>3. HeaderRead(r, len) = [state |-> st, frame_len |-> len, rx_len |-> 0, rx_buf |-> <<>>]
  BY <1>2 DEF Receiving
<1>4. HeaderRead(r, len) \in Receiving
  BY <1>1, <1>3 DEF Receiving
<1> QED
  BY <1>3, <1>4 DEF st

(* The machine keeps its type whatever byte comes. *)
LEMMA MachineTyped ==
  ASSUME NEW r \in Receiving, NEW b \in Byte
  PROVE  Machine(r, b) \in Receiving
<1>1. b \in Nat /\ r.frame_len + Base * b \in Nat
  BY ByteFacts, ReceivingFields
<1>2. CASE r.state = "idle"
  BY <1>2 DEF Machine, Receiving
<1>3. CASE r.state = "header"
  BY <1>1, <1>3 DEF Machine, Receiving
<1>4. CASE r.state = "length"
  <2>1. Machine(r, b) = HeaderRead(r, r.frame_len + Base * b)
    BY <1>4 DEF Machine
  <2> QED
    BY <1>1, <2>1, HeaderReadFields
<1>5. CASE r.state = "body"
  <2> DEFINE next == BodyByte(r, b)
  <2>1. Machine(r, b) = IF next.rx_len >= next.frame_len THEN [next EXCEPT !.state = "idle"] ELSE next
    BY <1>5 DEF Machine
  <2>2. next \in Receiving
    BY BodyByteFields
  <2> HIDE DEF next
  <2>3. [next EXCEPT !.state = "idle"] \in Receiving
    BY <2>2 DEF Receiving
  <2> QED
    BY <2>1, <2>2, <2>3
<1> QED
  BY <1>2, <1>3, <1>4, <1>5, ReceivingFields

(* What the machine has kept of a payload is what it gives out. *)
LEMMA KeptIsClipped ==
  ASSUME NEW p \in Seq(Byte), NEW q \in Seq(Byte), Len(q) = Least2(Len(p), MaxFrame),
         \A i \in 1 .. Len(q) : q[i] = p[i]
  PROVE  Clipped(q, Len(p)) = Clipped(p, MaxFrame)
<1> DEFINE n == Least2(Len(p), MaxFrame)
<1>1. Len(p) \in Nat /\ Len(q) \in Nat /\ MaxFrame \in Nat /\ Len(q) = n /\ n \in Nat /\ n <= Len(p)
  BY LenProperties, ByteFacts DEF Least2
<1>2. Clipped(p, MaxFrame) = SubSeq(p, 1, n)
  BY <1>1 DEF Clipped, Least2
<1>3. Clipped(q, Len(p)) = SubSeq(q, 1, n)
  <2>1. (IF Len(q) < Len(p) THEN Len(q) ELSE Len(p)) = n
    BY <1>1
  <2> QED
    BY <2>1 DEF Clipped
<1> HIDE DEF n
<1>4. \A i \in 1 .. n : p[i] \in Byte /\ q[i] = p[i] /\ q[i] \in Byte /\ 1 + i - 1 = i
  <2> TAKE i \in 1 .. n
  <2>1. i \in 1 .. Len(p) /\ i \in 1 .. Len(q) /\ 1 + i - 1 = i
    BY <1>1
  <2> QED
    BY <2>1
<1>5. /\ SubSeq(p, 1, n) \in Seq(Byte) /\ SubSeq(q, 1, n) \in Seq(Byte)
      /\ Len(SubSeq(p, 1, n)) = n /\ Len(SubSeq(q, 1, n)) = n
      /\ \A i \in 1 .. n : SubSeq(p, 1, n)[i] = p[i] /\ SubSeq(q, 1, n)[i] = q[i]
  BY <1>1, <1>4, SubSeqProperties
<1> QED
  BY <1>2, <1>3, <1>4, <1>5, SeqEqual

(* The machine that holds so many bytes of a frame holds one more with the next. *)
LEMMA DeviceAdvances ==
  ASSUME NEW r \in Receiving, NEW p \in Payloads, NEW buffer,
         NEW k \in 0 .. Len(Frame("device", p)) - 1, Stands("device", r, buffer, k, p),
         NEW b, b = Frame("device", p)[k + 1]
  PROVE  Advances("device", p, k, Machine(r, b), buffer, DeviceFrames(r, Machine(r, b)))
<1> DEFINE f    == Frame("device", p)
           n    == Len(p)
           next == Machine(r, b)
           out  == DeviceFrames(r, next)
<1>1. /\ p \in Seq(Byte) /\ n \in Nat /\ n > 0 /\ Len(f) = n + 3 /\ f \in Seq(Byte)
      /\ f[1] = Mark /\ f[2] = Lsb(n) /\ f[3] = Msb(n)
      /\ \A i \in 1 .. n : f[3 + i] = p[i]
  BY PayloadTyped, FrameShape
<1>2. /\ Lsb(n) \in Byte /\ Msb(n) \in Byte /\ Lsb(n) + Base * Msb(n) = n
  BY PayloadTyped, LengthOfBytes
<1>3. k \in Nat /\ k < n + 3 /\ b = f[k + 1]
  BY <1>1
<1> HIDE DEF f, n
<1>4. CASE k = 0
  <2>1. r.state = "idle"
    BY <1>4 DEF Stands, Rests
  <2>2. b = Mark
    BY <1>1, <1>3, <1>4
  <2>3. next = [r EXCEPT !.state = "header"]
    BY <2>1, <2>2 DEF Machine
  <2>4. next.state = "header"
    BY <2>3 DEF Receiving
  <2> HIDE DEF next
  <2>5. out = <<>>
    BY <2>1 DEF DeviceFrames
  <2>6. Stands("device", next, buffer, 1, p)
    BY <2>4 DEF Stands, Within
  <2>7. k + 1 = 1 /\ k + 1 < Len(f)
    BY <1>1, <1>4
  <2> QED
    BY <2>5, <2>6, <2>7 DEF Advances, f, next
<1>5. CASE k = 1
  <2>1. r.state = "header"
    BY <1>5 DEF Stands, Within
  <2>2. b = Lsb(n)
    BY <1>1, <1>3, <1>5
  <2>3. next = [r EXCEPT !.frame_len = b, !.state = "length"]
    BY <2>1 DEF Machine
  <2>4. next.state = "length" /\ next.frame_len = Lsb(n)
    BY <2>2, <2>3 DEF Receiving
  <2> HIDE DEF next
  <2>5. out = <<>>
    BY <2>1 DEF DeviceFrames
  <2>6. Stands("device", next, buffer, 2, p)
    BY <2>4 DEF Stands, Within, n
  <2>7. k + 1 = 2 /\ k + 1 < Len(f)
    BY <1>1, <1>5
  <2> QED
    BY <2>5, <2>6, <2>7 DEF Advances, f, next
<1>6. CASE k = 2
  <2>1. r.state = "length" /\ r.frame_len = Lsb(n)
    BY <1>6 DEF Stands, Within, n
  <2>2. b = Msb(n)
    BY <1>1, <1>3, <1>6
  <2>3. next = HeaderRead(r, n)
    BY <1>2, <2>1, <2>2 DEF Machine
  <2>4. /\ next.state = "body" /\ next.frame_len = n /\ next.rx_len = 0 /\ next.rx_buf = <<>>
    <3>1. /\ HeaderRead(r, n).frame_len = n /\ HeaderRead(r, n).rx_len = 0
          /\ HeaderRead(r, n).rx_buf = <<>>
          /\ HeaderRead(r, n).state = IF n > 0 THEN "body" ELSE "idle"
      BY <1>1, HeaderReadFields
    <3> HIDE DEF next
    <3> QED
      BY <1>1, <2>3, <3>1
  <2> HIDE DEF next
  <2>5. out = <<>>
    BY <2>1 DEF DeviceFrames
  <2>6. Stands("device", next, buffer, 3, p)
    <3>1. Least2(0, MaxFrame) = 0 /\ 3 - 3 = 0 /\ 3 > 2 /\ 3 # 0
      BY ByteFacts DEF Least2
    <3>2. Len(<<>>) = 0 /\ 1 .. 0 = {}
      BY EmptySeq
    <3>3. Within(next, 3, p)
      BY <2>4, <3>1, <3>2 DEF Within, n
    <3> QED
      BY <3>1, <3>3 DEF Stands
  <2>7. k + 1 = 3 /\ k + 1 < Len(f)
    BY <1>1, <1>6
  <2> QED
    BY <2>5, <2>6, <2>7 DEF Advances, f, next
<1>7. CASE k > 2
  <2> DEFINE m == k - 2
             q == BodyByte(r, b)
  <2>1. /\ r.state = "body" /\ r.frame_len = n /\ r.rx_len = k - 3
        /\ Len(r.rx_buf) = Least2(k - 3, MaxFrame)
        /\ \A i \in 1 .. Len(r.rx_buf) : r.rx_buf[i] = p[i]
    <3>1. k # 0 /\ k # 1 /\ k # 2
      BY <1>3, <1>7
    <3> QED
      BY <3>1 DEF Stands, Within, n
  <2>2. m \in 1 .. n /\ 3 + m = k + 1 /\ m - 1 = k - 3 /\ k - 3 \in Nat
    <3>1. k \in Nat /\ n \in Nat /\ k <= n + 2
      BY <1>1, <1>3
    <3> HIDE DEF n
    <3> QED
      BY <3>1, <1>7
  <2>3. b = p[m] /\ b \in Byte
    BY <1>1, <1>3, <2>2, PayloadTyped DEF n
  <2>4. /\ q \in Receiving /\ q.state = "body" /\ q.frame_len = n /\ q.rx_len = m
        /\ q.rx_buf = IF r.rx_len < MaxFrame THEN Append(r.rx_buf, b) ELSE r.rx_buf
    <3>1. r.rx_len + 1 = m
      BY <2>1, <2>2
    <3> QED
      BY <2>1, <2>3, <3>1, BodyByteFields
  <2>5. /\ q.rx_buf \in Seq(Byte) /\ Len(q.rx_buf) = Least2(m, MaxFrame)
        /\ \A i \in 1 .. Len(q.rx_buf) : q.rx_buf[i] = p[i]
    <3>1. r.rx_buf \in Seq(Byte) /\ MaxFrame \in Nat /\ q.rx_buf \in Seq(Byte)
      BY <2>4, ByteFacts, ReceivingFields
    <3>2. CASE k - 3 < MaxFrame
      <4>1. Len(r.rx_buf) = m - 1 /\ Least2(m, MaxFrame) = m /\ m - 1 + 1 = m
        BY <2>1, <2>2, <3>1, <3>2 DEF Least2
      <4>2. q.rx_buf = Append(r.rx_buf, b)
        BY <2>1, <2>4, <3>2
      <4>3. /\ Len(Append(r.rx_buf, b)) = m
            /\ \A i \in 1 .. m - 1 : Append(r.rx_buf, b)[i] = r.rx_buf[i]
            /\ Append(r.rx_buf, b)[m] = b
        BY <2>3, <3>1, <4>1, AppendProperties
      <4>4. \A i \in 1 .. m : i \in 1 .. m - 1 \/ i = m
        BY <2>2
      <4> HIDE DEF m, q
      <4>5. \A i \in 1 .. m : q.rx_buf[i] = p[i]
        BY <2>1, <2>3, <4>1, <4>2, <4>3, <4>4
      <4> QED
        BY <3>1, <4>1, <4>2, <4>3, <4>5
    <3>3. CASE ~(k - 3 < MaxFrame)
      <4>1. Least2(k - 3, MaxFrame) = MaxFrame /\ Least2(m, MaxFrame) = MaxFrame
        BY <2>2, <3>1, <3>3 DEF Least2
      <4>2. q.rx_buf = r.rx_buf
        BY <2>1, <2>4, <3>3
      <4> HIDE DEF m, q
      <4> QED
        BY <2>1, <3>1, <4>1, <4>2
    <3> QED
      BY <3>2, <3>3
  <2>6. next = IF q.rx_len >= q.frame_len THEN [q EXCEPT !.state = "idle"] ELSE q
    BY <2>1 DEF Machine
  <2> HIDE DEF q, next
  <2>7. CASE m < n
    <3>1. next = q
      BY <1>1, <2>2, <2>4, <2>6, <2>7
    <3>2. out = <<>>
      BY <2>4, <3>1 DEF DeviceFrames
    <3>3. k + 1 < Len(f) /\ k + 1 > 2 /\ k + 1 # 0 /\ k + 1 - 3 = m
      BY <1>1, <1>3, <1>7, <2>7
    <3>4. Within(q, k + 1, p)
      BY <2>4, <2>5, <3>3 DEF Within, n
    <3> QED
      BY <3>1, <3>2, <3>3, <3>4 DEF Advances, Stands, f, next
  <2>8. CASE m = n
    <3>1. next = [q EXCEPT !.state = "idle"]
      BY <1>1, <2>2, <2>4, <2>6, <2>8
    <3>2. next.state = "idle" /\ next.rx_buf = q.rx_buf
      BY <2>4, <3>1 DEF Receiving
    <3>3. out = <<Clipped(q.rx_buf, n)>>
      BY <2>1, <3>2 DEF DeviceFrames
    <3>4. Clipped(q.rx_buf, n) = Clipped(p, MaxFrame)
      BY <1>1, <2>5, <2>8, KeptIsClipped DEF n
    <3>5. k + 1 = Len(f)
      BY <1>1, <1>3, <2>8
    <3>6. Rests("device", next, buffer)
      BY <3>2 DEF Rests
    <3>7. out = <<Arrives("device", p)>>
      BY <3>3, <3>4 DEF Arrives
    <3> HIDE DEF out
    <3>8. Advances("device", p, k, next, buffer, out)
      BY <3>5, <3>6, <3>7 DEF Advances, f
    <3> QED
      BY <3>8 DEF out, next
  <2>9. m < n \/ m = n
    BY <1>1, <2>2
  <2> QED
    BY <2>7, <2>8, <2>9
<1> QED
  BY <1>3, <1>4, <1>5, <1>6, <1>7

------------------------------------------------------------------------------
(* The bridge, byte by byte *)
LEMMA OneMore ==
  ASSUME NEW b \in Seq(Byte), NEW x \in Byte
  PROVE  /\ Append(b, x) \in Seq(Byte) /\ Len(Append(b, x)) = Len(b) + 1 /\ Len(b) \in Nat
         /\ \A i \in 1 .. Len(b) : Append(b, x)[i] = b[i]
         /\ Append(b, x)[Len(b) + 1] = x
BY AppendProperties, LenProperties

(* A part of a sequence of bytes. *)
LEMMA Middle ==
  ASSUME NEW b \in Seq(Byte), NEW m \in Nat, NEW n \in Nat, m + n <= Len(b),
         NEW from, NEW to, from = m + 1, to = m + n
  PROVE  /\ SubSeq(b, from, to) \in Seq(Byte) /\ Len(SubSeq(b, from, to)) = n
         /\ \A i \in 1 .. n : SubSeq(b, from, to)[i] = b[m + i]
<1>1. /\ from \in Int /\ to \in Int /\ Len(b) \in Nat
      /\ (IF from <= to THEN to - from + 1 ELSE 0) = n /\ to - from + 1 = n
  BY LenProperties
<1>2. \A i \in from .. to : b[i] \in Byte
  <2> TAKE i \in from .. to
  <2>1. i \in 1 .. Len(b)
    BY <1>1
  <2> QED
    BY <2>1
<1>3. /\ SubSeq(b, from, to) \in Seq(Byte)
      /\ Len(SubSeq(b, from, to)) = IF from <= to THEN to - from + 1 ELSE 0
      /\ \A i \in 1 .. to - from + 1 : SubSeq(b, from, to)[i] = b[from + i - 1]
  BY <1>1, <1>2, SubSeqProperties
<1> DEFINE q == SubSeq(b, from, to)
<1> HIDE DEF q
<1>4. q \in Seq(Byte) /\ Len(q) = n /\ \A i \in 1 .. n : q[i] = b[from + i - 1]
  BY <1>1, <1>3 DEF q
<1>5. \A i \in 1 .. n : from + i - 1 = m + i
  OBVIOUS
<1> QED
  BY <1>4, <1>5 DEF q

(* The next byte of a frame, added to those before it. *)
LEMMA BegunGrows ==
  ASSUME NEW f \in Seq(Byte), NEW k \in 0 .. Len(f) - 1, NEW b, Begun(b, k, f)
  PROVE  Begun(Append(b, f[k + 1]), k + 1, f) /\ f[k + 1] \in Byte
<1>1. b \in Seq(Byte) /\ Len(b) = k /\ \A i \in 1 .. k : b[i] = f[i]
  BY DEF Begun
<1>2. Len(f) \in Nat /\ k \in Nat /\ k + 1 \in 1 .. Len(f)
  BY LenProperties
<1>3. f[k + 1] \in Byte
  BY <1>2
<1> DEFINE a == Append(b, f[k + 1])
<1>4. /\ a \in Seq(Byte) /\ Len(a) = k + 1
      /\ \A i \in 1 .. k : a[i] = b[i]
      /\ a[k + 1] = f[k + 1]
  <2>1. /\ a \in Seq(Byte) /\ Len(a) = Len(b) + 1
        /\ \A i \in 1 .. Len(b) : a[i] = b[i]
        /\ a[Len(b) + 1] = f[k + 1]
    BY <1>1, <1>3, OneMore
  <2> HIDE DEF a
  <2> QED
    BY <1>1, <2>1
<1> HIDE DEF a
<1>5. \A i \in 1 .. k + 1 : i \in 1 .. k \/ i = k + 1
  BY <1>2
<1>6. \A i \in 1 .. k + 1 : a[i] = f[i]
  BY <1>1, <1>4, <1>5
<1> QED
  BY <1>3, <1>4, <1>6 DEF Begun, a

(* The buffer of the bridge stays one of bytes. *)
LEMMA BridgedTyped ==
  ASSUME NEW buffer \in Seq(Byte), NEW b \in Byte
  PROVE  Bridged(buffer, b).buffer \in Seq(Byte)
<1> DEFINE pos == Len(buffer)
           buf == Append(buffer, b)
           len == Base * buf[3] + buf[4]
           out == Bridged(buffer, b)
           match == b = <<Magic1, Magic2>>[pos + 1]
<1>1. buf \in Seq(Byte) /\ pos \in Nat /\ Len(buf) = pos + 1 /\ <<>> \in Seq(Byte)
  BY OneMore, EmptySeq
<1>2. Start(b) \in Seq(Byte)
  BY <1>1 DEF Start
<1> HIDE DEF buf, pos
<1>3. pos > 2 => len \in Nat
  <2>1. pos > 2 => 3 \in 1 .. Len(buf) /\ 4 \in 1 .. Len(buf)
    BY <1>1
  <2>2. pos > 2 => buf[3] \in Byte /\ buf[4] \in Byte
    BY <1>1, <2>1
  <2>3. \A u, v \in Byte : Base * u + v \in Nat
    BY ByteFacts
  <2> QED
    BY <2>2, <2>3
<1> HIDE DEF len, match
<1>4. out.buffer \in {buf, Start(b), <<>>}
  <2>1. CASE pos < 2 /\ match
    <3>1. out.buffer = buf
      BY <2>1 DEF Bridged, pos, buf, match
    <3> QED
      BY <3>1
  <2>2. CASE pos < 2 /\ ~match
    <3>1. out.buffer = Start(b)
      BY <2>2 DEF Bridged, pos, buf, match
    <3> QED
      BY <3>1
  <2>3. CASE pos = 2
    <3>1. out.buffer = buf
      BY <2>3 DEF Bridged, pos, buf
    <3> QED
      BY <3>1
  <2>4. CASE pos > 2 /\ len > MaxUnit
    <3>1. ~(pos < 2) /\ pos # 2 /\ ~(len <= MaxUnit)
      BY <1>1, <1>3, <2>4, ByteFacts
    <3>2. out = [buffer |-> <<>>, frames |-> <<>>]
      BY <2>4, <3>1 DEF Bridged, pos, buf, len
    <3> HIDE DEF out
    <3>3. out.buffer = <<>>
      BY <3>2
    <3> QED
      BY <3>3
  <2>5. CASE pos > 2 /\ len <= MaxUnit /\ pos + 1 # len + 6
    <3>1. out.buffer = buf
      BY <2>5 DEF Bridged, pos, buf, len
    <3> QED
      BY <3>1
  <2>6. CASE pos > 2 /\ len <= MaxUnit /\ pos + 1 = len + 6
    <3> DEFINE fr == IF SubSeq(buf, 5 + len, 6 + len) = Checksum(SubSeq(buf, 5, 4 + len))
                     THEN <<SubSeq(buf, 5, 4 + len)>> ELSE <<>>
    <3>0. ~(pos < 2) /\ pos # 2 /\ ~(len > MaxUnit)
      BY <1>1, <1>3, <2>6, ByteFacts
    <3>1. out = [buffer |-> <<>>, frames |-> fr]
      BY <2>6, <3>0 DEF Bridged, pos, buf, len
    <3> HIDE DEF out, fr
    <3>2. out.buffer = <<>>
      BY <3>1
    <3> QED
      BY <3>2
  <2>7. (pos < 2 \/ pos = 2 \/ pos > 2) /\ (pos > 2 => len > MaxUnit \/ len <= MaxUnit)
    BY <1>1, <1>3, ByteFacts
  <2> QED
    BY <2>1, <2>2, <2>3, <2>4, <2>5, <2>6, <2>7
<1> QED
  BY <1>1, <1>2, <1>4

(* The bridge that holds so many bytes of a frame holds one more with the next. *)
LEMMA BridgeAdvances ==
  ASSUME NEW r, NEW p \in Payloads, Len(p) <= MaxUnit, NEW buffer,
         NEW k \in 0 .. Len(Frame("bridge", p)) - 1, Stands("bridge", r, buffer, k, p),
         NEW b, b = Frame("bridge", p)[k + 1]
  PROVE  Advances("bridge", p, k, r, Bridged(buffer, b).buffer, Bridged(buffer, b).frames)
<1> DEFINE f   == Frame("bridge", p)
           n   == Len(p)
           c   == Checksum(p)
           buf == Append(buffer, b)
           pos == Len(buffer)
           len == Base * buf[3] + buf[4]
           out == Bridged(buffer, b)
<1>1. /\ p \in Seq(Byte) /\ n \in Nat /\ n > 0 /\ Len(f) = n + 6 /\ f \in Seq(Byte)
      /\ f[1] = Magic1 /\ f[2] = Magic2 /\ f[3] = Msb(n) /\ f[4] = Lsb(n)
      /\ \A i \in 1 .. n : f[4 + i] = p[i]
      /\ \A i \in 1 .. 2 : f[4 + n + i] = c[i]
  BY PayloadTyped, FrameShape
<1>2. Base * Msb(n) + Lsb(n) = n
  BY PayloadTyped, LengthOfBytes
<1>3. k \in Nat /\ k < n + 6 /\ b = f[k + 1] /\ n <= MaxUnit /\ MaxUnit \in Nat
  BY <1>1, ByteFacts
<1>4. Begun(buffer, k, f)
  <2>1. CASE k = 0
    <3>1. buffer = <<>>
      BY <2>1 DEF Stands, Rests
    <3>2. <<>> \in Seq(Byte) /\ Len(<<>>) = 0 /\ 1 .. 0 = {}
      BY EmptySeq
    <3> HIDE DEF f
    <3> QED
      BY <2>1, <3>1, <3>2 DEF Begun
  <2>2. CASE k # 0
    BY <2>2 DEF Stands
  <2> QED
    BY <2>1, <2>2
<1>5. /\ Begun(buf, k + 1, f) /\ pos = k
      /\ buf \in Seq(Byte) /\ Len(buf) = k + 1 /\ \A i \in 1 .. k + 1 : buf[i] = f[i]
  <2>1. Begun(buf, k + 1, f)
    BY <1>1, <1>3, <1>4, BegunGrows
  <2> HIDE DEF f, buf
  <2> QED
    BY <1>4, <2>1 DEF Begun
<1> HIDE DEF f, n, c, buf, pos
<1>6. ASSUME out = [buffer |-> buf, frames |-> <<>>], k + 1 < Len(f)
      PROVE  Advances("bridge", p, k, r, out.buffer, out.frames)
  <2>1. out.buffer = buf /\ out.frames = <<>>
    BY <1>6
  <2>2. k + 1 # 0
    BY <1>3
  <2> HIDE DEF out
  <2> QED
    BY <1>5, <1>6, <2>1, <2>2 DEF Advances, Stands, f
<1>7. CASE k < 2
  <2>1. b = <<Magic1, Magic2>>[k + 1]
    <3>1. k = 0 \/ k = 1
      BY <1>3, <1>7
    <3> QED
      BY <1>1, <1>3, <3>1
  <2>2. out = [buffer |-> buf, frames |-> <<>>]
    BY <1>3, <1>5, <1>7, <2>1 DEF Bridged, buf, pos
  <2>3. k + 1 < Len(f)
    BY <1>1, <1>7
  <2> QED
    BY <1>6, <2>2, <2>3
<1>8. CASE k = 2
  <2>2. out = [buffer |-> buf, frames |-> <<>>]
    BY <1>5, <1>8 DEF Bridged, buf, pos
  <2>3. k + 1 < Len(f)
    BY <1>1, <1>8
  <2> QED
    BY <1>6, <2>2, <2>3
<1>9. CASE k > 2
  <2>1. len = n
    <3>1. 3 \in 1 .. k + 1 /\ 4 \in 1 .. k + 1
      BY <1>3, <1>9
    <3>2. buf[3] = Msb(n) /\ buf[4] = Lsb(n)
      BY <1>1, <1>5, <3>1
    <3> QED
      BY <1>2, <3>2
  <2>2. ~(pos < 2) /\ pos # 2 /\ pos > 2 /\ ~(len > MaxUnit) /\ len <= MaxUnit
    BY <1>1, <1>3, <1>5, <1>9, <2>1
  <2> HIDE DEF len
  <2>3. CASE k + 1 # n + 6
    <3>1. pos + 1 # len + 6
      BY <1>5, <2>1, <2>3
    <3>2. out = [buffer |-> buf, frames |-> <<>>]
      BY <2>2, <3>1 DEF Bridged, buf, pos, len
    <3>3. k + 1 < Len(f)
      BY <1>1, <1>3, <2>3
    <3> QED
      BY <1>6, <3>2, <3>3
  <2>4. CASE k + 1 = n + 6
    <3> DEFINE q == SubSeq(buf, 5, 4 + len)
               s == SubSeq(buf, 5 + len, 6 + len)
    <3>1. pos + 1 = len + 6
      BY <1>5, <2>1, <2>4
    <3>2. q = p
      <4>1. 4 + n <= Len(buf) /\ 5 = 4 + 1 /\ 4 + len = 4 + n
        BY <1>1, <1>5, <2>1, <2>4
      <4>2. 4 \in Nat /\ n \in Nat
        BY <1>1
      <4>3. q \in Seq(Byte) /\ Len(q) = n /\ \A i \in 1 .. n : q[i] = buf[4 + i]
        BY <1>5, <4>1, <4>2, Middle
      <4> HIDE DEF q
      <4>4. \A i \in 1 .. n : q[i] = p[i]
        <5> TAKE i \in 1 .. n
        <5>1. 4 + i \in 1 .. k + 1
          BY <1>1, <2>4
        <5> QED
          BY <1>1, <1>5, <4>3, <5>1
      <4> QED
        BY <1>1, <4>3, <4>4, SeqEqual DEF n
    <3>3. s = c
      <4>1. c \in Seq(Byte) /\ Len(c) = 2
        BY <1>1, ChecksumIsBytes DEF c
      <4>2. 4 + n \in Nat /\ 2 \in Nat
        BY <1>1
      <4>3. 4 + n + 2 <= Len(buf) /\ 5 + len = 4 + n + 1 /\ 6 + len = 4 + n + 2
        BY <1>1, <1>5, <2>1, <2>4
      <4>4. s \in Seq(Byte) /\ Len(s) = 2 /\ \A i \in 1 .. 2 : s[i] = buf[4 + n + i]
        <5> DEFINE m    == 4 + n
                   from == 5 + len
                   to   == 6 + len
        <5>1. m \in Nat /\ m + 2 <= Len(buf) /\ from = m + 1 /\ to = m + 2
          BY <4>2, <4>3
        <5> HIDE DEF m, from, to
        <5>2. /\ SubSeq(buf, from, to) \in Seq(Byte) /\ Len(SubSeq(buf, from, to)) = 2
              /\ \A i \in 1 .. 2 : SubSeq(buf, from, to)[i] = buf[m + i]
          BY <1>5, <4>2, <5>1, Middle
        <5> QED
          BY <5>2 DEF m, from, to
      <4> HIDE DEF s
      <4>5. \A i \in 1 .. 2 : s[i] = c[i]
        <5> TAKE i \in 1 .. 2
        <5>1. 4 + n + i \in 1 .. k + 1
          BY <1>1, <2>4
        <5> QED
          BY <1>1, <1>5, <4>4, <5>1
      <4> QED
        BY <4>1, <4>4, <4>5, SeqEqual
    <3> HIDE DEF q, s
    <3>4. out = [buffer |-> <<>>, frames |-> IF s = Checksum(q) THEN <<q>> ELSE <<>>]
      BY <2>2, <3>1 DEF Bridged, buf, pos, len, q, s
    <3>5. (IF s = Checksum(q) THEN <<q>> ELSE <<>>) = <<p>>
      BY <3>2, <3>3 DEF c
    <3> HIDE DEF out
    <3>6. out.buffer = <<>> /\ out.frames = <<p>>
      BY <3>4, <3>5
    <3>7. Rests("bridge", r, out.buffer)
      BY <3>6 DEF Rests
    <3>8. out.frames = <<Arrives("bridge", p)>>
      BY <3>6 DEF Arrives
    <3>9. k + 1 = Len(f)
      BY <1>1, <2>4
    <3> QED
      BY <3>7, <3>8, <3>9 DEF Advances, f, out
  <2> QED
    BY <2>3, <2>4
<1> QED
  BY <1>3, <1>7, <1>8, <1>9

------------------------------------------------------------------------------
(* In step, from one byte to the next *)
LEMMA FollowingTyped ==
  ASSUME NEW kind, NEW e \in Seq(Payloads), Len(e) \in 1 .. 2
  PROVE  /\ e[1] \in Payloads /\ Following(kind, e) \in Seq(Byte)
         /\ Len(e) = 1 => Following(kind, e) = <<>>
         /\ Len(e) = 2 => e[2] \in Payloads /\ Following(kind, e) = Frame(kind, e[2])
<1>1. e[1] \in Payloads /\ (Len(e) = 2 => e[2] \in Payloads)
  <2>1. 1 \in 1 .. Len(e) /\ (Len(e) = 2 => 2 \in 1 .. Len(e))
    OBVIOUS
  <2> QED
    BY <2>1
<1>2. CASE Len(e) = 2
  <2>1. Following(kind, e) = Frame(kind, e[2])
    BY <1>2 DEF Following
  <2> QED
    BY <1>1, <1>2, <2>1, FrameShape
<1>3. CASE Len(e) = 1
  <2>1. Following(kind, e) = <<>>
    BY <1>3 DEF Following
  <2> QED
    BY <1>1, <1>3, <2>1, EmptySeq
<1> QED
  BY <1>2, <1>3

(* Of two payloads expected, the second is left. *)
LEMMA SecondExpected ==
  ASSUME NEW e \in Seq(Payloads), Len(e) = 2, NEW rest, rest = SubSeq(e, 2, Len(e))
  PROVE  rest = <<e[2]>> /\ Len(rest) = 1 /\ rest[1] = e[2] /\ rest # <<>>
<1> DEFINE s == SubSeq(e, 2, 2)
           t == <<e[2]>>
<1>1. e[2] \in Payloads
  <2>1. 2 \in 1 .. Len(e)
    OBVIOUS
  <2> QED
    BY <2>1
<1>2. s \in Seq(Payloads) /\ Len(s) = 1 /\ \A i \in 1 .. 1 : s[i] = e[2 + i - 1]
  <2>1. \A i \in 2 .. 2 : e[i] \in Payloads
    BY <1>1
  <2> QED
    BY <2>1, SubSeqProperties
<1>3. s[1] = e[2]
  BY <1>2
<1>4. t \in Seq(Payloads) /\ Len(t) = 1 /\ t[1] = e[2] /\ t # <<>>
  BY <1>1
<1>5. rest = s
  OBVIOUS
<1> HIDE DEF s, t
<1>6. \A i \in 1 .. Len(s) : s[i] = t[i]
  <2>1. 1 .. Len(s) = {1}
    BY <1>2
  <2> QED
    BY <1>3, <1>4, <2>1
<1>7. s = t
  BY <1>2, <1>4, <1>6, SeqEqual
<1> QED
  BY <1>4, <1>5, <1>7 DEF t

(* The first frame has been read, and nothing of the next. *)
LEMMA OneFrameRead ==
  ASSUME NEW kind, NEW e \in Seq(Payloads), Len(e) \in 1 .. 2, NEW r, NEW b, Rests(kind, r, b)
  PROVE  InStep(kind, Following(kind, e), r, b, SubSeq(e, 2, Len(e)))
<1> DEFINE rest == SubSeq(e, 2, Len(e))
           g    == Following(kind, e)
<1>1. CASE Len(e) = 1
  <2>1. rest = <<>> /\ g = <<>>
    BY <1>1, FollowingTyped, SubSeqEmpty
  <2> HIDE DEF rest, g
  <2> QED
    BY <2>1 DEF InStep, rest, g
<1>2. CASE Len(e) = 2
  <2>1. /\ e[2] \in Payloads /\ g = Frame(kind, e[2]) /\ g \in Seq(Byte)
    BY <1>2, FollowingTyped
  <2>2. rest = <<e[2]>> /\ Len(rest) = 1 /\ rest[1] = e[2] /\ rest # <<>>
    BY <1>2, SecondExpected
  <2>3. Following(kind, rest) = <<>>
    <3> HIDE DEF rest
    <3> QED
      BY <2>2 DEF Following
  <2>4. Len(g) \in Nat /\ Len(g) > 0
    <3>1. Len(g) = IF kind = "bridge" THEN Len(e[2]) + 6 ELSE Len(e[2]) + 3
      BY <2>1, FrameShape
    <3>2. Len(e[2]) \in Nat
      BY <2>1, PayloadTyped
    <3> HIDE DEF g
    <3> QED
      BY <3>1, <3>2
  <2> HIDE DEF rest, g
  <2>5. OnWire(g, 0, g, <<>>)
    <3>1. /\ Len(<<>>) = 0 /\ Len(g) = Len(g) - 0 + 0 /\ Len(g) - 0 = Len(g) /\ 1 .. 0 = {}
          /\ \A i \in 1 .. Len(g) : 0 + i = i
      BY <2>4
    <3> QED
      BY <3>1 DEF OnWire
  <2>6. Stands(kind, r, b, 0, e[2])
    BY DEF Stands
  <2>7. 0 \in 0 .. Len(g) - 1
    BY <2>4
  <2>8. InStep(kind, g, r, b, rest)
    BY <2>1, <2>2, <2>3, <2>5, <2>6, <2>7 DEF InStep
  <2> QED
    BY <2>8 DEF rest, g
<1> QED
  BY <1>1, <1>2

(* What a receiver has made of the bytes it has read: frames that were     *)
(* expected, and it is in step with what is still on the way.              *)
Correctly(kind, w, r, b, e, frames) ==
  /\ Len(frames) <= Len(e)
  /\ \A i \in 1 .. Len(frames) : frames[i] = Arrives(kind, e[i])
  /\ InStep(kind, w, r, b, SubSeq(e, Len(frames) + 1, Len(e)))

(* A receiver that advances by the byte on the wire stays in step. *)
LEMMA ByteReadCorrectly ==
  ASSUME NEW kind, NEW e \in Seq(Payloads), Len(e) \in 1 .. 2, NEW w \in Seq(Byte),
         NEW k \in 0 .. Len(Frame(kind, e[1])) - 1,
         OnWire(w, k, Frame(kind, e[1]), Following(kind, e)),
         NEW r, NEW b, NEW frames, Advances(kind, e[1], k, r, b, frames)
  PROVE  Correctly(kind, Tail(w), r, b, e, frames)
<1> DEFINE f == Frame(kind, e[1])
           g == Following(kind, e)
<1>1. /\ e[1] \in Payloads /\ g \in Seq(Byte) /\ f \in Seq(Byte)
  BY FollowingTyped, FrameShape
<1>2. /\ k + 1 < Len(f) => OnWire(Tail(w), k + 1, f, g)
      /\ k + 1 = Len(f) => Tail(w) = g
  BY <1>1, NextOnWire
<1>3. Len(f) \in Nat /\ Len(e) \in Nat /\ k \in Nat
  BY <1>1, LenProperties
<1> HIDE DEF f, g
<1>4. CASE /\ k + 1 < Len(f) /\ frames = <<>>
           /\ Stands(kind, r, b, k + 1, e[1])
  <2>1. k + 1 \in 0 .. Len(f) - 1
    BY <1>3, <1>4
  <2>2. e # <<>>
    BY EmptySeq
  <2>3. InStep(kind, Tail(w), r, b, e)
    BY <1>2, <1>4, <2>1, <2>2 DEF InStep, f, g
  <2>4. Len(frames) = 0 /\ 1 .. Len(frames) = {}
    BY <1>4, EmptySeq
  <2>5. SubSeq(e, 1, Len(e)) = e
    BY SubSeqFull
  <2>6. SubSeq(e, Len(frames) + 1, Len(e)) = e
    BY <2>4, <2>5
  <2>7. Len(frames) <= Len(e)
    BY <1>3, <2>4
  <2>8. InStep(kind, Tail(w), r, b, SubSeq(e, Len(frames) + 1, Len(e)))
    BY <2>3, <2>6
  <2> QED
    BY <2>4, <2>7, <2>8 DEF Correctly
<1>5. CASE /\ k + 1 = Len(f) /\ frames = <<Arrives(kind, e[1])>> /\ Rests(kind, r, b)
  <2>1. Len(frames) = 1 /\ frames[1] = Arrives(kind, e[1]) /\ 1 .. Len(frames) = {1}
    BY <1>5
  <2>2. InStep(kind, Tail(w), r, b, SubSeq(e, 2, Len(e)))
    BY <1>2, <1>5, OneFrameRead DEF g
  <2>3. SubSeq(e, Len(frames) + 1, Len(e)) = SubSeq(e, 2, Len(e))
    BY <2>1
  <2> QED
    BY <1>3, <2>1, <2>2, <2>3 DEF Correctly
<1> QED
  BY <1>4, <1>5 DEF Advances, f

------------------------------------------------------------------------------
(* The gateway: its loop, round by round *)
LEMMA GarbageGone ==
  ASSUME NEW b \in Seq(Byte)
  PROVE  /\ AfterGarbage(b) \in Seq(Byte)
         /\ \A j \in 1 .. Len(b) :
              b[j] = Mark /\ (\A i \in 1 .. j - 1 : b[i] # Mark)
                => AfterGarbage(b) = SubSeq(b, j, Len(b))
         /\ b = <<>> => AfterGarbage(b) = <<>>
<1> DEFINE Marks == {i \in 1 .. Len(b) : b[i] = Mark}
           idx   == SelectInSeq(b, LAMBDA x : x = Mark)
<1>1. Len(b) \in Nat /\ \A i \in 1 .. Len(b) : b[i] \in Byte
  BY LenProperties
<1>2. idx = IF Marks # {} THEN Min(Marks) ELSE 0
  BY DEF SelectInSeq
<1>3. AfterGarbage(b) = IF idx > 0 THEN SubSeq(b, idx, Len(b))
                        ELSE IF Len(b) > MaxGarbage THEN <<>> ELSE b
  BY DEF AfterGarbage
<1>4. Marks # {} => Min(Marks) \in Marks /\ \A m \in Marks : Min(Marks) <= m
  <2>1. Marks \subseteq Nat
    BY <1>1
  <2> HIDE DEF Marks
  <2> QED
    BY <2>1, MinIsLeast
<1> HIDE DEF idx
<1>5. CASE Marks # {}
  <2>1. idx \in 1 .. Len(b) /\ b[idx] = Mark /\ \A m \in Marks : idx <= m
    BY <1>2, <1>4, <1>5
  <2>2. AfterGarbage(b) = SubSeq(b, idx, Len(b))
    BY <1>1, <1>3, <2>1
  <2>3. SubSeq(b, idx, Len(b)) \in Seq(Byte)
    <3>1. \A i \in idx .. Len(b) : b[i] \in Byte
      BY <1>1, <2>1
    <3> QED
      BY <1>1, <2>1, <3>1, SubSeqProperties
  <2>4. ASSUME NEW j \in 1 .. Len(b), b[j] = Mark, \A i \in 1 .. j - 1 : b[i] # Mark
        PROVE  j = idx
    <3>1. idx <= j
      BY <2>1, <2>4
    <3>2. ~(idx \in 1 .. j - 1)
      BY <2>1, <2>4
    <3> QED
      BY <1>1, <2>1, <3>1, <3>2
  <2>5. b # <<>>
    <3>1. Len(b) # 0
      BY <1>1, <2>1
    <3> QED
      BY <3>1, EmptySeq
  <2> QED
    BY <2>2, <2>3, <2>4, <2>5
<1>6. CASE Marks = {}
  <2>1. AfterGarbage(b) \in {b, <<>>}
    BY <1>2, <1>3, <1>6
  <2>2. \A j \in 1 .. Len(b) : b[j] # Mark
    BY <1>6
  <2> QED
    BY <2>1, <2>2, EmptySeq
<1> QED
  BY <1>5, <1>6

(* Whether there is a whole frame at the start. *)
Incomplete(b) ==
  b = <<>> \/ Head(b) # Mark \/ Len(b) < 3 \/ Len(b) < 3 + b[2] + Base * b[3]

(* A round of the loop, for a frame that is there and one that is not. *)
LEMMA RoundIs ==
  ASSUME NEW s \in Feeding, NEW b, b = AfterGarbage(s.buffer)
  PROVE  /\ Incomplete(b) => Round(s) = [buffer |-> b, frames |-> s.frames]
         /\ ~Incomplete(b) => Round(s) =
              [buffer |-> SubSeq(b, 3 + b[2] + Base * b[3] + 1, Len(b)),
               frames |-> Append(s.frames, SubSeq(b, 4, 3 + b[2] + Base * b[3]))]
<1>1. [s EXCEPT !.buffer = b] = [buffer |-> b, frames |-> s.frames]
  BY DEF Feeding
<1> QED
  BY <1>1 DEF Round, Incomplete

(* A round keeps the types. *)
LEMMA RoundTyped ==
  ASSUME NEW s \in Feeding
  PROVE  Round(s) \in Feeding
<1> DEFINE b == AfterGarbage(s.buffer)
           needed == 3 + b[2] + Base * b[3]
<1>1. s.buffer \in Seq(Byte) /\ s.frames \in Seq(Seq(Byte))
  BY DEF Feeding
<1>2. b \in Seq(Byte)
  BY <1>1, GarbageGone
<1> HIDE DEF b
<1>3. CASE Incomplete(b)
  <2>1. Round(s) = [buffer |-> b, frames |-> s.frames]
    BY <1>3, RoundIs DEF b
  <2> QED
    BY <1>1, <1>2, <2>1 DEF Feeding
<1>4. CASE ~Incomplete(b)
  <2>1. Len(b) \in Nat /\ ~(Len(b) < 3) /\ ~(Len(b) < needed)
    BY <1>2, <1>4, LenProperties DEF Incomplete
  <2>2. needed \in Nat /\ needed >= 3
    <3>1. 2 \in 1 .. Len(b) /\ 3 \in 1 .. Len(b)
      BY <2>1
    <3>2. b[2] \in Byte /\ b[3] \in Byte
      BY <1>2, <3>1
    <3> DEFINE x == b[2]
               y == Base * b[3]
    <3>3. x \in Nat /\ y \in Nat
      BY <3>2, ByteFacts
    <3> HIDE DEF x, y
    <3>4. 3 + x + y \in Nat /\ 3 + x + y >= 3
      BY <3>3
    <3> QED
      BY <3>4 DEF x, y
  <2>3. Round(s) = [buffer |-> SubSeq(b, needed + 1, Len(b)),
                    frames |-> Append(s.frames, SubSeq(b, 4, needed))]
    BY <1>4, RoundIs DEF b
  <2> HIDE DEF needed
  <2>4. SubSeq(b, needed + 1, Len(b)) \in Seq(Byte) /\ SubSeq(b, 4, needed) \in Seq(Byte)
    <3>1. \A i \in 1 .. Len(b) : b[i] \in Byte
      BY <1>2
    <3>2. \A i \in needed + 1 .. Len(b) : i \in 1 .. Len(b)
      BY <2>1, <2>2
    <3>3. \A i \in 4 .. needed : i \in 1 .. Len(b)
      BY <2>1, <2>2
    <3>4. 4 \in Int /\ needed \in Int /\ needed + 1 \in Int /\ Len(b) \in Int
      BY <2>1, <2>2
    <3>5. SubSeq(b, needed + 1, Len(b)) \in Seq(Byte)
      BY <3>1, <3>2, <3>4, SubSeqProperties
    <3>6. SubSeq(b, 4, needed) \in Seq(Byte)
      BY <3>1, <3>3, <3>4, SubSeqProperties
    <3> QED
      BY <3>5, <3>6
  <2>5. Append(s.frames, SubSeq(b, 4, needed)) \in Seq(Seq(Byte))
    <3> DEFINE x == SubSeq(b, 4, needed)
               T == Seq(Byte)
    <3>1. x \in T /\ s.frames \in Seq(T)
      BY <1>1, <2>4
    <3> HIDE DEF x, T
    <3>2. Append(s.frames, x) \in Seq(T)
      BY <3>1, AppendProperties
    <3> QED
      BY <3>2 DEF x, T
  <2> QED
    BY <2>3, <2>4, <2>5 DEF Feeding
<1> QED
  BY <1>3, <1>4

(* The loop, as a function of the rounds that are left. *)
IsLoop(f, n) ==
  /\ f \in [0 .. n -> [Feeding -> Feeding]]
  /\ \A s \in Feeding : f[0][s] = s
  /\ \A k \in 1 .. n, s \in Feeding : f[k][s] = f[k - 1][Round(s)]

(* The loop computes what Fed says, round by round. *)
LEMMA FedByLoop ==
  ASSUME NEW buffer \in Seq(Byte)
  PROVE  \E f : IsLoop(f, Len(buffer))
                /\ Fed(buffer) = f[Len(buffer)][[buffer |-> buffer, frames |-> <<>>]]
<1> DEFINE n == Len(buffer)
           S == [Feeding -> Feeding]
           stay == [s \in Feeding |-> s]
           g == [k \in 1 .. n |-> [h \in S |-> [s \in Feeding |-> h[Round(s)]]]]
           Body(f, k) == [s \in Feeding |-> IF k = 0 THEN s ELSE f[k - 1][Round(s)]]
           Is(f) == f = [k \in 0 .. n |-> Body(f, k)]
<1>1. n \in Nat
  BY LenProperties
<1> HIDE DEF n
<1>2. stay \in S
  OBVIOUS
<1>3. g \in [1 .. n -> [S -> S]]
  <2>1. \A h \in S : [s \in Feeding |-> h[Round(s)]] \in S
    BY RoundTyped
  <2> HIDE DEF S
  <2> QED
    BY <2>1
<1>4. PICK f \in [0 .. n -> S] : f[0] = stay /\ \A k \in 1 .. n : f[k] = g[k][f[k - 1]]
  <2> HIDE DEF S, g, stay
  <2>1. Computed(S, stay, n, g)
    BY <1>1, <1>2, <1>3, Rounds
  <2> QED
    BY <2>1 DEF Computed
<1>5. ASSUME NEW k \in 1 .. n
      PROVE  k - 1 \in 0 .. n /\ k \in 0 .. n /\ k # 0
  BY <1>1
<1>6. Is(f)
  <2>1. ASSUME NEW k \in 0 .. n
        PROVE  f[k] = Body(f, k)
    <3>1. CASE k = 0
      <4>1. Body(f, k) = stay
        BY <3>1
      <4> HIDE DEF Body, stay
      <4> QED
        BY <1>4, <3>1, <4>1
    <3>2. CASE k # 0
      <4>1. k \in 1 .. n /\ k - 1 \in 0 .. n
        BY <1>1, <3>2
      <4>2. f[k] = g[k][f[k - 1]] /\ f[k - 1] \in S
        BY <1>4, <4>1
      <4>3. g[k][f[k - 1]] = [s \in Feeding |-> f[k - 1][Round(s)]]
        <5> HIDE DEF S
        <5> QED
          BY <4>1, <4>2
      <4>4. Body(f, k) = [s \in Feeding |-> f[k - 1][Round(s)]]
        BY <3>2
      <4> HIDE DEF g, Body
      <4> QED
        BY <4>2, <4>3, <4>4
    <3> QED
      BY <3>1, <3>2
  <2>2. f = [k \in 0 .. n |-> f[k]]
    OBVIOUS
  <2> HIDE DEF Body
  <2> QED
    BY <2>1, <2>2
<1> DEFINE loop == CHOOSE h : Is(h)
<1>7. Is(loop)
  <2> HIDE DEF Is
  <2> QED
    BY <1>6
<1>8. Fed(buffer) = loop[n][[buffer |-> buffer, frames |-> <<>>]]
  BY DEF Fed, n
<1> HIDE DEF loop
<1>9. \A k \in 0 .. n : loop[k] = Body(loop, k)
  <2> HIDE DEF Body
  <2> QED
    BY <1>7
<1>10. \A s \in Feeding : loop[0][s] = s
  <2>1. 0 \in 0 .. n
    BY <1>1
  <2>2. loop[0] = Body(loop, 0)
    BY <1>9, <2>1
  <2>3. Body(loop, 0) = stay
    OBVIOUS
  <2> HIDE DEF Body
  <2> QED
    BY <2>2, <2>3
<1>11. ASSUME NEW k \in 1 .. n, NEW s \in Feeding
       PROVE  loop[k][s] = loop[k - 1][Round(s)]
  <2>1. loop[k] = Body(loop, k)
    BY <1>5, <1>9
  <2>2. Body(loop, k)[s] = loop[k - 1][Round(s)]
    BY <1>5
  <2> HIDE DEF Body
  <2> QED
    BY <2>1, <2>2
<1> DEFINE Fine == {k \in Nat : k <= n => loop[k] \in S}
<1>12. 0 \in Fine
  <2>1. 0 \in 0 .. n /\ Body(loop, 0) \in S
    BY <1>1
  <2> HIDE DEF Body, S
  <2> QED
    BY <1>9, <2>1
<1>13. ASSUME NEW k \in Nat, k \in Fine
       PROVE  k + 1 \in Fine
  <2>1. CASE k + 1 <= n
    <3>1. k <= n /\ k + 1 \in 0 .. n /\ k + 1 # 0 /\ k + 1 - 1 = k
      BY <1>1, <2>1
    <3>2. loop[k] \in S
      BY <1>13, <3>1
    <3>3. Body(loop, k + 1) \in S
      <4>1. Body(loop, k + 1) = [s \in Feeding |-> loop[k][Round(s)]]
        BY <3>1
      <4>2. [s \in Feeding |-> loop[k][Round(s)]] \in S
        BY <3>2, RoundTyped
      <4> HIDE DEF Body, S
      <4> QED
        BY <4>1, <4>2
    <3> HIDE DEF Body, S
    <3>4. loop[k + 1] \in S
      BY <1>9, <3>1, <3>3
    <3> QED
      BY <3>4
  <2>2. CASE ~(k + 1 <= n)
    BY <2>2
  <2> QED
    BY <2>1, <2>2
<1>14. \A k \in 0 .. n : loop[k] \in S
  <2>1. \A k \in Nat : k \in Fine
    <3> HIDE DEF Fine
    <3> QED
      BY <1>12, <1>13, CountingUp
  <2> HIDE DEF S
  <2> QED
    BY <1>1, <2>1
<1>15. loop \in [0 .. n -> S]
  <2>1. loop = [k \in 0 .. n |-> loop[k]]
    <3> HIDE DEF Body
    <3> QED
      BY <1>7
  <2> HIDE DEF S
  <2> QED
    BY <1>14, <2>1
<1>16. IsLoop(loop, n)
  BY <1>10, <1>11, <1>15 DEF IsLoop
<1> QED
  BY <1>8, <1>16 DEF n

(* What the loop starts from. *)
LEMMA StartTyped ==
  ASSUME NEW buffer \in Seq(Byte)
  PROVE  [buffer |-> buffer, frames |-> <<>>] \in Feeding
<1>1. <<>> \in Seq(Seq(Byte))
  BY EmptySeq
<1> QED
  BY <1>1 DEF Feeding

(* What the loop ends with. *)
LEMMA FedTyped ==
  ASSUME NEW buffer \in Seq(Byte)
  PROVE  Fed(buffer) \in Feeding
<1>1. PICK f : /\ IsLoop(f, Len(buffer))
               /\ Fed(buffer) = f[Len(buffer)][[buffer |-> buffer, frames |-> <<>>]]
  BY FedByLoop
<1>2. Len(buffer) \in Nat /\ Len(buffer) \in 0 .. Len(buffer)
  BY LenProperties
<1>3. f[Len(buffer)] \in [Feeding -> Feeding]
  BY <1>1, <1>2 DEF IsLoop
<1>4. [buffer |-> buffer, frames |-> <<>>] \in Feeding
  BY StartTyped
<1> QED
  BY <1>1, <1>3, <1>4

(* Once a round changes nothing, no later one does. *)
LEMMA NoMoreFrames ==
  ASSUME NEW n \in Nat, NEW f, IsLoop(f, n), NEW s \in Feeding, Round(s) = s,
         NEW k \in 0 .. n
  PROVE  f[k][s] = s
<1> DEFINE Fine == {m \in Nat : m <= n => f[m][s] = s}
<1>1. 0 \in Fine
  BY DEF IsLoop
<1>2. ASSUME NEW m \in Nat, m \in Fine
      PROVE  m + 1 \in Fine
  <2>1. CASE m + 1 <= n
    <3>1. m <= n /\ m + 1 \in 1 .. n /\ m + 1 - 1 = m
      BY <2>1
    <3>2. f[m + 1][s] = f[m][s] /\ f[m][s] = s
      BY <1>2, <3>1 DEF IsLoop
    <3> QED
      BY <3>2
  <2>2. CASE ~(m + 1 <= n)
    BY <2>2
  <2> QED
    BY <2>1, <2>2
<1>3. k \in Fine
  <2> HIDE DEF Fine
  <2> QED
    BY <1>1, <1>2, CountingUp
<1> QED
  BY <1>3

(* The loop ends as soon as a round changes nothing: here after one or two. *)
LEMMA FedInRounds ==
  ASSUME NEW buffer \in Seq(Byte), Len(buffer) > 0,
         NEW s, s = Round([buffer |-> buffer, frames |-> <<>>])
  PROVE  /\ s \in Feeding
         /\ Round(s) = s => Fed(buffer) = s
         /\ Len(buffer) > 1 /\ Round(Round(s)) = Round(s) => Fed(buffer) = Round(s)
<1> DEFINE n == Len(buffer)
           z == [buffer |-> buffer, frames |-> <<>>]
<1>1. PICK f : IsLoop(f, n) /\ Fed(buffer) = f[n][z]
  BY FedByLoop
<1>2. z \in Feeding /\ s \in Feeding /\ Round(s) \in Feeding
  BY StartTyped, RoundTyped
<1>3. n \in Nat /\ n \in 1 .. n /\ n - 1 \in 0 .. n
  BY LenProperties
<1>4. s = Round(z)
  OBVIOUS
<1> HIDE DEF n, z
<1>5. f[n][z] = f[n - 1][s]
  BY <1>1, <1>2, <1>3, <1>4 DEF IsLoop
<1>6. ASSUME Round(s) = s
      PROVE  Fed(buffer) = s
  BY <1>1, <1>2, <1>3, <1>5, <1>6, NoMoreFrames
<1>7. ASSUME n > 1, Round(Round(s)) = Round(s)
      PROVE  Fed(buffer) = Round(s)
  <2>1. n - 1 \in 1 .. n /\ n - 1 - 1 \in 0 .. n
    BY <1>3, <1>7
  <2>2. f[n - 1][s] = f[n - 1 - 1][Round(s)]
    BY <1>1, <1>2, <2>1 DEF IsLoop
  <2>3. f[n - 1 - 1][Round(s)] = Round(s)
    BY <1>1, <1>2, <1>3, <1>7, <2>1, NoMoreFrames
  <2> QED
    BY <1>1, <1>5, <2>2, <2>3
<1> QED
  BY <1>2, <1>6, <1>7 DEF n

------------------------------------------------------------------------------
(* What the gateway has after a chunk *)
ByteOf(j, f, g) == IF j <= Len(f) THEN f[j] ELSE g[j - Len(f)]

Begins(x, m, f, g) ==
  x \in Seq(Byte) /\ Len(x) = m /\ \A j \in 1 .. m : x[j] = ByteOf(j, f, g)

(* The wire, byte by byte. *)
LEMMA ByteOnWire ==
  ASSUME NEW w \in Seq(Byte), NEW f \in Seq(Byte), NEW g \in Seq(Byte),
         NEW k \in 0 .. Len(f) - 1, OnWire(w, k, f, g), NEW i \in 1 .. Len(w)
  PROVE  w[i] = ByteOf(k + i, f, g)
<1>1. /\ Len(w) \in Nat /\ Len(f) \in Nat /\ Len(g) \in Nat
      /\ Len(w) = Len(f) - k + Len(g)
  BY LenProperties DEF OnWire
<1>2. CASE k + i <= Len(f)
  <2>1. i \in 1 .. Len(f) - k
    BY <1>1, <1>2
  <2> QED
    BY <1>2, <2>1 DEF OnWire, ByteOf
<1>3. CASE ~(k + i <= Len(f))
  <2> DEFINE j == k + i - Len(f)
  <2>1. j \in 1 .. Len(g) /\ Len(f) - k + j = i
    BY <1>1, <1>3
  <2> HIDE DEF j
  <2>2. w[Len(f) - k + j] = g[j]
    BY <2>1 DEF OnWire
  <2>3. w[i] = g[j]
    BY <2>1, <2>2
  <2> QED
    BY <1>3, <2>3 DEF ByteOf, j
<1> QED
  BY <1>2, <1>3

(* A chunk is taken off the wire: m bytes of f \o g are gone now. *)
ChunkTaken(t, m, f, g) ==
  /\ t \in Seq(Byte) /\ m \in 1 .. Len(f) + Len(g)
  /\ m < Len(f) => OnWire(t, m, f, g)
  /\ m = Len(f) => t = g
  /\ m > Len(f) /\ m - Len(f) < Len(g) => OnWire(t, m - Len(f), g, <<>>)
  /\ m - Len(f) = Len(g) => t = <<>>

(* What is on the wire once a chunk is taken. *)
LEMMA ChunkOffWire ==
  ASSUME NEW w \in Seq(Byte), NEW f \in Seq(Byte), NEW g \in Seq(Byte),
         NEW k \in 0 .. Len(f) - 1, OnWire(w, k, f, g), NEW n \in 1 .. Len(w),
         NEW t, t = SubSeq(w, n + 1, Len(w)), NEW m \in Nat, m = k + n
  PROVE  ChunkTaken(t, m, f, g)
<1>1. /\ Len(w) \in Nat /\ Len(f) \in Nat /\ Len(g) \in Nat /\ k \in Nat /\ n \in Nat
      /\ Len(w) = Len(f) - k + Len(g)
  BY LenProperties DEF OnWire
<1>2. m \in 1 .. Len(f) + Len(g) /\ m \in Nat
  BY <1>1
<1>3. /\ t \in Seq(Byte) /\ Len(t) = Len(w) - n
      /\ \A i \in 1 .. Len(w) - n : t[i] = w[n + i]
  <2> DEFINE d    == Len(w) - n
             from == n + 1
             to   == Len(w)
  <2>1. d \in Nat /\ n \in Nat /\ n + d <= Len(w) /\ from = n + 1 /\ to = n + d
    BY <1>1
  <2> HIDE DEF d, from, to
  <2>2. /\ SubSeq(w, from, to) \in Seq(Byte) /\ Len(SubSeq(w, from, to)) = d
        /\ \A i \in 1 .. d : SubSeq(w, from, to)[i] = w[n + i]
    BY <2>1, Middle
  <2> QED
    BY <2>2 DEF d, from, to
<1>4. Len(t) = Len(f) - m + Len(g) /\ Len(t) \in Nat
  BY <1>1, <1>3
<1>5. ASSUME NEW i \in 1 .. Len(t)
      PROVE  t[i] = ByteOf(m + i, f, g)
  <2>1. i \in 1 .. Len(w) - n /\ n + i \in 1 .. Len(w) /\ k + (n + i) = m + i
    BY <1>1, <1>3
  <2>2. t[i] = w[n + i]
    BY <1>3, <2>1
  <2>3. w[n + i] = ByteOf(k + (n + i), f, g)
    BY <2>1, ByteOnWire
  <2> QED
    BY <2>1, <2>2, <2>3
<1>6. ASSUME m < Len(f)
      PROVE  OnWire(t, m, f, g)
  <2>1. \A i \in 1 .. Len(f) - m : t[i] = f[m + i]
    <3> TAKE i \in 1 .. Len(f) - m
    <3>1. i \in 1 .. Len(t) /\ m + i <= Len(f)
      BY <1>1, <1>2, <1>4, <1>6
    <3> QED
      BY <1>5, <3>1 DEF ByteOf
  <2>2. \A i \in 1 .. Len(g) : t[Len(f) - m + i] = g[i]
    <3> TAKE i \in 1 .. Len(g)
    <3> DEFINE j == Len(f) - m + i
    <3>1. j \in 1 .. Len(t) /\ ~(m + j <= Len(f)) /\ m + j - Len(f) = i
      BY <1>1, <1>2, <1>4, <1>6
    <3> HIDE DEF j
    <3> DEFINE a == m + j
               h == a - Len(f)
    <3>2. ByteOf(a, f, g) = IF a <= Len(f) THEN f[a] ELSE g[h]
      BY Zenon DEF ByteOf
    <3>3. h = i /\ ~(a <= Len(f))
      BY <3>1
    <3> HIDE DEF a, h
    <3>4. ByteOf(a, f, g) = g[i]
      BY <3>2, <3>3
    <3> USE DEF a
    <3>5. t[j] = g[i]
      BY <1>5, <3>1, <3>4
    <3> QED
      BY <3>5 DEF j
  <2> QED
    BY <1>4, <2>1, <2>2 DEF OnWire
<1>7. ASSUME m = Len(f)
      PROVE  t = g
  <2> DEFINE d == Len(f) - m
  <2>1. d = 0 /\ d \in Int /\ Len(t) = d + Len(g) /\ \A i \in 1 .. Len(g) : ~(m + i <= Len(f)) /\ m + i - Len(f) = i
    <3>1. Len(f) = m
      BY <1>7
    <3>2. d = 0
      BY <1>2, <3>1
    <3>3. \A i \in 1 .. Len(g) : ~(m + i <= m) /\ m + i - m = i
      BY <1>1, <1>2
    <3>4. Len(t) = d + Len(g)
      BY <1>1, <1>2, <1>4
    <3> HIDE DEF d
    <3> QED
      BY <3>1, <3>2, <3>3, <3>4
  <2> HIDE DEF d
  <2>2. Len(t) = Len(g)
    BY <1>1, <2>1
  <2>3. \A i \in 1 .. Len(t) : t[i] = g[i]
    <3> TAKE i \in 1 .. Len(t)
    <3>1. i \in 1 .. Len(g)
      BY <2>2
    <3>2. ~(m + i <= Len(f)) /\ m + i - Len(f) = i
      BY <2>1, <3>1
    <3>3. ByteOf(m + i, f, g) = g[i]
      <4> DEFINE j == m + i
                 h == j - Len(f)
      <4>1. ~(j <= Len(f)) /\ h = i
        BY <3>2
      <4>2. ByteOf(j, f, g) = IF j <= Len(f) THEN f[j] ELSE g[h]
        BY DEF ByteOf
      <4> HIDE DEF j, h
      <4>3. ByteOf(j, f, g) = g[i]
        BY <4>1, <4>2
      <4> QED
        BY <4>3 DEF j
    <3>4. t[i] = ByteOf(m + i, f, g)
      BY <1>5
    <3> QED
      BY <3>3, <3>4
  <2> QED
    BY <1>3, <2>2, <2>3, SeqEqual
<1>8. ASSUME m > Len(f), m - Len(f) < Len(g)
      PROVE  OnWire(t, m - Len(f), g, <<>>)
  <2> DEFINE d == m - Len(f)
  <2>1. d \in Nat /\ Len(<<>>) = 0 /\ 1 .. 0 = {} /\ Len(t) = Len(g) - d + 0
    BY <1>1, <1>2, <1>4, <1>8
  <2>2. \A i \in 1 .. Len(g) - d : t[i] = g[d + i]
    <3> TAKE i \in 1 .. Len(g) - d
    <3>1. i \in 1 .. Len(t) /\ ~(m + i <= Len(f)) /\ m + i - Len(f) = d + i
      BY <1>1, <1>2, <1>4, <1>8
    <3> HIDE DEF d
    <3> QED
      BY <1>5, <3>1 DEF ByteOf
  <2> HIDE DEF d
  <2>3. OnWire(t, d, g, <<>>)
    BY <2>1, <2>2 DEF OnWire
  <2> QED
    BY <2>3 DEF d
<1>9. ASSUME m - Len(f) = Len(g)
      PROVE  t = <<>>
  <2>1. Len(t) = 0
    BY <1>1, <1>2, <1>4, <1>9
  <2> QED
    BY <1>3, <2>1, EmptySeq
<1> QED
  BY <1>2, <1>3, <1>6, <1>7, <1>8, <1>9 DEF ChunkTaken

(* Its buffer then begins where the first frame does. *)
LEMMA BufferBegins ==
  ASSUME NEW w \in Seq(Byte), NEW p \in Payloads, NEW g \in Seq(Byte), NEW buffer \in Seq(Byte),
         NEW r, NEW f, f = Frame("gateway", p),
         NEW k \in 0 .. Len(f) - 1, OnWire(w, k, f, g), Stands("gateway", r, buffer, k, p),
         NEW n \in 1 .. Len(w), NEW m \in Nat, m = k + n
  PROVE  LET b == buffer \o SubSeq(w, 1, n)
         IN  b \in Seq(Byte) /\ Len(b) >= m /\ Begins(AfterGarbage(b), m, f, g)
<1> DEFINE c == SubSeq(w, 1, n)
           b == buffer \o c
           x == AfterGarbage(b)
<1>1. /\ f \in Seq(Byte) /\ Len(f) \in Nat /\ Len(f) > 3 /\ f[1] = Mark
      /\ Len(w) \in Nat /\ Len(buffer) \in Nat /\ k \in Nat /\ n \in Nat /\ m \in Nat
  <2>1. Len(f) = Len(p) + 3 /\ f \in Seq(Byte) /\ f[1] = Mark /\ Len(p) \in Nat /\ Len(p) > 0
    BY FrameShape, PayloadTyped
  <2> QED
    BY <2>1, LenProperties
<1>2. c \in Seq(Byte) /\ Len(c) = n /\ \A i \in 1 .. n : c[i] = ByteOf(k + i, f, g)
  <2>1. /\ c \in Seq(Byte) /\ Len(c) = n /\ \A i \in 1 .. n : c[i] = w[0 + i]
    <3>1. 0 \in Nat /\ n \in Nat /\ 0 + n <= Len(w) /\ 1 = 0 + 1 /\ n = 0 + n
      BY <1>1
    <3> QED
      BY <3>1, Middle
  <2> HIDE DEF c
  <2>2. \A i \in 1 .. n : 0 + i = i /\ i \in 1 .. Len(w)
    BY <1>1
  <2>3. \A i \in 1 .. n : w[i] = ByteOf(k + i, f, g)
    BY <1>1, <2>2, ByteOnWire
  <2> QED
    BY <2>1, <2>2, <2>3
<1> HIDE DEF c
<1>3. /\ b \in Seq(Byte) /\ Len(b) = Len(buffer) + n /\ Len(b) \in Nat
      /\ \A i \in 1 .. Len(buffer) : b[i] = buffer[i]
      /\ \A i \in 1 .. n : b[Len(buffer) + i] = c[i]
  <2>1. /\ b \in Seq(Byte) /\ Len(b) = Len(buffer) + Len(c)
        /\ \A i \in 1 .. Len(buffer) : b[i] = buffer[i]
        /\ \A i \in 1 .. Len(c) : b[Len(buffer) + i] = c[i]
    BY <1>2, Joined
  <2> HIDE DEF b
  <2> QED
    BY <1>1, <1>2, <2>1
<1> HIDE DEF b
<1>4. CASE k = 0
  <2> DEFINE a == Len(buffer)
             j == a + 1
  <2>1. \A i \in 1 .. a : buffer[i] # Mark
    BY <1>4 DEF Stands, Rests
  <2>2. j \in 1 .. Len(b) /\ j - 1 = a /\ a \in Nat /\ 1 \in 1 .. n /\ m = n
    BY <1>1, <1>3, <1>4
  <2>3. c[1] = Mark
    <3>1. k + 1 = 1 /\ 1 <= Len(f)
      BY <1>1, <1>4
    <3>2. c[1] = ByteOf(k + 1, f, g)
      BY <1>2, <2>2
    <3> QED
      BY <1>1, <3>1, <3>2 DEF ByteOf
  <2>4. b[j] = Mark /\ \A i \in 1 .. j - 1 : b[i] # Mark
    <3>1. b[j] = c[1]
      BY <1>3, <2>2
    <3>2. \A i \in 1 .. j - 1 : b[i] # Mark
      BY <1>3, <2>1, <2>2
    <3> QED
      BY <2>3, <3>1, <3>2
  <2> HIDE DEF j
  <2>5. x = SubSeq(b, j, Len(b))
    BY <1>3, <2>2, <2>4, GarbageGone
  <2>6. x \in Seq(Byte) /\ Len(x) = n /\ \A i \in 1 .. n : x[i] = b[a + i]
    <3> DEFINE to == Len(b)
    <3>1. a + n <= Len(b) /\ j = a + 1 /\ to = a + n /\ a \in Nat /\ n \in Nat
      BY <1>1, <1>3, <2>2 DEF j
    <3> HIDE DEF a, to
    <3>2. /\ SubSeq(b, j, to) \in Seq(Byte) /\ Len(SubSeq(b, j, to)) = n
          /\ \A i \in 1 .. n : SubSeq(b, j, to)[i] = b[a + i]
      BY <1>3, <3>1, Middle
    <3>3. x = SubSeq(b, j, to)
      BY <2>5 DEF to
    <3> HIDE DEF x
    <3> QED
      BY <3>2, <3>3
  <2> HIDE DEF x
  <2>7. \A i \in 1 .. m : x[i] = ByteOf(i, f, g)
    <3>1. \A i \in 1 .. n : k + i = i
      BY <1>4
    <3> QED
      BY <1>2, <1>3, <2>2, <2>6, <3>1
  <2>8. Begins(x, m, f, g)
    BY <2>2, <2>6, <2>7 DEF Begins
  <2>9. Len(b) >= m
    BY <1>1, <1>3, <2>2
  <2> QED
    BY <1>3, <2>8, <2>9 DEF b, c, x
<1>5. CASE k # 0
  <2>1. Len(buffer) = k /\ \A i \in 1 .. k : buffer[i] = f[i]
    BY <1>5 DEF Stands, Begun
  <2>2. Len(b) = m /\ 1 \in 1 .. k /\ 1 \in 1 .. Len(b) /\ m \in Nat
    BY <1>1, <1>3, <1>5, <2>1
  <2>3. \A i \in 1 .. m : b[i] = ByteOf(i, f, g)
    <3> TAKE i \in 1 .. m
    <3>1. CASE i <= k
      <4>1. i \in 1 .. k /\ i <= Len(f)
        BY <1>1, <3>1
      <4>2. b[i] = f[i]
        BY <1>3, <2>1, <4>1
      <4> QED
        BY <4>1, <4>2 DEF ByteOf
    <3>2. CASE ~(i <= k)
      <4> DEFINE d == i - k
      <4>1. d \in 1 .. n /\ k + d = i
        BY <1>1, <3>2
      <4> HIDE DEF d
      <4>2. b[k + d] = c[d] /\ c[d] = ByteOf(k + d, f, g)
        BY <1>2, <1>3, <2>1, <4>1
      <4> QED
        BY <4>1, <4>2
    <3> QED
      BY <3>1, <3>2
  <2>4. b[1] = Mark
    BY <1>1, <1>3, <2>1, <2>2
  <2>5. \A i \in 1 .. 1 - 1 : b[i] # Mark
    OBVIOUS
  <2>6. x = SubSeq(b, 1, Len(b))
    BY <1>3, <2>2, <2>4, <2>5, GarbageGone
  <2>7. SubSeq(b, 1, Len(b)) = b
    BY <1>3, SubSeqFull
  <2> HIDE DEF x
  <2>8. Begins(x, m, f, g)
    BY <1>3, <2>2, <2>3, <2>6, <2>7 DEF Begins
  <2>9. Len(b) >= m
    BY <2>2
  <2> QED
    BY <1>3, <2>8, <2>9 DEF b, c, x
<1> QED
  BY <1>4, <1>5

(* A buffer that begins with a frame holds no garbage. *)
LEMMA CleanAlready ==
  ASSUME NEW x, NEW m \in Nat, m > 0, NEW p \in Payloads, NEW g,
         Begins(x, m, Frame("gateway", p), g)
  PROVE  AfterGarbage(x) = x
<1> DEFINE f == Frame("gateway", p)
<1>1. f[1] = Mark /\ Len(f) \in Nat /\ Len(f) >= 1
  <2>1. Len(f) = Len(p) + 3 /\ f[1] = Mark /\ Len(p) \in Nat
    BY FrameShape, PayloadTyped
  <2> HIDE DEF f
  <2> QED
    BY <2>1
<1> HIDE DEF f
<1>2. x \in Seq(Byte) /\ Len(x) = m /\ 1 \in 1 .. m /\ x[1] = ByteOf(1, f, g)
  BY DEF Begins, f
<1>3. x[1] = Mark
  BY <1>1, <1>2 DEF ByteOf
<1>4. \A i \in 1 .. 1 - 1 : x[i] # Mark
  OBVIOUS
<1>5. AfterGarbage(x) = SubSeq(x, 1, Len(x))
  BY <1>2, <1>3, <1>4, GarbageGone
<1> QED
  BY <1>2, <1>5, SubSeqFull

(* One round, where the buffer holds m bytes of f and what follows it. *)
LEMMA RoundOfBegun ==
  ASSUME NEW s \in Feeding, NEW p \in Payloads, NEW g \in Seq(Byte),
         NEW f, f = Frame("gateway", p), NEW m \in 1 .. Len(f) + Len(g),
         NEW x, x = AfterGarbage(s.buffer), Begins(x, m, f, g)
  PROVE  /\ m < Len(f) => Round(s) = [buffer |-> x, frames |-> s.frames] /\ Begun(x, m, f)
         /\ ~(m < Len(f)) => \E y : /\ Round(s) = [buffer |-> y, frames |-> Append(s.frames, p)]
                                    /\ Begins(y, m - Len(f), g, <<>>)
<1> DEFINE n == Len(p)
           needed == 3 + x[2] + Base * x[3]
<1>1. /\ p \in Seq(Byte) /\ n \in Nat /\ n > 0 /\ Len(f) = n + 3 /\ f \in Seq(Byte)
      /\ f[1] = Mark /\ f[2] = Lsb(n) /\ f[3] = Msb(n)
      /\ \A i \in 1 .. n : f[3 + i] = p[i]
  BY PayloadTyped, FrameShape
<1>2. Lsb(n) + Base * Msb(n) = n /\ Lsb(n) \in Nat /\ Base * Msb(n) \in Nat
  <2>1. Lsb(n) \in Byte /\ Msb(n) \in Byte /\ Lsb(n) + Base * Msb(n) = n
    BY PayloadTyped, LengthOfBytes
  <2>2. \A b \in Byte : b \in Nat /\ Base * b \in Nat
    BY ByteFacts
  <2> QED
    BY <2>1, <2>2
<1>3. x \in Seq(Byte) /\ Len(x) = m /\ m \in Nat /\ m > 0 /\ Len(g) \in Nat
      /\ \A j \in 1 .. m : x[j] = ByteOf(j, f, g)
  BY <1>1, LenProperties DEF Begins
<1> HIDE DEF n
<1>4. \A j \in 1 .. m : j <= Len(f) => x[j] = f[j]
  BY <1>3 DEF ByteOf
<1>5. x # <<>> /\ Head(x) = Mark
  <2>1. 1 \in 1 .. m /\ 1 <= Len(f)
    BY <1>1, <1>3
  <2>2. x[1] = Mark
    BY <1>1, <1>4, <2>1
  <2>3. x # <<>>
    BY <1>3, EmptySeq
  <2> QED
    BY <1>3, <2>2, <2>3
<1>6. m >= 3 => needed = n + 3
  <2>1. m >= 3 => 2 \in 1 .. m /\ 3 \in 1 .. m /\ 2 <= Len(f) /\ 3 <= Len(f)
    BY <1>1, <1>3
  <2>2. m >= 3 => x[2] = Lsb(n) /\ x[3] = Msb(n)
    BY <1>1, <1>4, <2>1
  <2> DEFINE a == Lsb(n)
             b == Base * Msb(n)
  <2>3. m >= 3 => needed = 3 + a + b
    BY <2>2
  <2>4. a + b = n /\ a \in Nat /\ b \in Nat
    BY <1>2
  <2> HIDE DEF a, b, needed
  <2> QED
    BY <1>1, <2>3, <2>4
<1> HIDE DEF needed
<1>7. ASSUME m < Len(f)
      PROVE  Round(s) = [buffer |-> x, frames |-> s.frames] /\ Begun(x, m, f)
  <2>1. m < 3 \/ m < needed
    BY <1>1, <1>3, <1>6, <1>7
  <2>2. Incomplete(x)
    BY <1>3, <2>1 DEF Incomplete, needed
  <2>3. Begun(x, m, f)
    <3>1. \A j \in 1 .. m : j <= Len(f)
      BY <1>1, <1>3, <1>7
    <3> QED
      BY <1>3, <1>4, <3>1 DEF Begun
  <2> QED
    BY <2>2, <2>3, RoundIs
<1>8. ASSUME ~(m < Len(f))
      PROVE  \E y : /\ Round(s) = [buffer |-> y, frames |-> Append(s.frames, p)]
                    /\ Begins(y, m - Len(f), g, <<>>)
  <2>1. m >= 3 /\ needed = n + 3 /\ ~(m < 3) /\ ~(m < needed)
    BY <1>1, <1>3, <1>6, <1>8
  <2>2. ~Incomplete(x)
    BY <1>3, <1>5, <2>1 DEF Incomplete, needed
  <2> DEFINE y == SubSeq(x, needed + 1, Len(x))
             q == SubSeq(x, 4, needed)
  <2>3. Round(s) = [buffer |-> y, frames |-> Append(s.frames, q)]
    BY <2>2, RoundIs DEF needed
  <2>4. q = p
    <3>1. 3 \in Nat /\ n \in Nat /\ 3 + n <= Len(x) /\ 4 = 3 + 1 /\ needed = 3 + n
      BY <1>1, <1>3, <2>1
    <3>2. q \in Seq(Byte) /\ Len(q) = n /\ \A i \in 1 .. n : q[i] = x[3 + i]
      BY <1>3, <3>1, Middle
    <3> HIDE DEF q
    <3>3. \A i \in 1 .. n : q[i] = p[i]
      <4> TAKE i \in 1 .. n
      <4>1. 3 + i \in 1 .. m /\ 3 + i <= Len(f)
        BY <1>1, <1>3, <2>1
      <4> QED
        BY <1>1, <1>4, <3>2, <4>1
    <3> QED
      BY <1>1, <3>2, <3>3, SeqEqual DEF n
  <2>5. Begins(y, m - Len(f), g, <<>>)
    <3> DEFINE d    == m - Len(f)
               from == needed + 1
               to   == Len(x)
               l    == Len(f)
    <3>1. /\ l \in Nat /\ d \in Nat /\ l + d <= Len(x) /\ from = l + 1 /\ to = l + d
          /\ d <= Len(g) /\ l + d = m
      BY <1>1, <1>3, <1>8, <2>1
    <3>2. /\ SubSeq(x, from, to) \in Seq(Byte) /\ Len(SubSeq(x, from, to)) = d
          /\ \A i \in 1 .. d : SubSeq(x, from, to)[i] = x[l + i]
      <4> HIDE DEF d, from, to, l
      <4> QED
        BY <1>3, <3>1, Middle
    <3>3. y = SubSeq(x, from, to)
      OBVIOUS
    <3> HIDE DEF y, d, from, to
    <3>4. \A i \in 1 .. d : y[i] = ByteOf(i, g, <<>>)
      <4> TAKE i \in 1 .. d
      <4>1. y[i] = x[l + i] /\ l + i \in 1 .. m /\ i <= Len(g)
        BY <3>1, <3>2, <3>3
      <4>2. x[l + i] = ByteOf(l + i, f, g)
        BY <1>3, <4>1
      <4>3. ~(l + i <= Len(f)) /\ l + i - Len(f) = i
        BY <3>1
      <4>4. ByteOf(l + i, f, g) = g[i]
        BY <4>3 DEF ByteOf
      <4>5. ByteOf(i, g, <<>>) = g[i]
        BY <4>1 DEF ByteOf
      <4> QED
        BY <4>1, <4>2, <4>4, <4>5
    <3>5. Begins(y, d, g, <<>>)
      BY <3>2, <3>3, <3>4 DEF Begins
    <3> QED
      BY <3>5 DEF d
  <2> QED
    BY <2>3, <2>4, <2>5
<1> QED
  BY <1>7, <1>8

(* An empty buffer holds no frame. *)
LEMMA NothingLeft ==
  ASSUME NEW fs \in Seq(Seq(Byte)), NEW s, s = [buffer |-> <<>>, frames |-> fs]
  PROVE  s \in Feeding /\ Round(s) = s
<1>1. s \in Feeding /\ s.buffer = <<>> /\ s.frames = fs
  BY EmptySeq DEF Feeding
<1>2. AfterGarbage(s.buffer) = <<>>
  BY <1>1, GarbageGone, EmptySeq
<1>3. Incomplete(<<>>)
  BY DEF Incomplete
<1>4. Round(s) = [buffer |-> <<>>, frames |-> s.frames]
  BY <1>1, <1>2, <1>3, RoundIs
<1> QED
  BY <1>1, <1>4

(* The gateway stays in step, whatever chunk it gets. *)
LEMMA ChunkReadCorrectly ==
  ASSUME NEW e \in Seq(Payloads), Len(e) \in 1 .. 2, NEW w \in Seq(Byte),
         NEW f, f = Frame("gateway", e[1]), NEW g, g = Following("gateway", e),
         NEW k \in 0 .. Len(f) - 1, OnWire(w, k, f, g),
         NEW r, NEW buffer \in Seq(Byte), Stands("gateway", r, buffer, k, e[1]),
         NEW n \in 1 .. Len(w), NEW fed, fed = Fed(buffer \o SubSeq(w, 1, n))
  PROVE  Correctly("gateway", SubSeq(w, n + 1, Len(w)), r, fed.buffer, e, fed.frames)
<1> DEFINE p == e[1]
           b == buffer \o SubSeq(w, 1, n)
           x == AfterGarbage(b)
           t == SubSeq(w, n + 1, Len(w))
           m == k + n
           z == [buffer |-> b, frames |-> <<>>]
           s == Round(z)
<1>1. p \in Payloads /\ f \in Seq(Byte) /\ g \in Seq(Byte)
  BY FollowingTyped, FrameShape
<1>2. /\ Len(f) \in Nat /\ Len(f) > 3 /\ Len(g) \in Nat /\ Len(w) \in Nat /\ Len(e) \in Nat
      /\ k \in Nat /\ n \in Nat /\ m \in Nat /\ m > 0 /\ e # <<>>
  <2>1. Len(f) = Len(p) + 3 /\ Len(p) \in Nat /\ Len(p) > 0
    BY <1>1, FrameShape, PayloadTyped
  <2>2. Len(w) \in Nat /\ Len(g) \in Nat /\ Len(e) \in Nat
    BY <1>1, LenProperties
  <2> HIDE DEF p
  <2> QED
    BY <2>1, <2>2, EmptySeq
<1>3. /\ t \in Seq(Byte) /\ m \in 1 .. Len(f) + Len(g)
      /\ m < Len(f) => OnWire(t, m, f, g)
      /\ m = Len(f) => t = g
      /\ m > Len(f) /\ m - Len(f) < Len(g) => OnWire(t, m - Len(f), g, <<>>)
      /\ m - Len(f) = Len(g) => t = <<>>
  <2>1. m = k + n /\ t = SubSeq(w, n + 1, Len(w)) /\ m \in Nat
    BY <1>2
  <2>2. f \in Seq(Byte) /\ g \in Seq(Byte)
    BY <1>1
  <2> HIDE DEF p, m, t
  <2>3. ChunkTaken(t, m, f, g)
    BY <2>1, <2>2, ChunkOffWire
  <2> QED
    BY <2>3 DEF ChunkTaken
<1>4. b \in Seq(Byte) /\ Len(b) >= m /\ Begins(x, m, f, g)
  BY <1>1, <1>2, BufferBegins
<1>5. z \in Feeding /\ z.buffer = b /\ z.frames = <<>>
  BY <1>4, StartTyped
<1>6. Len(b) \in Nat /\ Len(b) > 0 /\ (m > Len(f) => Len(b) > 1)
  <2>1. Len(b) \in Nat
    BY <1>4, LenProperties
  <2> HIDE DEF b, m
  <2> QED
    BY <1>2, <1>4, <2>1
<1>7. fed = Fed(b)
  OBVIOUS
<1>8. /\ s \in Feeding
      /\ Round(s) = s => fed = s
      /\ Len(b) > 1 /\ Round(Round(s)) = Round(s) => fed = Round(s)
  <2> HIDE DEF b
  <2> QED
    BY <1>4, <1>6, <1>7, FedInRounds
<1>9. p \in Seq(Byte)
  BY <1>1, PayloadTyped
<1> HIDE DEF b, t, m, z
<1>10. x = AfterGarbage(z.buffer)
  BY <1>5
<1>11. /\ m < Len(f) => s = [buffer |-> x, frames |-> z.frames] /\ Begun(x, m, f)
       /\ ~(m < Len(f)) => \E y : /\ s = [buffer |-> y, frames |-> Append(z.frames, p)]
                                  /\ Begins(y, m - Len(f), g, <<>>)
  <2>1. p \in Payloads /\ g \in Seq(Byte) /\ f = Frame("gateway", p) /\ s = Round(z)
    BY <1>1
  <2>2. m \in 1 .. Len(f) + Len(g) /\ z \in Feeding
    BY <1>3, <1>5
  <2>3. Begins(x, m, f, g)
    BY <1>4
  <2> HIDE DEF x, p, s
  <2>4. /\ m < Len(f) => Round(z) = [buffer |-> x, frames |-> z.frames] /\ Begun(x, m, f)
        /\ ~(m < Len(f)) => \E y : /\ Round(z) = [buffer |-> y, frames |-> Append(z.frames, p)]
                                   /\ Begins(y, m - Len(f), g, <<>>)
    BY <2>1, <2>2, <2>3, <1>10, RoundOfBegun
  <2> QED
    BY <2>1, <2>4
<1>12. Append(z.frames, p) = <<p>> /\ <<p>> \in Seq(Seq(Byte))
  <2> DEFINE T == Seq(Byte)
  <2>1. z.frames = <<>>
    BY <1>5
  <2>2. p \in T
    BY <1>9
  <2> HIDE DEF p, T
  <2>3. Append(z.frames, p) = <<p>>
    BY <2>1
  <2>4. <<p>> \in Seq(T)
    BY <2>2
  <2> QED
    BY <2>3, <2>4 DEF T
<1> HIDE DEF s, x
<1>13. CASE m < Len(f)
  <2>1. s = [buffer |-> x, frames |-> <<>>] /\ Begun(x, m, f)
    BY <1>5, <1>11, <1>13
  <2>2. s.buffer = x /\ s.frames = <<>> /\ x = AfterGarbage(x)
    BY <1>1, <1>2, <1>4, <2>1, CleanAlready
  <2>3. Round(s) = s
    <3>1. Round(s) = [buffer |-> x, frames |-> s.frames]
      <4>1. p \in Payloads /\ g \in Seq(Byte) /\ f = Frame("gateway", p)
        BY <1>1
      <4>2. m \in 1 .. Len(f) + Len(g) /\ s \in Feeding /\ x = AfterGarbage(s.buffer)
        BY <1>3, <1>8, <2>2
      <4>3. Begins(x, m, f, g)
        BY <1>4
      <4> HIDE DEF p
      <4> QED
        BY <1>13, <4>1, <4>2, <4>3, RoundOfBegun
    <3> QED
      BY <2>1, <2>2, <3>1
  <2>4. fed.buffer = x /\ fed.frames = <<>>
    BY <1>8, <2>2, <2>3
  <2>5. InStep("gateway", t, r, x, e)
    <3>1. m \in 0 .. Len(f) - 1 /\ m # 0
      BY <1>2, <1>13
    <3>2. OnWire(t, m, f, g)
      BY <1>3, <1>13
    <3>3. Stands("gateway", r, x, m, p)
      BY <2>1, <3>1 DEF Stands, p
    <3> QED
      BY <1>2, <3>1, <3>2, <3>3 DEF InStep, p
  <2>6. Len(<<>>) = 0 /\ SubSeq(e, 1, Len(e)) = e /\ 0 + 1 = 1 /\ 1 .. 0 = {} /\ 0 <= Len(e)
    BY <1>2, EmptySeq, SubSeqFull
  <2>7. Correctly("gateway", t, r, x, e, <<>>)
    <3>1. SubSeq(e, Len(<<>>) + 1, Len(e)) = e
      BY <2>6
    <3> QED
      BY <2>5, <2>6, <3>1 DEF Correctly
  <2> QED
    BY <2>4, <2>7 DEF t
<1>14. CASE m = Len(f)
  <2>1. PICK y : s = [buffer |-> y, frames |-> <<p>>] /\ Begins(y, m - Len(f), g, <<>>)
    <3>1. ~(m < Len(f))
      BY <1>2, <1>14
    <3> QED
      BY <1>11, <1>12, <3>1
  <2>2. y = <<>>
    <3>1. m - Len(f) = 0
      BY <1>2, <1>14
    <3>2. y \in Seq(Byte) /\ Len(y) = 0
      BY <2>1, <3>1 DEF Begins
    <3> QED
      BY <3>2, EmptySeq
  <2>3. Round(s) = s
    BY <1>12, <2>1, <2>2, NothingLeft
  <2>4. fed.buffer = <<>> /\ fed.frames = <<p>>
    BY <1>8, <2>1, <2>2, <2>3
  <2>5. InStep("gateway", g, r, <<>>, SubSeq(e, 2, Len(e)))
    <3>1. Rests("gateway", r, <<>>)
      BY EmptySeq DEF Rests
    <3> QED
      BY <3>1, OneFrameRead
  <2>6. Correctly("gateway", t, r, <<>>, e, <<p>>)
    <3>1. t = g
      BY <1>3, <1>14
    <3>2. Len(<<p>>) = 1 /\ 1 .. 1 = {1} /\ <<p>>[1] = p /\ 1 + 1 = 2 /\ 1 <= Len(e)
      BY <1>2
    <3>3. Arrives("gateway", e[1]) = p
      BY DEF Arrives
    <3>4. InStep("gateway", t, r, <<>>, SubSeq(e, Len(<<p>>) + 1, Len(e)))
      BY <2>5, <3>1, <3>2
    <3> HIDE DEF p
    <3>5. \A i \in 1 .. Len(<<p>>) : <<p>>[i] = Arrives("gateway", e[i])
      BY <3>2, <3>3
    <3> QED
      BY <3>2, <3>4, <3>5 DEF Correctly
  <2> QED
    BY <2>4, <2>6 DEF t
<1>15. CASE m > Len(f)
  <2> DEFINE d == m - Len(f)
             q == e[2]
  <2>1. d \in Nat /\ d \in 1 .. Len(g) + 0 /\ d > 0 /\ ~(m < Len(f)) /\ Len(g) > 0
    <3> DEFINE lf == Len(f)
               lg == Len(g)
    <3>1. m \in Nat /\ lf \in Nat /\ lg \in Nat /\ m <= lf + lg /\ m > lf
      BY <1>2, <1>3, <1>15
    <3> HIDE DEF lf, lg
    <3>2. m - lf \in Nat /\ m - lf \in 1 .. lg + 0 /\ m - lf > 0 /\ ~(m < lf) /\ lg > 0
      BY <3>1
    <3> QED
      BY <3>2 DEF lf, lg
  <2>2. PICK y : s = [buffer |-> y, frames |-> <<p>>] /\ Begins(y, d, g, <<>>)
    BY <1>11, <1>12, <2>1
  <2>3. Len(e) = 2 /\ q \in Payloads /\ g = Frame("gateway", q)
    <3>1. Len(e) # 1
      <4>1. Len(e) = 1 => g = <<>>
        BY FollowingTyped
      <4> QED
        BY <2>1, <4>1, EmptySeq
    <3>2. Len(e) = 2
      BY <3>1
    <3> QED
      BY <3>2, FollowingTyped
  <2>4. /\ d < Len(g) => OnWire(t, d, g, <<>>)
        /\ d = Len(g) => t = <<>>
    BY <1>3, <1>15
  <2> HIDE DEF d, q
  <2>5. s.buffer = y /\ s.frames = <<p>> /\ y = AfterGarbage(y)
    BY <2>1, <2>2, <2>3, CleanAlready
  <2>6. /\ d < Len(g) => Round(s) = [buffer |-> y, frames |-> s.frames] /\ Begun(y, d, g)
        /\ ~(d < Len(g)) => \E v : /\ Round(s) = [buffer |-> v, frames |-> Append(s.frames, q)]
                                   /\ Begins(v, d - Len(g), <<>>, <<>>)
    <3>1. d \in 1 .. Len(g) + Len(<<>>) /\ <<>> \in Seq(Byte)
      BY <2>1, EmptySeq
    <3> QED
      BY <1>8, <2>2, <2>3, <2>5, <3>1, RoundOfBegun
  <2>7. Len(<<p>>) = 1 /\ <<p>>[1] = p /\ Len(<<p, q>>) = 2 /\ <<p, q>>[1] = p /\ <<p, q>>[2] = q
    OBVIOUS
  <2>8. Arrives("gateway", e[1]) = p /\ Arrives("gateway", e[2]) = q
    BY DEF Arrives, q
  <2>9. CASE d < Len(g)
    <3>1. Round(s) = s
      BY <2>2, <2>5, <2>6, <2>9
    <3>2. fed.buffer = y /\ fed.frames = <<p>>
      BY <1>8, <2>5, <3>1
    <3>3. InStep("gateway", t, r, y, SubSeq(e, 2, Len(e)))
      <4> DEFINE rest == SubSeq(e, 2, Len(e))
      <4>1. Len(rest) = 1 /\ rest[1] = q /\ rest # <<>>
        BY <2>3, SecondExpected DEF q
      <4> HIDE DEF rest
      <4>2. Following("gateway", rest) = <<>>
        BY <4>1 DEF Following
      <4>3. d \in 0 .. Len(g) - 1 /\ d # 0
        BY <1>2, <2>1, <2>9
      <4>4. Stands("gateway", r, y, d, q)
        BY <2>3, <2>6, <2>9, <4>3 DEF Stands
      <4>5. InStep("gateway", t, r, y, rest)
        BY <2>3, <2>4, <2>9, <4>1, <4>2, <4>3, <4>4 DEF InStep
      <4> QED
        BY <4>5 DEF rest
    <3>4. Correctly("gateway", t, r, y, e, <<p>>)
      <4> HIDE DEF p
      <4>1. InStep("gateway", t, r, y, SubSeq(e, Len(<<p>>) + 1, Len(e))) /\ Len(<<p>>) <= Len(e)
        BY <1>2, <2>3, <2>7, <3>3
      <4>2. \A i \in 1 .. Len(<<p>>) : <<p>>[i] = Arrives("gateway", e[i])
        BY <2>7, <2>8
      <4> QED
        BY <4>1, <4>2 DEF Correctly
    <3> QED
      BY <3>2, <3>4 DEF t
  <2>10. CASE ~(d < Len(g))
    <3>1. d = Len(g) /\ d - Len(g) = 0
      BY <2>1, <2>10
    <3>2. PICK v : /\ Round(s) = [buffer |-> v, frames |-> Append(s.frames, q)]
                   /\ Begins(v, d - Len(g), <<>>, <<>>)
      BY <2>6, <2>10
    <3>3. v = <<>>
      <4>1. v \in Seq(Byte) /\ Len(v) = 0
        BY <3>1, <3>2 DEF Begins
      <4> QED
        BY <4>1, EmptySeq
    <3>4. Append(s.frames, q) = <<p, q>> /\ <<p, q>> \in Seq(Seq(Byte))
      <4> DEFINE T == Seq(Byte)
      <4>1. q \in T /\ p \in T
        BY <1>9, <2>3, PayloadTyped
      <4> HIDE DEF p, T
      <4>2. Append(s.frames, q) = <<p, q>>
        <5>1. s.frames = <<p>> /\ s.frames \in Seq(T) /\ Len(s.frames) = 1 /\ <<p, q>> \in Seq(T)
          BY <2>5, <4>1
        <5>2. /\ Append(s.frames, q) \in Seq(T) /\ Len(Append(s.frames, q)) = 2
              /\ Append(s.frames, q)[1] = p /\ Append(s.frames, q)[2] = q
          BY <4>1, <5>1, AppendProperties
        <5>3. \A i \in 1 .. 2 : Append(s.frames, q)[i] = <<p, q>>[i]
          BY <2>7, <5>2
        <5> QED
          BY <2>7, <5>1, <5>2, <5>3, SeqEqual
      <4>3. <<p, q>> \in Seq(T)
        BY <4>1
      <4> QED
        BY <4>2, <4>3 DEF T
    <3>5. Round(s) = [buffer |-> <<>>, frames |-> <<p, q>>]
      BY <3>2, <3>3, <3>4
    <3>6. Round(Round(s)) = Round(s)
      BY <3>4, <3>5, NothingLeft
    <3>7. fed.buffer = <<>> /\ fed.frames = <<p, q>>
      <4>1. fed = Round(s)
        BY <1>6, <1>8, <1>15, <3>6
      <4> QED
        BY <3>5, <4>1
    <3>8. Correctly("gateway", t, r, <<>>, e, <<p, q>>)
      <4> DEFINE rest == SubSeq(e, Len(<<p, q>>) + 1, Len(e))
      <4>1. rest = <<>>
        <5>1. rest = SubSeq(e, 3, 2)
          BY <2>3, <2>7
        <5>2. SubSeq(e, 3, 2) = <<>>
          BY SubSeqEmpty
        <5> QED
          BY <5>1, <5>2
      <4>2. t = <<>>
        BY <2>4, <3>1
      <4>3. Rests("gateway", r, <<>>)
        BY EmptySeq DEF Rests
      <4> HIDE DEF rest, p
      <4>4. InStep("gateway", t, r, <<>>, rest)
        BY <4>1, <4>2, <4>3 DEF InStep
      <4>5. \A i \in 1 .. Len(<<p, q>>) : <<p, q>>[i] = Arrives("gateway", e[i])
        <5>1. 1 .. Len(<<p, q>>) = {1, 2}
          BY <2>7
        <5> QED
          BY <2>7, <2>8, <5>1
      <4>6. Len(<<p, q>>) <= Len(e)
        BY <2>3, <2>7
      <4> QED
        BY <4>4, <4>5, <4>6 DEF Correctly, rest
    <3> QED
      BY <3>7, <3>8 DEF t
  <2> QED
    BY <2>9, <2>10
<1>16. m < Len(f) \/ m = Len(f) \/ m > Len(f)
  BY <1>2
<1> QED
  BY <1>13, <1>14, <1>15, <1>16

(* How the frames received are looked at keeps the invariant, if a receiver *)
(* in step has read them correctly.                                        *)
LEMMA ReceivedKeepsStep ==
  ASSUME FrameInv, NEW frames, Received(frames), Len(frames) \in Nat,
         wire' \in Seq(Byte), rx' \in Receiving, rxBuffer' \in Seq(Byte),
         ~damaged => Correctly(line.kind, wire', rx', rxBuffer', expected, frames)
  PROVE  FrameInv'
<1>1. /\ line' = line /\ left' = left /\ line \in Lines /\ left \in Nat
      /\ right = TRUE /\ damaged \in BOOLEAN
      /\ expected \in Seq(line.traffic) /\ Len(expected) \in Nat /\ Len(expected) <= 2
      /\ \A i \in 1 .. Len(expected) : Fits(line.kind, expected[i])
  BY LenProperties DEF FrameInv, FramesTyped, Received
<1>2. CASE ~damaged
  <2> DEFINE n    == Len(frames)
             rest == SubSeq(expected, n + 1, Len(expected))
  <2>1. /\ n <= Len(expected) /\ \A i \in 1 .. n : frames[i] = Arrives(line.kind, expected[i])
        /\ InStep(line.kind, wire', rx', rxBuffer', rest)
    BY <1>2 DEF Correctly
  <2>2. expected' = rest /\ damaged' = FALSE
    BY <1>2 DEF Received
  <2>3. right' = TRUE
    <3>1. \A i \in 1 .. n : frames[i] = AsExpected(expected[i])
      BY <2>1 DEF Arrives, AsExpected
    <3> QED
      BY <1>1, <2>1, <3>1 DEF Received
  <2>4. /\ rest \in Seq(line.traffic) /\ Len(rest) <= 2
        /\ \A i \in 1 .. Len(rest) : Fits(line.kind, rest[i])
    <3> DEFINE T == line.traffic
               from == n + 1
               to   == Len(expected)
    <3>1. from \in Int /\ to \in Int /\ from \in 1 .. to + 1 /\ to \in 0 .. Len(expected)
      BY <1>1, <2>1
    <3>2. /\ SubSeq(expected, from, to) \in Seq(T)
          /\ Len(SubSeq(expected, from, to)) = IF from <= to THEN to - from + 1 ELSE 0
          /\ \A i \in 1 .. to - from + 1 : SubSeq(expected, from, to)[i] = expected[from + i - 1]
      <4>1. expected \in Seq(T)
        BY <1>1
      <4>2. \A i \in from .. to : expected[i] \in T
        BY <1>1, <2>1
      <4> HIDE DEF from, to, T
      <4> QED
        BY <3>1, <4>1, <4>2, SubSeqProperties
    <3>3. Len(rest) = to - n /\ Len(rest) <= 2
      BY <1>1, <2>1, <3>2
    <3>4. ASSUME NEW i \in 1 .. Len(rest)
          PROVE  Fits(line.kind, rest[i])
      <4>1. i \in 1 .. to - from + 1 /\ from + i - 1 \in 1 .. Len(expected)
        BY <1>1, <2>1, <3>3
      <4>2. rest[i] = expected[from + i - 1]
        BY <3>2, <4>1
      <4> HIDE DEF rest, from
      <4> QED
        BY <1>1, <4>1, <4>2
    <3> QED
      BY <3>2, <3>3, <3>4
  <2> HIDE DEF rest
  <2> QED
    BY <1>1, <2>1, <2>2, <2>3, <2>4 DEF FrameInv, FramesTyped
<1>3. CASE damaged
  <2>1. expected' = <<>> /\ damaged' \in BOOLEAN
    BY <1>3 DEF Received
  <2>2. right' = TRUE
    BY <1>1, <1>3 DEF Received
  <2>3. ASSUME ~damaged'
        PROVE  wire' = <<>> /\ Rests(line.kind, rx', rxBuffer')
    <3>1. wire' = <<>> /\ Waits(rx', rxBuffer')
      BY <1>3, <2>3 DEF Received
    <3>2. line.kind = "device" => rx'.state = "idle"
      BY <3>1 DEF Waits
    <3>3. line.kind = "bridge" => rxBuffer' = <<>>
      BY <3>1 DEF Waits
    <3>4. line.kind = "gateway" => \A i \in 1 .. Len(rxBuffer') : rxBuffer'[i] # Mark
      <4>1. line.kind = "gateway" => Mark \notin Range(rxBuffer')
        BY <3>1 DEF Waits
      <4>2. DOMAIN rxBuffer' = 1 .. Len(rxBuffer')
        BY LenProperties
      <4> QED
        BY <4>1, <4>2 DEF Range
    <3> QED
      BY <3>1, <3>2, <3>3, <3>4 DEF Rests
  <2>4. ~damaged' => InStep(line.kind, wire', rx', rxBuffer', expected')
    BY <2>1, <2>3 DEF InStep
  <2>5. expected' \in Seq(line.traffic) /\ Len(expected') = 0 /\ 1 .. 0 = {}
    BY <2>1, EmptySeq
  <2> QED
    BY <1>1, <2>1, <2>2, <2>4, <2>5 DEF FrameInv, FramesTyped
<1> QED
  BY <1>2, <1>3

(* What is expected are payloads; a receiver in step that expects some has *)
(* bytes coming.                                                           *)
LEMMA WhatIsExpected ==
  ASSUME FrameInv
  PROVE  /\ expected \in Seq(Payloads) /\ Len(expected) \in Nat
         /\ expected # <<>> => Len(expected) \in 1 .. 2
         /\ ~damaged /\ wire = <<>> => expected = <<>>
         /\ ~damaged /\ wire # <<>> => expected # <<>>
<1>1. line \in Lines /\ expected \in Seq(line.traffic) /\ Len(expected) <= 2
  BY DEF FrameInv, FramesTyped
<1>2. expected \in Seq(Payloads)
  <2> DEFINE T == line.traffic
  <2>1. T \subseteq Payloads
    BY <1>1, KindOfLine
  <2>2. expected \in Seq(T)
    BY <1>1
  <2> HIDE DEF T
  <2> QED
    BY <2>1, <2>2
<1>3. Len(expected) \in Nat /\ (expected # <<>> => Len(expected) \in 1 .. 2)
  <2>1. Len(expected) \in Nat /\ Len(expected) <= 2
    BY <1>1, <1>2, LenProperties
  <2>2. Len(expected) # 0 => Len(expected) \in 1 .. 2
    <3> DEFINE n == Len(expected)
    <3>1. n \in Nat /\ n <= 2
      BY <2>1
    <3> HIDE DEF n
    <3>2. n # 0 => n \in 1 .. 2
      BY <3>1
    <3> QED
      BY <3>2 DEF n
  <2>3. Len(expected) = 0 => expected = <<>>
    BY <1>2, EmptySeq
  <2> QED
    BY <2>1, <2>2, <2>3, Zenon
<1>4. ASSUME ~damaged, wire = <<>>, expected # <<>>
      PROVE  FALSE
  <2> DEFINE f == Frame(line.kind, expected[1])
             g == Following(line.kind, expected)
  <2>1. PICK k \in 0 .. Len(f) - 1 : OnWire(wire, k, f, g)
    BY <1>4 DEF FrameInv, InStep
  <2>2. f \in Seq(Byte) /\ g \in Seq(Byte)
    BY <1>2, <1>3, <1>4, FollowingTyped, FrameShape
  <2>3. wire \in Seq(Byte)
    BY DEF FrameInv, FramesTyped
  <2> HIDE DEF f, g
  <2>4. wire # <<>>
    BY <2>1, <2>2, <2>3, NextOnWire
  <2> QED
    BY <1>4, <2>4
<1>5. ~damaged /\ wire # <<>> => expected # <<>>
  BY DEF FrameInv, InStep
<1> QED
  BY <1>2, <1>3, <1>4, <1>5

(* A burst is put on the wire while the receiver waits for it. *)
LEMMA SendKeepsStep ==
  ASSUME FrameInv, Send
  PROVE  FrameInv'
<1>1. /\ line' = line /\ rx' = rx /\ rxBuffer' = rxBuffer /\ right' = right
      /\ damaged' = damaged /\ left' = left /\ wire = <<>>
  BY DEF Send
<1>2. /\ line \in Lines /\ rx \in Receiving /\ rxBuffer \in Seq(Byte)
      /\ right /\ right \in BOOLEAN /\ damaged \in BOOLEAN /\ left \in Nat
  BY DEF FrameInv, FramesTyped
<1>3. PICK burst \in {<<p>> : p \in line.traffic} \cup (line.traffic \X line.traffic) :
        /\ \A i \in 1 .. Len(burst) : MaySend(burst[i])
        /\ wire' = FlattenSeq([i \in 1 .. Len(burst) |-> Framed(burst[i])])
        /\ expected' = IF damaged THEN <<>> ELSE burst
  BY DEF Send
<1>4. /\ burst \in Seq(line.traffic) /\ Len(burst) \in 1 .. 2 /\ wire' \in Seq(Byte)
      /\ OnWire(wire', 0, Frame(line.kind, burst[1]), Following(line.kind, burst))
  BY <1>2, <1>3, BurstOnWire
<1>5. \A i \in 1 .. Len(burst) : Fits(line.kind, burst[i])
  BY <1>2, <1>3, KindOfLine
<1>6. CASE damaged
  <2>1. expected' = <<>> /\ expected' \in Seq(line.traffic) /\ Len(expected') = 0 /\ 1 .. 0 = {}
    BY <1>3, <1>6, EmptySeq
  <2> QED
    BY <1>1, <1>2, <1>4, <1>6, <2>1 DEF FrameInv, FramesTyped
<1>7. CASE ~damaged
  <2>1. expected' = burst
    BY <1>3, <1>7
  <2>2. expected = <<>>
    BY <1>1, <1>7, WhatIsExpected
  <2>3. Rests(line.kind, rx, rxBuffer)
    BY <1>7, <2>2 DEF FrameInv, InStep
  <2>4. 0 \in 0 .. Len(Frame(line.kind, burst[1])) - 1
    <3>1. burst[1] \in Payloads
      <4>1. burst[1] \in line.traffic
        BY <1>4
      <4> QED
        BY <1>2, <4>1, KindOfLine
    <3>2. /\ Len(Frame(line.kind, burst[1])) \in Nat
          /\ Len(Frame(line.kind, burst[1])) > 0
      BY <3>1, FrameShape, PayloadTyped
    <3> QED
      BY <3>2
  <2>5. Stands(line.kind, rx, rxBuffer, 0, burst[1])
    BY <2>3 DEF Stands
  <2>6. InStep(line.kind, wire', rx, rxBuffer, burst)
    <3>1. burst # <<>>
      BY <1>4, EmptySeq
    <3> QED
      BY <1>4, <2>4, <2>5, <3>1 DEF InStep
  <2> QED
    BY <1>1, <1>2, <1>4, <1>5, <1>7, <2>1, <2>6 DEF FrameInv, FramesTyped
<1> QED
  BY <1>6, <1>7

(* Bytes lost or changed: nothing is expected any more. *)
LEMMA DamageKeepsStep ==
  ASSUME FrameInv, LoseByte \/ ChangeByte
  PROVE  FrameInv'
<1>1. wire \in Seq(Byte) /\ wire # <<>>
  BY DEF FrameInv, FramesTyped, LoseByte, ChangeByte
<1>2. Tail(wire) \in Seq(Byte)
  BY <1>1, HeadTailProperties
<1>3. PICK w \in Seq(Byte) : Damage(w)
  <2>1. CASE LoseByte
    BY <1>2, <2>1 DEF LoseByte
  <2>2. CASE ChangeByte
    <3>1. PICK b \in Byte : Damage(<<b>> \o Tail(wire))
      BY <2>2 DEF ChangeByte
    <3>2. <<b>> \o Tail(wire) \in Seq(Byte)
      <4>1. <<b>> \in Seq(Byte)
        OBVIOUS
      <4> QED
        BY <1>2, <4>1, Joined
    <3> QED
      BY <3>1, <3>2
  <2> QED
    BY <2>1, <2>2
<1>4. /\ wire' \in Seq(Byte) /\ damaged' = TRUE /\ expected' = <<>>
      /\ line' = line /\ rx' = rx /\ rxBuffer' = rxBuffer /\ right' = right
      /\ left > 0 /\ left' = left - 1
  BY <1>3 DEF Damage
<1>5. /\ line \in Lines /\ rx \in Receiving /\ rxBuffer \in Seq(Byte)
      /\ right /\ right \in BOOLEAN /\ left \in Nat
  BY DEF FrameInv, FramesTyped
<1>6. left' \in Nat
  BY <1>4, <1>5
<1>7. expected' \in Seq(line.traffic) /\ Len(expected') = 0 /\ 1 .. 0 = {}
  BY <1>4, EmptySeq
<1> QED
  BY <1>4, <1>5, <1>6, <1>7 DEF FrameInv, FramesTyped

(* A byte read by the device. *)
LEMMA DeviceKeepsStep ==
  ASSUME FrameInv, DeviceReads
  PROVE  FrameInv'
<1> DEFINE b      == Head(wire)
           next   == Machine(rx, b)
           frames == DeviceFrames(rx, next)
<1>1. /\ line.kind = "device" /\ wire # <<>> /\ wire' = Tail(wire) /\ rx' = next
      /\ rxBuffer' = rxBuffer /\ Received(DeviceFrames(rx, rx'))
  BY DEF DeviceReads
<1>2. wire \in Seq(Byte) /\ rx \in Receiving /\ rxBuffer \in Seq(Byte)
  BY DEF FrameInv, FramesTyped
<1>3. b \in Byte /\ Tail(wire) \in Seq(Byte)
  BY <1>1, <1>2, HeadTailProperties
<1>4. next \in Receiving
  BY <1>2, <1>3, MachineTyped
<1>5. Len(frames) \in Nat
  BY DEF DeviceFrames
<1>6. ASSUME ~damaged
      PROVE  Correctly("device", Tail(wire), next, rxBuffer, expected, frames)
  <2> DEFINE p == expected[1]
             f == Frame("device", p)
             g == Following("device", expected)
  <2>1. /\ expected \in Seq(Payloads) /\ Len(expected) \in 1 .. 2 /\ expected # <<>>
    BY <1>1, <1>6, WhatIsExpected
  <2>2. PICK k \in 0 .. Len(f) - 1 :
          OnWire(wire, k, f, g) /\ Stands("device", rx, rxBuffer, k, p)
    BY <1>1, <1>6, <2>1 DEF FrameInv, InStep
  <2>3. p \in Payloads /\ g \in Seq(Byte) /\ f \in Seq(Byte)
    BY <2>1, FollowingTyped, FrameShape
  <2>4. b = f[k + 1]
    <3> HIDE DEF f, g
    <3> QED
      BY <1>2, <2>2, <2>3, NextOnWire
  <2>5. Advances("device", p, k, next, rxBuffer, frames)
    <3> HIDE DEF p, b
    <3> QED
      BY <1>2, <2>2, <2>3, <2>4, DeviceAdvances
  <2> HIDE DEF next, frames
  <2> QED
    BY <1>2, <2>1, <2>2, <2>5, ByteReadCorrectly
<1> HIDE DEF next, b
<1>7. Received(frames)
  BY <1>1
<1>8. ~damaged => Correctly(line.kind, wire', rx', rxBuffer', expected, frames)
  BY <1>1, <1>6
<1> HIDE DEF frames
<1> QED
  BY <1>1, <1>2, <1>3, <1>4, <1>5, <1>7, <1>8, ReceivedKeepsStep

(* A byte read by the bridge. *)
LEMMA BridgeKeepsStep ==
  ASSUME FrameInv, BridgeReads
  PROVE  FrameInv'
<1> DEFINE b      == Head(wire)
           out    == Bridged(rxBuffer, b)
           frames == out.frames
<1>1. /\ line.kind = "bridge" /\ wire # <<>> /\ wire' = Tail(wire) /\ rx' = rx
      /\ rxBuffer' = out.buffer /\ Received(frames)
  BY DEF BridgeReads
<1>2. wire \in Seq(Byte) /\ rx \in Receiving /\ rxBuffer \in Seq(Byte)
  BY DEF FrameInv, FramesTyped
<1>3. b \in Byte /\ Tail(wire) \in Seq(Byte)
  BY <1>1, <1>2, HeadTailProperties
<1>4. out.buffer \in Seq(Byte) /\ Len(frames) \in Nat
  <2> HIDE DEF b
  <2> QED
    BY <1>2, <1>3, BridgedTyped
<1>6. ASSUME ~damaged
      PROVE  Correctly("bridge", Tail(wire), rx, out.buffer, expected, frames)
  <2> DEFINE p == expected[1]
             f == Frame("bridge", p)
             g == Following("bridge", expected)
  <2>1. /\ expected \in Seq(Payloads) /\ Len(expected) \in 1 .. 2 /\ expected # <<>>
    BY <1>1, <1>6, WhatIsExpected
  <2>2. PICK k \in 0 .. Len(f) - 1 :
          OnWire(wire, k, f, g) /\ Stands("bridge", rx, rxBuffer, k, p)
    BY <1>1, <1>6, <2>1 DEF FrameInv, InStep
  <2>3. p \in Payloads /\ g \in Seq(Byte) /\ f \in Seq(Byte)
    BY <2>1, FollowingTyped, FrameShape
  <2>4. b = f[k + 1]
    <3> HIDE DEF f, g
    <3> QED
      BY <1>2, <2>2, <2>3, NextOnWire
  <2>5. Len(p) <= MaxUnit
    BY <1>1, <2>1 DEF FrameInv, FramesTyped, Fits
  <2>6. Advances("bridge", p, k, rx, out.buffer, frames)
    <3> HIDE DEF p, b
    <3> QED
      BY <2>2, <2>3, <2>4, <2>5, BridgeAdvances
  <2> HIDE DEF out, frames
  <2> QED
    BY <1>2, <2>1, <2>2, <2>6, ByteReadCorrectly
<1> HIDE DEF out, b
<1>8. ~damaged => Correctly(line.kind, wire', rx', rxBuffer', expected, frames)
  BY <1>1, <1>6
<1> HIDE DEF frames
<1> QED
  BY <1>1, <1>2, <1>3, <1>4, <1>8, ReceivedKeepsStep

(* A chunk read by the gateway. *)
LEMMA GatewayKeepsStep ==
  ASSUME FrameInv, GatewayReads
  PROVE  FrameInv'
<1>1. /\ line.kind = "gateway" /\ rx' = rx
      /\ wire \in Seq(Byte) /\ rx \in Receiving /\ rxBuffer \in Seq(Byte)
  BY DEF FrameInv, FramesTyped, GatewayReads
<1>2. PICK n \in 1 .. Len(wire) :
        \E fed \in {Fed(rxBuffer \o SubSeq(wire, 1, n))} :
          /\ wire' = SubSeq(wire, n + 1, Len(wire))
          /\ rxBuffer' = fed.buffer
          /\ Received(fed.frames)
  BY DEF GatewayReads
<1> DEFINE b      == rxBuffer \o SubSeq(wire, 1, n)
           fed    == Fed(b)
           frames == fed.frames
<1>3. wire' = SubSeq(wire, n + 1, Len(wire)) /\ rxBuffer' = fed.buffer /\ Received(frames)
  BY <1>2
<1>4. Len(wire) \in Nat /\ n \in Nat /\ n > 0 /\ n <= Len(wire)
  BY <1>1, LenProperties
<1>5. SubSeq(wire, 1, n) \in Seq(Byte) /\ wire' \in Seq(Byte)
  <2>1. \A i \in 1 .. Len(wire) : wire[i] \in Byte
    BY <1>1
  <2>2. SubSeq(wire, 1, n) \in Seq(Byte)
    BY <1>4, <2>1, SubSeqProperties
  <2>3. SubSeq(wire, n + 1, Len(wire)) \in Seq(Byte)
    <3> DEFINE m == n + 1
    <3>1. m \in 1 .. Len(wire) + 1
      BY <1>4
    <3> HIDE DEF m
    <3>2. SubSeq(wire, m, Len(wire)) \in Seq(Byte)
      BY <1>4, <2>1, <3>1, SubSeqProperties
    <3> QED
      BY <3>2 DEF m
  <2> QED
    BY <1>3, <2>2, <2>3
<1>6. b \in Seq(Byte)
  BY <1>1, <1>5, Joined
<1>7. fed.buffer \in Seq(Byte) /\ Len(frames) \in Nat
  <2>1. fed \in Feeding
    <3> HIDE DEF b
    <3> QED
      BY <1>6, FedTyped
  <2> HIDE DEF fed
  <2>2. fed.buffer \in Seq(Byte) /\ fed.frames \in Seq(Seq(Byte))
    BY <2>1 DEF Feeding
  <2> QED
    BY <2>2, LenProperties
<1>8. ASSUME ~damaged
      PROVE  Correctly("gateway", SubSeq(wire, n + 1, Len(wire)), rx, fed.buffer, expected, frames)
  <2> DEFINE p == expected[1]
             f == Frame("gateway", p)
             g == Following("gateway", expected)
  <2>1. /\ expected \in Seq(Payloads) /\ Len(expected) \in 1 .. 2 /\ expected # <<>>
    <3>1. wire # <<>>
      BY <1>4, EmptySeq
    <3> QED
      BY <1>8, <3>1, WhatIsExpected
  <2>2. PICK k \in 0 .. Len(f) - 1 :
          OnWire(wire, k, f, g) /\ Stands("gateway", rx, rxBuffer, k, p)
    BY <1>1, <1>8, <2>1 DEF FrameInv, InStep
  <2> QED
    BY <1>1, <2>1, <2>2, ChunkReadCorrectly
<1> HIDE DEF fed
<1>9. ~damaged => Correctly(line.kind, wire', rx', rxBuffer', expected, frames)
  BY <1>1, <1>3, <1>8
<1> HIDE DEF frames
<1> QED
  BY <1>1, <1>3, <1>5, <1>7, <1>9, ReceivedKeepsStep

(* The invariant holds at first. *)
LEMMA FramesBegin == Init => FrameInv
<1> SUFFICES ASSUME Init
             PROVE  FrameInv
  OBVIOUS
<1>1. /\ line \in Lines /\ wire = <<>> /\ rxBuffer = <<>> /\ expected = <<>>
      /\ right = TRUE /\ damaged = FALSE /\ left = Damages
      /\ rx = [state |-> "idle", frame_len |-> 0, rx_len |-> 0, rx_buf |-> <<>>]
  BY DEF Init
<1>2. /\ <<>> \in Seq(Byte) /\ <<>> \in Seq(line.traffic) /\ Len(<<>>) = 0 /\ 1 .. 0 = {}
  BY EmptySeq
<1>3. rx \in Receiving /\ rx.state = "idle"
  BY <1>1, <1>2 DEF Receiving
<1>4. left \in Nat
  BY <1>1, FramingAssumption
<1>5. Rests(line.kind, rx, rxBuffer)
  BY <1>1, <1>2, <1>3 DEF Rests
<1> QED
  <2>1. wire \in Seq(Byte) /\ rxBuffer \in Seq(Byte) /\ expected \in Seq(line.traffic)
    BY <1>1, <1>2
  <2>2. Len(expected) <= 2 /\ \A i \in 1 .. Len(expected) : Fits(line.kind, expected[i])
    BY <1>1, <1>2
  <2>3. FramesTyped
    BY <1>1, <1>3, <1>4, <2>1, <2>2 DEF FramesTyped
  <2>4. InStep(line.kind, wire, rx, rxBuffer, expected)
    BY <1>1, <1>5 DEF InStep
  <2> QED
    BY <1>1, <2>3, <2>4 DEF FrameInv

(* Every step keeps it. *)
LEMMA FramesStep == FrameInv /\ [Next]_vars => FrameInv'
<1> SUFFICES ASSUME FrameInv, [Next]_vars
             PROVE  FrameInv'
  OBVIOUS
<1>1. CASE Send
  BY <1>1, SendKeepsStep
<1>2. CASE LoseByte \/ ChangeByte
  BY <1>2, DamageKeepsStep
<1>3. CASE DeviceReads
  BY <1>3, DeviceKeepsStep
<1>4. CASE GatewayReads
  BY <1>4, GatewayKeepsStep
<1>5. CASE BridgeReads
  BY <1>5, BridgeKeepsStep
<1>6. CASE UNCHANGED vars
  BY <1>6 DEF vars, FrameInv, FramesTyped
<1> QED
  BY <1>1, <1>2, <1>3, <1>4, <1>5, <1>6 DEF Next, Read

(* Whatever the bytes, and however they are cut into chunks, the receiver  *)
(* of a line gets the frames that were sent, each as it was sent and in    *)
(* their order; and after bytes were lost or changed again from when it    *)
(* waits for a frame while none is on the way (checkRecvFrame,             *)
(* feedSerialData, RS232Bridge::loop).                                     *)
THEOREM FramesAlwaysArriveAsSent == Spec => []FramesArriveAsSent
<1>1. Init => FrameInv
  BY FramesBegin
<1>2. FrameInv /\ [Next]_vars => FrameInv'
  BY FramesStep
<1>3. FrameInv => FramesArriveAsSent
  <2> SUFFICES ASSUME FrameInv
               PROVE  FramesArriveAsSent
    OBVIOUS
  <2>1. right
    BY DEF FrameInv
  <2> QED
    BY <2>1, WhatIsExpected DEF FramesArriveAsSent
<1> QED
  BY <1>1, <1>2, <1>3, PTL DEF Spec
=============================================================================
