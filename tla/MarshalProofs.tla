---------------------------- MODULE MarshalProofs ---------------------------
(***************************************************************************)
(* What the generated encoder writes, and that the decoder reads it back.  *)
(*                                                                         *)
(* VarintRoundTrip is about the bytes of one varint.  Filled says of the   *)
(* buffer that what has been written stands at its end; every Write keeps  *)
(* it, and because Size is exact it is full when the last one returns: its *)
(* bytes are MessageBytes.  Those are a document whose meaning is the      *)
(* message, and module UnmarshalProofs shows that documents are read.      *)
(***************************************************************************)
EXTENDS UnmarshalProofs

(***************************************************************************)
(* Writing a varint.                                                       *)
(***************************************************************************)
Powers == [n \in 0 .. 30 |-> 2^n]
PowerTable(p) ==
    /\ p \in [0 .. 30 -> Nat]
    /\ p[0] = 1 /\ p[1] = 2 /\ p[2] = 4 /\ p[3] = 8 /\ p[4] = 16 /\ p[5] = 32 /\ p[6] = 64
    /\ p[7] = 128 /\ p[8] = 256 /\ p[9] = 512 /\ p[10] = 1024 /\ p[11] = 2048 /\ p[12] = 4096
    /\ p[13] = 8192 /\ p[14] = 16384 /\ p[15] = 32768 /\ p[16] = 65536 /\ p[17] = 131072
    /\ p[18] = 262144 /\ p[19] = 524288 /\ p[20] = 1048576 /\ p[21] = 2097152 /\ p[22] = 4194304
    /\ p[23] = 8388608 /\ p[24] = 16777216 /\ p[25] = 33554432 /\ p[26] = 67108864
    /\ p[27] = 134217728 /\ p[28] = 268435456 /\ p[29] = 536870912 /\ p[30] = 1073741824

\* The powers of two up to 2^30, for the provers to look up.
LEMMA PowersAreTabled == PowerTable(Powers)
  BY DEF Powers, PowerTable

LEMMA PowersDouble == \A n \in 0 .. 29 : Powers[n + 1] = 2 * Powers[n]
<1>1. ASSUME NEW p, PowerTable(p), NEW n \in 0 .. 29 PROVE p[n + 1] = 2 * p[n]
  BY <1>1 DEF PowerTable
<1>2. QED
  BY <1>1, PowersAreTabled

LEMMA PowersGrow ==
    /\ Powers \in [0 .. 30 -> Nat]
    /\ \A a, b \in 0 .. 30 : a <= b => Powers[a] <= Powers[b]
<1> DEFINE S == {b \in Nat : b <= 30 => \A a \in 0 .. b : Powers[a] <= Powers[b]}
<1>1. Powers \in [0 .. 30 -> Nat]
  BY PowersAreTabled DEF PowerTable
<1>2. 0 \in S
  <2>1. \A a \in 0 .. 0 : a = 0
    OBVIOUS
  <2>2. Powers[0] <= Powers[0]
    BY <1>1
  <2>3. QED
    BY <2>1, <2>2
<1>3. ASSUME NEW b \in Nat, b \in S PROVE b + 1 \in S
  <2>1. SUFFICES ASSUME b + 1 <= 30, NEW a \in 0 .. b + 1 PROVE Powers[a] <= Powers[b + 1]
    OBVIOUS
  <2>2. Powers[b + 1] = 2 * Powers[b] /\ Powers[b] \in Nat /\ Powers[b + 1] \in Nat
    BY <1>1, <2>1, PowersDouble
  <2>3. CASE a = b + 1
    BY <2>2, <2>3
  <2>4. CASE a \in 0 .. b
    <3>1. Powers[a] <= Powers[b] /\ Powers[a] \in Nat
      BY <1>1, <1>3, <2>1, <2>4
    <3>2. QED
      BY ONLY <2>2, <3>1
  <2>5. QED
    BY <2>1, <2>3, <2>4
<1> HIDE DEF S
<1>4. Nat \subseteq S
  BY <1>2, <1>3, SetInduction
<1>5. \A a, b \in 0 .. 30 : a <= b => Powers[a] <= Powers[b]
  BY <1>4 DEF S
<1>6. QED
  BY <1>1, <1>5

-----------------------------------------------------------------------------
\* How many groups of seven bits a number has.
IsGroups(v, c) ==
    \/ c = 1 /\ v < 128
    \/ c = 2 /\ v >= 128 /\ v < 16384
    \/ c = 3 /\ v >= 16384 /\ v < 2097152
    \/ c = 4 /\ v >= 2097152 /\ v < 268435456

\* The bytes of a number of c groups.
LEMMA VarintBytesAre ==
    ASSUME NEW v \in Nat, v < 2^28
    PROVE  \E c \in 1 .. 4 :
              /\ IsGroups(v, c)
              /\ VarintBytes(v) = [n \in 1 .. c |-> ((v \div 128^(n - 1)) % 128)
                                                       + (IF n < c THEN 128 ELSE 0)]
<1> DEFINE Is(n) == v < 128^n /\ (n = 1 \/ v >= 128^(n - 1))
           c == CHOOSE n \in 1 .. 4 : Is(n)
<1>1. v < 268435456
  BY SMT
<1>2. Is(1) <=> v < 128
  BY SMT
<1>3. /\ Is(2) <=> v >= 128 /\ v < 16384
      /\ Is(3) <=> v >= 16384 /\ v < 2097152
      /\ Is(4) <=> v >= 2097152 /\ v < 268435456
  BY SMT
<1> HIDE DEF Is
<1>4. \E n \in 1 .. 4 : Is(n)
  BY ONLY v \in Nat, <1>1, <1>2, <1>3, SMT
<1>5. c \in 1 .. 4 /\ Is(c)
  BY <1>4, Zenon
<1> HIDE DEF c
<1>6. IsGroups(v, c)
  BY <1>2, <1>3, <1>5 DEF IsGroups
<1>7. VarintBytes(v) = [n \in 1 .. c |-> ((v \div 128^(n - 1)) % 128)
                                              + (IF n < c THEN 128 ELSE 0)]
  BY Zenon DEF VarintBytes, c, Is
<1>8. QED
  BY <1>5, <1>6, <1>7

\* Size counts the groups that encodeVarint writes.
LEMMA SovIsGroups ==
    ASSUME NEW v \in Nat, v > 0, NEW c, IsGroups(v, c)
    PROVE  Sov(v) = c
<1> DEFINE Is(n) == v < 2^n /\ (n = 0 \/ v >= 2^(n - 1))
           n == CHOOSE n \in 0 .. 30 : Is(n)
           At(k) == v < Powers[k] /\ (k = 0 \/ v >= Powers[k - 1])
<1>1. \A k \in 0 .. 30 : Is(k) <=> At(k)
  <2>1. \A k \in 0 .. 30 : k = 0 \/ k - 1 \in 0 .. 30
    OBVIOUS
  <2>2. \A k \in 0 .. 30 : Powers[k] = 2^k
    BY DEF Powers
  <2>3. QED
    BY <2>1, <2>2
<1>2. v < Powers[28]
  <2>1. v < 268435456
    BY DEF IsGroups
  <2>2. QED
    BY <2>1, PowersAreTabled DEF PowerTable
<1>3. \E k \in 0 .. 30 : At(k)
  <2> DEFINE S == {m \in Nat : m <= 30 /\ v < Powers[m] => \E k \in 0 .. 30 : At(k)}
  <2>1. 0 \in S
    OBVIOUS
  <2>2. ASSUME NEW m \in Nat, m \in S PROVE m + 1 \in S
    <3>1. SUFFICES ASSUME m + 1 <= 30, v < Powers[m + 1] PROVE \E k \in 0 .. 30 : At(k)
      OBVIOUS
    <3>2. CASE v < Powers[m]
      BY <2>2, <3>1, <3>2
    <3>3. CASE ~(v < Powers[m])
      <4>1. m + 1 \in 0 .. 30 /\ m \in 0 .. 30 /\ (m + 1) - 1 = m
        BY <3>1
      <4>2. Powers[m] \in Nat
        BY <4>1, PowersGrow
      <4>3. At(m + 1)
        BY <3>1, <3>3, <4>1, <4>2
      <4>4. QED
        BY <4>1, <4>3
    <3>4. QED
      BY <3>2, <3>3
  <2> HIDE DEF S
  <2>3. Nat \subseteq S
    BY <2>1, <2>2, SetInduction
  <2>4. 28 \in S
    BY <2>3
  <2>5. QED
    BY <1>2, <2>4 DEF S
<1>4. n \in 0 .. 30 /\ Is(n)
  <2> HIDE DEF Is, At
  <2>1. \E k \in 0 .. 30 : Is(k)
    BY <1>1, <1>3
  <2>2. QED
    BY <2>1, Zenon
<1>5. OrOne(v) = v /\ Len64(v) = n
  <2>1. v # 0
    OBVIOUS
  <2>2. QED
    BY <2>1, Zenon DEF OrOne, Len64
<1> HIDE DEF Is, n
<1>6. n \in 0 .. 30 /\ v < Powers[n] /\ (n = 0 \/ v >= Powers[n - 1])
  BY <1>1, <1>4
<1> DEFINE low == 7 * (c - 1)
           high == 7 * c
<1>7. c \in 1 .. 4
  BY DEF IsGroups
<1>8. /\ low \in 0 .. 30 /\ high \in 0 .. 30
      /\ Powers[low] <= v /\ v < Powers[high]
      /\ Powers[low] \in Nat /\ Powers[high] \in Nat
  <2>1. /\ Powers[0] = 1 /\ Powers[7] = 128 /\ Powers[14] = 16384
        /\ Powers[21] = 2097152 /\ Powers[28] = 268435456
    BY PowersAreTabled DEF PowerTable
  <2>2. /\ c = 1 => low = 0 /\ high = 7
        /\ c = 2 => low = 7 /\ high = 14
        /\ c = 3 => low = 14 /\ high = 21
        /\ c = 4 => low = 21 /\ high = 28
    OBVIOUS
  <2> HIDE DEF low, high
  <2>3. QED
    BY <2>1, <2>2 DEF IsGroups
<1> HIDE DEF low, high
<1>9. n > low
  <2>1. SUFFICES ASSUME n <= low PROVE FALSE
    BY <1>6, <1>8
  <2>2. Powers[n] <= Powers[low] /\ Powers[n] \in Nat
    BY <1>6, <1>8, <2>1, PowersGrow
  <2>3. QED
    BY <1>6, <1>8, <2>2
<1>10. n <= high
  <2>1. SUFFICES ASSUME n > high PROVE FALSE
    BY <1>6, <1>8
  <2>2. n - 1 \in 0 .. 30 /\ high <= n - 1 /\ n # 0
    BY <1>6, <1>8, <2>1
  <2>3. Powers[high] <= Powers[n - 1] /\ Powers[n - 1] \in Nat
    BY <1>8, <2>2, PowersGrow
  <2>4. QED
    BY <1>6, <1>8, <2>2, <2>3
<1>11. (n + 6) \div 7 = c
  BY <1>6, <1>7, <1>9, <1>10 DEF low, high
<1>12. QED
  BY <1>5, <1>11 DEF Sov

\* What was written is a varint with that value.
LEMMA VarintRoundTrip ==
    ASSUME NEW v \in Nat, v < 2^28
    PROVE  /\ VarintBytes(v) \in Seq(Bytes)
           /\ v > 0 => Len(VarintBytes(v)) = Sov(v)
           /\ v <= MaxInt => IsVarint(VarintBytes(v)) /\ VarintValue(VarintBytes(v)) = v
<1> DEFINE b == VarintBytes(v)
<1>1. PICK c \in 1 .. 4 :
              /\ IsGroups(v, c)
              /\ b = [n \in 1 .. c |-> ((v \div 128^(n - 1)) % 128) + (IF n < c THEN 128 ELSE 0)]
  BY VarintBytesAre
<1> HIDE DEF b
<1> DEFINE d(n) == (v \div 128^(n - 1)) % 128
<1>2. \A n \in 1 .. c : d(n) \in 0 .. 127 /\ d(n) \in Int
  <2>1. \A x \in Int : x % 128 \in 0 .. 127
    OBVIOUS
  <2>2. /\ v \div 128^(1 - 1) \in Int /\ v \div 128^(2 - 1) \in Int
        /\ v \div 128^(3 - 1) \in Int /\ v \div 128^(4 - 1) \in Int
    OBVIOUS
  <2>3. d(1) \in 0 .. 127 /\ d(2) \in 0 .. 127 /\ d(3) \in 0 .. 127 /\ d(4) \in 0 .. 127
    BY <2>1, <2>2
  <2> HIDE DEF d
  <2>4. \A n \in 1 .. c : n = 1 \/ n = 2 \/ n = 3 \/ n = 4
    OBVIOUS
  <2>5. QED
    BY <2>3, <2>4
<1>3. \A n \in 1 .. c : b[n] = d(n) + (IF n < c THEN 128 ELSE 0)
  BY <1>1
<1>4. DOMAIN b = 1 .. c
  BY <1>1
<1> HIDE DEF d
<1>5. \A n \in 1 .. c : b[n] \in Bytes /\ b[n] % 128 = d(n) /\ (b[n] < 128 <=> n = c)
  <2>1. TAKE n \in 1 .. c
  <2>2. d(n) \in 0 .. 127 /\ b[n] = d(n) + (IF n < c THEN 128 ELSE 0)
    BY <1>2, <1>3
  <2>3. CASE n < c
    <3>1. b[n] = d(n) + 128
      BY <2>2, <2>3
    <3>2. \A x \in 0 .. 127 : x + 128 \in 0 .. 255 /\ (x + 128) % 128 = x /\ ~(x + 128 < 128)
      OBVIOUS
    <3>3. QED
      BY <2>2, <2>3, <3>1, <3>2 DEF Bytes
  <2>4. CASE n = c
    <3>1. b[n] = d(n)
      BY <2>2, <2>4
    <3>2. \A x \in 0 .. 127 : x \in 0 .. 255 /\ x % 128 = x /\ x < 128
      OBVIOUS
    <3>3. QED
      BY <2>2, <2>4, <3>1, <3>2 DEF Bytes
  <2>5. QED
    BY <2>3, <2>4
<1>6. b \in Seq(Bytes) /\ Len(b) = c
  <2>1. b \in [1 .. c -> Bytes]
    BY <1>1, <1>5
  <2>2. QED
    BY <2>1
<1>7. v <= MaxInt => 7 * (c - 1) < WordBits
  <2> SUFFICES ASSUME v <= MaxInt PROVE 7 * (c - 1) < WordBits
    OBVIOUS
  <2> DEFINE low == 7 * (c - 1)
  <2>1. low \in 0 .. 30 /\ Powers[low] <= MaxInt
    <3>1. Powers[0] = 1 /\ Powers[7] = 128 /\ Powers[14] = 16384 /\ Powers[21] = 2097152
      BY PowersAreTabled DEF PowerTable
    <3>2. MaxInt \in Nat /\ MaxInt >= 127
      BY WordAssumption
    <3>3. /\ c = 1 => low = 0
          /\ c = 2 => low = 7
          /\ c = 3 => low = 14
          /\ c = 4 => low = 21
      OBVIOUS
    <3> HIDE DEF low
    <3>4. QED
      BY <1>1, <3>1, <3>2, <3>3 DEF IsGroups
  <2>2. 2 * (MaxInt + 1) = 2^WordBits /\ WordBits \in Nat /\ MaxInt \in Nat
    BY WordAssumption
  <2> HIDE DEF low
  <2>3. SUFFICES ASSUME WordBits <= low PROVE FALSE
    BY <2>1, <2>2 DEF low
  <2>4. Powers[WordBits] = 2^WordBits /\ Powers[WordBits] <= Powers[low] /\ Powers[low] \in Nat
    <3>1. WordBits \in 0 .. 30
      BY <2>1, <2>2, <2>3
    <3>2. QED
      BY <2>1, <2>3, <3>1, PowersGrow DEF Powers
  <2>5. QED
    BY <2>1, <2>2, <2>4
<1>8. v <= MaxInt => IsVarint(b)
  BY <1>1, <1>5, <1>6, <1>7 DEF IsVarint
<1>9. GroupSums(b)[c] = v
  <2> DEFINE G == GroupSums(b)
  <2>1. G[0] = 0 /\ G \in [0 .. c -> Int]
    BY <1>6, GroupSumsStep
  <2>2. \A n \in 1 .. c : G[n] = G[n - 1] + d(n) * 2^(7 * (n - 1))
    BY <1>5, <1>6, GroupSumsStep
  <2>3. /\ d(1) = v % 128 /\ d(2) = (v \div 128) % 128
        /\ d(3) = (v \div 16384) % 128 /\ d(4) = (v \div 2097152) % 128
    BY SMT DEF d
  <2> HIDE DEF G
  <2>4. /\ G[1] = d(1)
        /\ c >= 2 => G[2] = G[1] + d(2) * 128
        /\ c >= 3 => G[3] = G[2] + d(3) * 16384
        /\ c >= 4 => G[4] = G[3] + d(4) * 2097152
    <3>1. 2^(7 * (1 - 1)) = 1 /\ 2^(7 * (2 - 1)) = 128 /\ 2^(7 * (3 - 1)) = 16384
          /\ 2^(7 * (4 - 1)) = 2097152
      BY SMT
    <3>2. 1 - 1 = 0 /\ 2 - 1 = 1 /\ 3 - 1 = 2 /\ 4 - 1 = 3
      OBVIOUS
    <3>3. /\ G[1] = G[1 - 1] + d(1) * 2^(7 * (1 - 1))
          /\ c >= 2 => G[2] = G[2 - 1] + d(2) * 2^(7 * (2 - 1))
          /\ c >= 3 => G[3] = G[3 - 1] + d(3) * 2^(7 * (3 - 1))
          /\ c >= 4 => G[4] = G[4 - 1] + d(4) * 2^(7 * (4 - 1))
      <4>1. 1 \in 1 .. c
        OBVIOUS
      <4>2. c >= 2 => 2 \in 1 .. c
        OBVIOUS
      <4>3. c >= 3 => 3 \in 1 .. c
        OBVIOUS
      <4>4. c >= 4 => 4 \in 1 .. c
        OBVIOUS
      <4>5. QED
        BY <2>2, <4>1, <4>2, <4>3, <4>4, Zenon
    <3>4. d(1) \in Int
      BY <1>2
    <3>5. QED
      BY ONLY <2>1, <3>1, <3>2, <3>3, <3>4
  <2>5. QED
    <3>1. c = 1 => G[c] = v
      BY <1>1, <2>3, <2>4 DEF IsGroups
    <3>2. c = 2 => G[c] = v
      BY <1>1, <2>3, <2>4 DEF IsGroups
    <3>3. c = 3 => G[c] = v
      BY <1>1, <2>3, <2>4 DEF IsGroups
    <3>4. c = 4 => G[c] = v
      BY <1>1, <2>3, <2>4, SMTT(30) DEF IsGroups
    <3>5. QED
      <4>1. c = 1 \/ c = 2 \/ c = 3 \/ c = 4
        OBVIOUS
      <4>2. QED
        BY <3>1, <3>2, <3>3, <3>4, <4>1 DEF G
<1>10. v <= MaxInt => v % WordMod = v
  BY WordModPositive
<1>11. QED
  BY <1>1, <1>6, <1>8, <1>9, <1>10, SovIsGroups DEF VarintValue, b

(***************************************************************************)
(* Writing a message.                                                      *)
(***************************************************************************)
LEMMA Concat ==
    ASSUME NEW a \in Seq(Bytes), NEW b \in Seq(Bytes)
    PROVE  /\ a \o b \in Seq(Bytes)
           /\ Len(a \o b) = Len(a) + Len(b)
           /\ Len(a) \in Nat /\ Len(b) \in Nat
           /\ \A k \in 1 .. Len(a) : (a \o b)[k] = a[k]
           /\ \A k \in 1 .. Len(b) : (a \o b)[Len(a) + k] = b[k]
           /\ a \o << >> = a /\ << >> \o a = a
  OBVIOUS

\* Concatenation of byte strings is associative.
LEMMA ConcatAssociates ==
    ASSUME NEW a \in Seq(Bytes), NEW b \in Seq(Bytes), NEW c \in Seq(Bytes)
    PROVE  (a \o b) \o c = a \o (b \o c)
  OBVIOUS

\* The buffer of n bytes has suffix behind its first at.i ones.
Filled(at, n, suffix) ==
    /\ at.i \in Nat
    /\ at.buffer \in [1 .. n -> Bytes]
    /\ suffix \in Seq(Bytes)
    /\ at.i + Len(suffix) = n
    /\ Holds(at.buffer, at.i, suffix)

\* Writing bytes before what has been written.
LEMMA PrependFills ==
    ASSUME NEW n \in Nat, NEW at, NEW suffix, Filled(at, n, suffix),
           NEW bytes \in Seq(Bytes), Len(bytes) <= at.i
    PROVE  Filled(Prepend(at, bytes), n, bytes \o suffix)
<1> DEFINE L == Len(bytes)
           M == Len(suffix)
           i == at.i - L
           s == bytes \o suffix
           new == Put(at.buffer, i, bytes)
<1>1. /\ at.i \in Nat /\ at.buffer \in [1 .. n -> Bytes]
      /\ suffix \in Seq(Bytes) /\ at.i + M = n /\ Holds(at.buffer, at.i, suffix)
  BY DEF Filled
<1>2. L \in Nat /\ M \in Nat /\ L <= at.i
  BY <1>1
<1>3. i \in Nat /\ i + L = at.i
  BY <1>1, <1>2
<1>4. /\ s \in Seq(Bytes) /\ Len(s) = L + M
      /\ \A k \in 1 .. L : s[k] = bytes[k]
      /\ \A k \in 1 .. M : s[L + k] = suffix[k]
  BY <1>1, Concat
<1>5. Prepend(at, bytes).i = i /\ Prepend(at, bytes).buffer = new
  BY DEF Prepend
<1>6. \A k \in 1 .. L : bytes[k] \in Bytes
  OBVIOUS
<1> HIDE DEF L, M, i, s
<1>7. new = [k \in 1 .. n |-> IF k \in i + 1 .. i + L THEN bytes[k - i] ELSE at.buffer[k]]
  BY <1>1 DEF Put, L
<1>8. new \in [1 .. n -> Bytes]
  <2>1. ASSUME NEW k \in 1 .. n
        PROVE  (IF k \in i + 1 .. i + L THEN bytes[k - i] ELSE at.buffer[k]) \in Bytes
    <3>1. CASE k \in i + 1 .. i + L
      <4>1. k - i \in 1 .. L
        BY <1>2, <1>3, <3>1
      <4>2. QED
        BY <1>6, <3>1, <4>1
    <3>2. CASE ~(k \in i + 1 .. i + L)
      BY <1>1, <3>2
    <3>3. QED
      BY <3>1, <3>2
  <2>2. QED
    BY <1>7, <2>1
<1>9. ASSUME NEW k \in 1 .. L + M PROVE new[i + k] = s[k]
  <2>1. i + k \in 1 .. n /\ (i + k) - i = k
    BY <1>1, <1>2, <1>3
  <2>2. CASE k \in 1 .. L
    <3>1. i + k \in i + 1 .. i + L
      BY <1>2, <1>3, <2>2
    <3>2. QED
      BY <1>4, <1>7, <2>1, <2>2, <3>1
  <2>3. CASE k \notin 1 .. L
    <3>1. ~(i + k \in i + 1 .. i + L) /\ k - L \in 1 .. M /\ at.i + (k - L) = i + k
          /\ L + (k - L) = k
      BY <1>1, <1>2, <1>3, <2>3
    <3>2. new[i + k] = at.buffer[i + k]
      BY <1>7, <2>1, <3>1
    <3>3. at.buffer[at.i + (k - L)] = suffix[k - L] /\ s[L + (k - L)] = suffix[k - L]
      BY <1>1, <1>4, <3>1 DEF Holds, M
    <3>4. QED
      BY <3>1, <3>2, <3>3
  <2>4. QED
    BY <2>2, <2>3
<1> HIDE DEF new
<1>10. Holds(new, i, s)
  BY <1>4, <1>9 DEF Holds
<1>11. i + Len(s) = n
  BY <1>1, <1>2, <1>3, <1>4
<1>12. QED
  BY <1>3, <1>4, <1>5, <1>8, <1>10, <1>11 DEF Filled, s

-----------------------------------------------------------------------------
\* The bytes of a field, and of a message, in the order of the fields.
StringBytes(tag, value) ==
    IF value = << >> THEN << >> ELSE <<tag>> \o (VarintBytes(Len(value)) \o value)
BoolBytes(tag, value) == IF value THEN <<tag>> \o <<1>> ELSE << >>

\* StringSize is the length of what a string is written as.
LEMMA StringBytesSize ==
    ASSUME NEW tag \in Bytes, NEW value \in Seq(Bytes), Len(value) < 2^28
    PROVE  /\ StringBytes(tag, value) \in Seq(Bytes)
           /\ Len(StringBytes(tag, value)) = StringSize(value)
           /\ Len(value) \in Nat /\ Len(value) <= StringSize(value)
           /\ StringSize(value) \in Nat
<1>1. CASE value = << >>
  BY <1>1 DEF StringBytes, StringSize
<1>2. CASE value # << >>
  <2> DEFINE V == VarintBytes(Len(value))
             S == Sov(Len(value))
  <2>1. Len(value) \in Nat /\ Len(value) > 0
    BY <1>2
  <2>2. V \in Seq(Bytes) /\ Len(V) = S
    BY <2>1, VarintRoundTrip
  <2>3. <<tag>> \in Seq(Bytes) /\ Len(<<tag>>) = 1
    OBVIOUS
  <2>4. StringSize(value) = 1 + Len(value) + S
    BY <1>2 DEF StringSize
  <2>5. StringBytes(tag, value) = <<tag>> \o (V \o value)
    BY <1>2 DEF StringBytes
  <2> HIDE DEF V, S
  <2>6. V \o value \in Seq(Bytes) /\ Len(V \o value) = S + Len(value)
    BY <2>2, Concat
  <2>7. /\ <<tag>> \o (V \o value) \in Seq(Bytes)
        /\ Len(<<tag>> \o (V \o value)) = 1 + (S + Len(value))
        /\ Len(V) \in Nat
    BY <2>2, <2>3, <2>6, Concat
  <2>8. S \in Nat
    BY <2>2, <2>7
  <2>9. QED
    BY <2>1, <2>4, <2>5, <2>7, <2>8
<1>3. QED
  BY <1>1, <1>2

\* WriteString and WriteBool fill the buffer with the bytes of their fields.
LEMMA StringFills ==
    ASSUME NEW n \in Nat, NEW at, NEW suffix, Filled(at, n, suffix),
           NEW tag \in Bytes, NEW value \in Seq(Bytes), Len(value) < 2^28,
           StringSize(value) <= at.i
    PROVE  /\ Filled(WriteString(at, tag, value), n, StringBytes(tag, value) \o suffix)
           /\ WriteString(at, tag, value).i = at.i - StringSize(value)
<1>1. suffix \in Seq(Bytes) /\ at.i \in Nat
  BY DEF Filled
<1>2. CASE value = << >>
  <2>1. WriteString(at, tag, value) = at /\ StringBytes(tag, value) = << >> /\ StringSize(value) = 0
    BY <1>2 DEF WriteString, StringBytes, StringSize
  <2>2. StringBytes(tag, value) \o suffix = suffix
    BY <1>1, <2>1, Concat
  <2>3. QED
    BY <1>1, <2>1, <2>2
<1>3. CASE value # << >>
  <2> DEFINE L == Len(value)
             V == VarintBytes(L)
             S == Sov(L)
             at1 == Prepend(at, value)
             at2 == EncodeVarint(at1, L)
             at3 == Prepend(at2, <<tag>>)
  <2>1. L \in Nat /\ L > 0 /\ L < 2^28
    BY <1>3
  <2>2. V \in Seq(Bytes) /\ Len(V) = S /\ Len(V) \in Nat
    BY <2>1, VarintRoundTrip
  <2>3. <<tag>> \in Seq(Bytes) /\ Len(<<tag>>) = 1
    OBVIOUS
  <2>4. StringSize(value) = 1 + L + S
    BY <1>3 DEF StringSize
  <2>5. /\ StringBytes(tag, value) = <<tag>> \o (V \o value)
        /\ WriteString(at, tag, value) = at3
    BY <1>3 DEF StringBytes, WriteString
  <2>6. at1.i = at.i - L
    BY DEF Prepend
  <2>7. at2.i = at1.i - S /\ at2 = Prepend(at1, V)
    BY <2>2 DEF EncodeVarint, Prepend
  <2>8. at3.i = at2.i - 1
    BY <2>3 DEF Prepend
  <2> HIDE DEF V, S
  <2>9. Filled(at1, n, value \o suffix)
    <3>1. L <= at.i
      BY <1>1, <2>1, <2>2, <2>4
    <3>2. QED
      BY <3>1, PrependFills
  <2> HIDE DEF at1
  <2>10. Filled(at2, n, V \o (value \o suffix))
    <3>1. Len(V) <= at1.i
      BY <1>1, <2>1, <2>2, <2>4, <2>6
    <3>2. QED
      BY <2>2, <2>7, <2>9, <3>1, PrependFills
  <2> HIDE DEF at2
  <2>11. Filled(at3, n, <<tag>> \o (V \o (value \o suffix)))
    <3>1. 1 <= at2.i
      BY <1>1, <2>1, <2>2, <2>4, <2>6, <2>7
    <3>2. QED
      BY <2>3, <2>10, <3>1, PrependFills
  <2> HIDE DEF at3
  <2>12. <<tag>> \o (V \o (value \o suffix)) = (<<tag>> \o (V \o value)) \o suffix
    <3>1. (V \o value) \o suffix = V \o (value \o suffix)
      BY ONLY <1>1, <2>2, value \in Seq(Bytes), ConcatAssociates, Zenon
    <3>2. V \o value \in Seq(Bytes)
      BY ONLY <2>2, value \in Seq(Bytes), Concat, Zenon
    <3>3. (<<tag>> \o (V \o value)) \o suffix = <<tag>> \o ((V \o value) \o suffix)
      BY ONLY <1>1, <2>3, <3>2, ConcatAssociates, Zenon
    <3>4. QED
      BY <3>1, <3>3, Zenon
  <2>13. at3.i = at.i - StringSize(value)
    BY <1>1, <2>1, <2>2, <2>4, <2>6, <2>7, <2>8
  <2>14. QED
    BY <2>5, <2>11, <2>12, <2>13
<1>4. QED
  BY <1>2, <1>3

LEMMA BoolFills ==
    ASSUME NEW n \in Nat, NEW at, NEW suffix, Filled(at, n, suffix),
           NEW tag \in Bytes, NEW value \in BOOLEAN, BoolSize(value) <= at.i
    PROVE  /\ Filled(WriteBool(at, tag, value), n, BoolBytes(tag, value) \o suffix)
           /\ WriteBool(at, tag, value).i = at.i - BoolSize(value)
           /\ BoolBytes(tag, value) \in Seq(Bytes) /\ Len(BoolBytes(tag, value)) = BoolSize(value)
           /\ BoolSize(value) \in Nat
<1>1. suffix \in Seq(Bytes) /\ at.i \in Nat
  BY DEF Filled
<1>2. CASE ~value
  <2>1. WriteBool(at, tag, value) = at /\ BoolBytes(tag, value) = << >> /\ BoolSize(value) = 0
    BY <1>2 DEF WriteBool, BoolBytes, BoolSize
  <2>2. BoolBytes(tag, value) \o suffix = suffix
    BY <1>1, <2>1, Concat
  <2>3. QED
    BY <1>1, <2>1, <2>2
<1>3. CASE value
  <2> DEFINE at1 == Prepend(at, <<1>>)
             at2 == Prepend(at1, <<tag>>)
  <2>1. /\ <<tag>> \in Seq(Bytes) /\ Len(<<tag>>) = 1
        /\ <<1>> \in Seq(Bytes) /\ Len(<<1>>) = 1
    BY DEF Bytes
  <2>2. /\ WriteBool(at, tag, value) = at2 /\ BoolSize(value) = 2
        /\ BoolBytes(tag, value) = <<tag>> \o <<1>>
    BY <1>3 DEF WriteBool, BoolBytes, BoolSize
  <2>3. at1.i = at.i - 1
    BY <2>1 DEF Prepend
  <2>4. at2.i = at1.i - 1
    BY <2>1 DEF Prepend
  <2>5. Filled(at1, n, <<1>> \o suffix)
    <3>1. Len(<<1>>) <= at.i
      BY <1>1, <2>1, <2>2
    <3>2. QED
      BY <2>1, <3>1, PrependFills
  <2> HIDE DEF at1
  <2>6. Filled(at2, n, <<tag>> \o (<<1>> \o suffix))
    <3>1. Len(<<tag>>) <= at1.i
      BY <1>1, <2>1, <2>2, <2>3
    <3>2. QED
      BY <2>1, <2>5, <3>1, PrependFills
  <2> HIDE DEF at2
  <2>7. <<tag>> \o (<<1>> \o suffix) = (<<tag>> \o <<1>>) \o suffix
    BY <1>1, <2>1, ConcatAssociates, Zenon
  <2>8. BoolBytes(tag, value) \in Seq(Bytes) /\ Len(BoolBytes(tag, value)) = 2
    BY <2>1, <2>2, Concat
  <2>9. Filled(WriteBool(at, tag, value), n, BoolBytes(tag, value) \o suffix)
    BY <2>2, <2>6, <2>7, Zenon
  <2>10. WriteBool(at, tag, value).i = at.i - BoolSize(value)
    BY <1>1, <2>2, <2>3, <2>4
  <2>11. QED
    BY <2>2, <2>8, <2>9, <2>10
<1>4. QED
  BY <1>2, <1>3

-----------------------------------------------------------------------------
MessageBytes(type, m) ==
    CASE type = "MsgSubmitAgeProof" ->
             StringBytes(10, m.creator) \o (StringBytes(18, m.proof) \o
                 (StringBytes(26, m.public_witness) \o StringBytes(34, m.current_date)))
      [] type = "MsgSubmitAgeProofResponse" -> << >>
      [] type = "QueryVerificationStatusRequest" -> StringBytes(10, m.address)
      [] type = "QueryVerificationStatusResponse" ->
             BoolBytes(8, m.verified) \o StringBytes(18, m.verified_at)

\* The last field, written first.
LEMMA LastStringFills ==
    ASSUME NEW n \in Nat, NEW at, Filled(at, n, << >>), at.i = n,
           NEW tag \in Bytes, NEW value \in Seq(Bytes), Len(value) < 2^28,
           StringSize(value) <= n
    PROVE  /\ Filled(WriteString(at, tag, value), n, StringBytes(tag, value))
           /\ WriteString(at, tag, value).i = n - StringSize(value)
<1> DEFINE none == << >>
<1>1. StringBytes(tag, value) \o none = StringBytes(tag, value)
  BY StringBytesSize, Concat
<1>2. Filled(at, n, none)
  OBVIOUS
<1> HIDE DEF none
<1>3. /\ Filled(WriteString(at, tag, value), n, StringBytes(tag, value) \o none)
      /\ WriteString(at, tag, value).i = at.i - StringSize(value)
  BY <1>2, StringFills
<1>4. QED
  BY <1>1, <1>3

\* The buffer is filled to its first byte.
LEMMA FilledIsAll ==
    ASSUME NEW n \in Nat, NEW at, NEW bytes, Filled(at, n, bytes), at.i = 0
    PROVE  SubSeq(at.buffer, 1, n - at.i) = bytes
<1>1. /\ at.buffer \in [1 .. n -> Bytes] /\ bytes \in Seq(Bytes)
      /\ 0 + Len(bytes) = n
      /\ \A k \in 1 .. Len(bytes) : at.buffer[0 + k] = bytes[k]
  BY DEF Filled, Holds
<1>2. at.buffer \in Seq(Bytes) /\ Len(at.buffer) = n
  BY <1>1
<1>3. Len(bytes) = n
  BY <1>1
<1>4. SubSeq(at.buffer, 0 + 1, 0 + Len(bytes)) = bytes
  BY <1>1, <1>2, <1>3, SliceIs
<1>5. 0 + 1 = 1 /\ 0 + Len(bytes) = n - at.i
  BY <1>3
<1>6. QED
  BY <1>4, <1>5

\* The buffer that Marshal makes.
LEMMA FreshBuffer ==
    ASSUME NEW n \in Nat
    PROVE  Filled([i |-> n, buffer |-> [k \in 1 .. n |-> 0]], n, << >>)
<1> DEFINE at == [i |-> n, buffer |-> [k \in 1 .. n |-> 0]]
<1>1. at.i = n /\ at.buffer = [k \in 1 .. n |-> 0]
  OBVIOUS
<1> HIDE DEF at
<1>2. at.buffer \in [1 .. n -> Bytes]
  BY <1>1 DEF Bytes
<1>3. << >> \in Seq(Bytes) /\ Len(<< >>) = 0
  OBVIOUS
<1>4. QED
  BY <1>1, <1>2, <1>3 DEF Filled, Holds, at

\* Marshal returns the bytes of the message, the four messages in turn.
LEMMA SubmitWritten ==
    ASSUME NEW m, m.creator \in Seq(Bytes), m.proof \in Seq(Bytes),
           m.public_witness \in Seq(Bytes), m.current_date \in Seq(Bytes),
           Len(m.creator) < 2^28, Len(m.proof) < 2^28,
           Len(m.public_witness) < 2^28, Len(m.current_date) < 2^28
    PROVE  Marshal("MsgSubmitAgeProof", m) = MessageBytes("MsgSubmitAgeProof", m)
<1> DEFINE a == StringSize(m.creator)
           b == StringSize(m.proof)
           c == StringSize(m.public_witness)
           d == StringSize(m.current_date)
           A == StringBytes(10, m.creator)
           B == StringBytes(18, m.proof)
           C == StringBytes(26, m.public_witness)
           D == StringBytes(34, m.current_date)
           n == a + b + c + d
           at0 == [i |-> n, buffer |-> [k \in 1 .. n |-> 0]]
           at1 == WriteString(at0, 34, m.current_date)
           at2 == WriteString(at1, 26, m.public_witness)
           at3 == WriteString(at2, 18, m.proof)
           at4 == WriteString(at3, 10, m.creator)
<1>1. 10 \in Bytes /\ 18 \in Bytes /\ 26 \in Bytes /\ 34 \in Bytes
  BY DEF Bytes
<1>2. a \in Nat /\ b \in Nat /\ c \in Nat /\ d \in Nat
      /\ A \in Seq(Bytes) /\ B \in Seq(Bytes) /\ C \in Seq(Bytes) /\ D \in Seq(Bytes)
  BY <1>1, StringBytesSize
<1>3. Marshal("MsgSubmitAgeProof", m) = SubSeq(at4.buffer, 1, n - at4.i)
  BY DEF Marshal, Size, SubmitAgeProofSize, MarshalToSizedBuffer, WriteSubmitAgeProof
<1>4. MessageBytes("MsgSubmitAgeProof", m) = A \o (B \o (C \o D))
  BY DEF MessageBytes
<1>5. n \in Nat /\ at0.i = n
  <2> HIDE DEF a, b, c, d
  <2>1. n \in Nat
    BY <1>2
  <2>2. at0.i = n
    OBVIOUS
  <2>3. QED
    BY <2>1, <2>2
<1>6. Filled(at0, n, << >>)
  <2> HIDE DEF n
  <2>1. QED
    BY <1>5, FreshBuffer
<1> HIDE DEF a, b, c, d, A, B, C, D, at0, n
<1>7. Filled(at1, n, D) /\ at1.i = n - d
  <2>1. d <= at0.i
    BY <1>2, <1>5 DEF n
  <2>2. QED
    BY <1>1, <1>5, <1>6, <2>1, LastStringFills DEF D, d
<1> HIDE DEF at1
<1>8. Filled(at2, n, C \o D) /\ at2.i = n - d - c
  <2>1. c <= at1.i
    BY <1>2, <1>7 DEF n
  <2>2. QED
    BY <1>1, <1>5, <1>7, <2>1, StringFills DEF C, c
<1> HIDE DEF at2
<1>9. Filled(at3, n, B \o (C \o D)) /\ at3.i = n - d - c - b
  <2>1. b <= at2.i
    BY <1>2, <1>8 DEF n
  <2>2. QED
    BY <1>1, <1>5, <1>8, <2>1, StringFills DEF B, b
<1> HIDE DEF at3
<1>10. Filled(at4, n, A \o (B \o (C \o D))) /\ at4.i = n - d - c - b - a
  <2>1. a <= at3.i
    BY <1>2, <1>9 DEF n
  <2>2. QED
    BY <1>1, <1>5, <1>9, <2>1, StringFills DEF A, a
<1> HIDE DEF at4
<1>11. at4.i = 0
  BY <1>2, <1>10 DEF n
<1>12. QED
  BY <1>3, <1>4, <1>5, <1>10, <1>11, FilledIsAll

LEMMA RequestWritten ==
    ASSUME NEW m, m.address \in Seq(Bytes), Len(m.address) < 2^28
    PROVE  Marshal("QueryVerificationStatusRequest", m)
               = MessageBytes("QueryVerificationStatusRequest", m)
<1> DEFINE n == StringSize(m.address)
           A == StringBytes(10, m.address)
           at0 == [i |-> n, buffer |-> [k \in 1 .. n |-> 0]]
           at1 == WriteString(at0, 10, m.address)
<1>1. 10 \in Bytes
  BY DEF Bytes
<1>2. n \in Nat /\ A \in Seq(Bytes)
  BY <1>1, StringBytesSize
<1>3. /\ Marshal("QueryVerificationStatusRequest", m) = SubSeq(at1.buffer, 1, n - at1.i)
      /\ MessageBytes("QueryVerificationStatusRequest", m) = A
  BY DEF Marshal, Size, StatusRequestSize, MarshalToSizedBuffer, WriteStatusRequest, MessageBytes
<1>4. at0.i = n
  OBVIOUS
<1>5. Filled(at0, n, << >>)
  <2> HIDE DEF n
  <2>1. QED
    BY <1>2, FreshBuffer
<1> HIDE DEF A, at0
<1>6. Filled(at1, n, A) /\ at1.i = 0
  <2>1. n <= at0.i
    BY <1>2, <1>4
  <2>2. Filled(at1, n, A) /\ at1.i = n - n
    BY <1>1, <1>2, <1>4, <1>5, <2>1, LastStringFills DEF A
  <2>3. QED
    BY <1>2, <2>2
<1> HIDE DEF n, at1
<1>7. QED
  BY <1>2, <1>3, <1>6, FilledIsAll

LEMMA ResponseWritten ==
    ASSUME NEW m, m.verified \in BOOLEAN, m.verified_at \in Seq(Bytes), Len(m.verified_at) < 2^28
    PROVE  Marshal("QueryVerificationStatusResponse", m)
               = MessageBytes("QueryVerificationStatusResponse", m)
<1> DEFINE a == BoolSize(m.verified)
           b == StringSize(m.verified_at)
           A == BoolBytes(8, m.verified)
           B == StringBytes(18, m.verified_at)
           n == a + b
           at0 == [i |-> n, buffer |-> [k \in 1 .. n |-> 0]]
           at1 == WriteString(at0, 18, m.verified_at)
           at2 == WriteBool(at1, 8, m.verified)
<1>1. 8 \in Bytes /\ 18 \in Bytes
  BY DEF Bytes
<1>2. b \in Nat /\ B \in Seq(Bytes) /\ a \in Nat
  BY <1>1, StringBytesSize DEF BoolSize
<1>3. /\ Marshal("QueryVerificationStatusResponse", m) = SubSeq(at2.buffer, 1, n - at2.i)
      /\ MessageBytes("QueryVerificationStatusResponse", m) = A \o B
  BY DEF Marshal, Size, StatusResponseSize, MarshalToSizedBuffer, WriteStatusResponse, MessageBytes
<1>4. n \in Nat /\ at0.i = n
  BY <1>2
<1>5. Filled(at0, n, << >>)
  <2> HIDE DEF n
  <2>1. QED
    BY <1>4, FreshBuffer
<1> HIDE DEF a, b, A, B, at0, n
<1>6. Filled(at1, n, B) /\ at1.i = n - b
  <2>1. b <= at0.i
    BY <1>2, <1>4 DEF n
  <2>2. QED
    BY <1>1, <1>4, <1>5, <2>1, LastStringFills DEF B, b
<1> HIDE DEF at1
<1>7. Filled(at2, n, A \o B) /\ at2.i = n - b - a
  <2>1. a <= at1.i
    BY <1>2, <1>6 DEF n
  <2>2. QED
    BY <1>1, <1>4, <1>6, <2>1, BoolFills DEF A, a
<1> HIDE DEF at2
<1>8. at2.i = 0
  BY <1>2, <1>7 DEF n
<1>9. QED
  BY <1>3, <1>4, <1>7, <1>8, FilledIsAll

LEMMA EmptyWritten ==
    ASSUME NEW m
    PROVE  Marshal("MsgSubmitAgeProofResponse", m) = MessageBytes("MsgSubmitAgeProofResponse", m)
<1> DEFINE at0 == [i |-> 0, buffer |-> [k \in 1 .. 0 |-> 0]]
<1>1. /\ Marshal("MsgSubmitAgeProofResponse", m) = SubSeq(at0.buffer, 1, 0 - at0.i)
      /\ MessageBytes("MsgSubmitAgeProofResponse", m) = << >>
  BY DEF Marshal, Size, MarshalToSizedBuffer, MessageBytes
<1>2. Filled(at0, 0, << >>) /\ at0.i = 0
  BY FreshBuffer
<1> HIDE DEF at0
<1>3. QED
  BY <1>1, <1>2, FilledIsAll

\* The bytes of a token.
LEMMA TokenBytes ==
    ASSUME NEW token, IsToken(token)
    PROVE  /\ token.tag \o token.prefix \o token.body \in Seq(Bytes)
           /\ Len(token.tag \o token.prefix \o token.body) = Extent(token)
           /\ Extent(token) \in Nat
<1>1. token.tag \in Seq(Bytes) /\ token.prefix \in Seq(Bytes) /\ token.body \in Seq(Bytes)
  BY VarintFacts DEF IsToken
<1>2. /\ token.tag \o token.prefix \in Seq(Bytes)
      /\ Len(token.tag \o token.prefix) = Len(token.tag) + Len(token.prefix)
      /\ Len(token.tag) \in Nat /\ Len(token.prefix) \in Nat
  BY <1>1, Concat
<1>3. /\ token.tag \o token.prefix \o token.body \in Seq(Bytes)
      /\ Len(token.tag \o token.prefix \o token.body)
            = Len(token.tag) + Len(token.prefix) + Len(token.body)
      /\ Len(token.body) \in Nat
  <2> DEFINE head == token.tag \o token.prefix
  <2>1. head \in Seq(Bytes) /\ Len(head) = Len(token.tag) + Len(token.prefix)
    BY <1>2
  <2> HIDE DEF head
  <2>2. /\ head \o token.body \in Seq(Bytes)
        /\ Len(head \o token.body) = Len(head) + Len(token.body)
        /\ Len(token.body) \in Nat
    BY <1>1, <2>1, Concat
  <2>3. QED
    BY <2>1, <2>2 DEF head
<1>4. Extent(token) = Len(token.tag) + Len(token.prefix) + Len(token.body)
  BY DEF Extent, LenTagged
<1>5. Extent(token) \in Nat
  <2> DEFINE T == Len(token.tag)
             P == Len(token.prefix)
             B == Len(token.body)
  <2>1. T \in Nat /\ P \in Nat /\ B \in Nat /\ Extent(token) = T + P + B
    BY <1>2, <1>3, <1>4
  <2> HIDE DEF T, P, B
  <2>2. QED
    BY ONLY <2>1
<1>6. QED
  BY <1>3, <1>4, <1>5

\* A document with another field behind it is a document.
LEMMA AnotherField ==
    ASSUME NEW type, NEW doc, IsDocument(type, doc), NEW token, IsToken(token),
           IsField(type, token), WireType(TagOf(token)) \in {Varint, Delimited},
           Len(doc.bytes) + Extent(token) <= MaxInt
    PROVE  \E new :
              /\ IsDocument(type, new)
              /\ new.bytes = doc.bytes \o (token.tag \o token.prefix \o token.body)
              /\ Meaning(new) = Updated(type, Meaning(doc), 0, token)
<1> DEFINE N == Len(doc.tokens)
           L == Len(doc.bytes)
           E == Extent(token)
           part == token.tag \o token.prefix \o token.body
           bytes == doc.bytes \o part
           tokens == [i \in 1 .. N + 1 |-> IF i = N + 1 THEN token ELSE doc.tokens[i]]
           at == [i \in 1 .. N + 2 |-> IF i = N + 2 THEN L + E ELSE doc.at[i]]
           groups == [i \in 1 .. N + 2 |-> IF i = N + 2 THEN 0 ELSE doc.depth[i]]
           msgs == [i \in 1 .. N + 2 |-> IF i = N + 2 THEN Updated(type, Meaning(doc), 0, token)
                                         ELSE doc.msgs[i]]
           new == [bytes |-> bytes, tokens |-> tokens, at |-> at, depth |-> groups, msgs |-> msgs]
<1>1. /\ N \in Nat
      /\ doc.bytes \in Seq(Bytes) /\ L <= MaxInt
      /\ \A i \in 1 .. N : IsToken(doc.tokens[i])
      /\ doc.at \in [1 .. N + 1 -> 0 .. L]
      /\ doc.depth \in [1 .. N + 1 -> Nat]
      /\ doc.at[1] = 0 /\ doc.depth[1] = 0 /\ doc.msgs[1] = NewMessage(type)
      /\ doc.at[N + 1] = L /\ doc.depth[N + 1] = 0
      /\ \A i \in 1 .. N :
            /\ Holds(doc.bytes, doc.at[i],
                     doc.tokens[i].tag \o doc.tokens[i].prefix \o doc.tokens[i].body)
            /\ doc.at[i + 1] = doc.at[i] + Extent(doc.tokens[i])
            /\ doc.depth[i + 1] = DepthAfter(doc.tokens[i], doc.depth[i])
            /\ doc.depth[i] = 0 => IsField(type, doc.tokens[i])
            /\ doc.msgs[i + 1] = Updated(type, doc.msgs[i], doc.depth[i], doc.tokens[i])
  BY DEF IsDocument
<1>2. part \in Seq(Bytes) /\ Len(part) = E /\ E \in Nat
  BY TokenBytes
<1>3. L \in Nat /\ MaxInt \in Nat /\ L + E <= MaxInt
  BY <1>1, SmallInts
<1> HIDE DEF part, E
<1>4. /\ bytes \in Seq(Bytes) /\ Len(bytes) = L + E
      /\ \A k \in 1 .. L : bytes[k] = doc.bytes[k]
      /\ \A k \in 1 .. E : bytes[L + k] = part[k]
  BY <1>1, <1>2, Concat
<1> HIDE DEF N, L, bytes
<1>5. /\ \A i \in 1 .. N : tokens[i] = doc.tokens[i]
      /\ tokens[N + 1] = token
  BY <1>1
<1>6. Len(tokens) = N + 1
  <2> DEFINE S == {tokens[i] : i \in 1 .. N + 1}
  <2>1. tokens \in [1 .. N + 1 -> S]
    OBVIOUS
  <2> HIDE DEF S, tokens
  <2>2. tokens \in Seq(S) /\ DOMAIN tokens = 1 .. N + 1
    BY <1>1, <2>1
  <2>3. QED
    BY <1>1, <2>2
<1>7. /\ \A i \in 1 .. N + 1 : at[i] = doc.at[i] /\ groups[i] = doc.depth[i] /\ msgs[i] = doc.msgs[i]
      /\ at[N + 2] = L + E /\ groups[N + 2] = 0
      /\ msgs[N + 2] = Updated(type, Meaning(doc), 0, token)
  <2> HIDE DEF Meaning
  <2>1. \A i \in 1 .. N + 1 : i \in 1 .. N + 2 /\ i # N + 2
    BY <1>1
  <2>2. N + 2 \in 1 .. N + 2
    BY <1>1
  <2>3. QED
    BY <2>1, <2>2
<1>8. at \in [1 .. N + 2 -> 0 .. L + E]
  <2>1. \A i \in 1 .. N + 2 : i = N + 2 \/ i \in 1 .. N + 1
    BY <1>1
  <2>2. \A i \in 1 .. N + 1 : doc.at[i] \in 0 .. L + E
    BY <1>1, <1>2, <1>3, SMTT(30)
  <2>3. L + E \in 0 .. L + E
    BY <1>2, <1>3
  <2>4. \A i \in 1 .. N + 2 : at[i] \in 0 .. L + E
    BY <1>7, <2>1, <2>2, <2>3
  <2>5. QED
    BY <2>4
<1>9. groups \in [1 .. N + 2 -> Nat]
  <2>1. \A i \in 1 .. N + 2 : i = N + 2 \/ i \in 1 .. N + 1
    BY <1>1
  <2>2. \A i \in 1 .. N + 2 : groups[i] \in Nat
    BY <1>1, <1>7, <2>1
  <2>3. QED
    BY <2>2
<1> HIDE DEF tokens, at, groups, msgs
<1>10. /\ \A i \in 1 .. N : i \in 1 .. N + 1 /\ i + 1 \in 1 .. N + 1
       /\ 1 \in 1 .. N + 1 /\ N + 1 \in 1 .. N + 1 /\ (N + 1) + 1 = N + 2
       /\ \A i \in 1 .. N + 1 : i = N + 1 \/ i \in 1 .. N
  BY <1>1
<1>11. ASSUME NEW i \in 1 .. N
       PROVE  /\ IsToken(tokens[i])
              /\ Holds(bytes, at[i], tokens[i].tag \o tokens[i].prefix \o tokens[i].body)
              /\ at[i + 1] = at[i] + Extent(tokens[i])
              /\ groups[i + 1] = DepthAfter(tokens[i], groups[i])
              /\ groups[i] = 0 => IsField(type, tokens[i])
              /\ msgs[i + 1] = Updated(type, msgs[i], groups[i], tokens[i])
  <2>1. /\ tokens[i] = doc.tokens[i] /\ at[i] = doc.at[i] /\ at[i + 1] = doc.at[i + 1]
        /\ groups[i] = doc.depth[i] /\ groups[i + 1] = doc.depth[i + 1]
        /\ msgs[i] = doc.msgs[i] /\ msgs[i + 1] = doc.msgs[i + 1]
    BY <1>5, <1>7, <1>10
  <2> DEFINE t == tokens[i].tag \o tokens[i].prefix \o tokens[i].body
             a == at[i]
  <2>2. Holds(doc.bytes, a, t) /\ IsToken(tokens[i]) /\ at[i + 1] = a + Extent(tokens[i])
    BY <1>1, <2>1
  <2>3. Len(t) = Extent(tokens[i]) /\ Len(t) \in Nat
    BY <2>2, TokenBytes
  <2>4. a \in Nat /\ a + Len(t) <= L
    <3>1. doc.at[i] \in 0 .. L /\ doc.at[i + 1] \in 0 .. L
      BY <1>1, <1>10
    <3>2. QED
      BY <1>3, <2>1, <2>2, <2>3, <3>1
  <2> HIDE DEF t, a
  <2>5. Holds(bytes, a, t)
    <3>1. SUFFICES ASSUME NEW k \in 1 .. Len(t) PROVE bytes[a + k] = t[k]
      BY DEF Holds
    <3>2. a + k \in 1 .. L
      BY <1>3, <2>3, <2>4
    <3>3. QED
      BY <1>4, <2>2, <3>2 DEF Holds
  <2>6. QED
    BY <1>1, <2>1, <2>2, <2>5 DEF t, a
<1>12. /\ IsToken(tokens[N + 1])
       /\ Holds(bytes, at[N + 1], tokens[N + 1].tag \o tokens[N + 1].prefix \o tokens[N + 1].body)
       /\ at[N + 2] = at[N + 1] + Extent(tokens[N + 1])
       /\ groups[N + 2] = DepthAfter(tokens[N + 1], groups[N + 1])
       /\ groups[N + 1] = 0 => IsField(type, tokens[N + 1])
       /\ msgs[N + 2] = Updated(type, msgs[N + 1], groups[N + 1], tokens[N + 1])
  <2>1. tokens[N + 1] = token /\ at[N + 1] = L /\ groups[N + 1] = 0
        /\ msgs[N + 1] = Meaning(doc)
    BY <1>1, <1>5, <1>7, <1>10 DEF Meaning, N
  <2>2. Holds(bytes, L, part)
    BY <1>2, <1>4 DEF Holds
  <2>3. DepthAfter(token, 0) = 0
    BY DEF DepthAfter, Varint, Delimited, StartGroup, EndGroup
  <2>4. QED
    BY <1>7, <2>1, <2>2, <2>3 DEF part, E
<1>13. IsDocument(type, new)
  <2>1. /\ new.bytes = bytes /\ new.tokens = tokens /\ new.at = at
        /\ new.depth = groups /\ new.msgs = msgs
    OBVIOUS
  <2> HIDE DEF new
  <2>2. /\ Len(new.tokens) = N + 1 /\ N + 1 \in Nat
        /\ new.bytes \in Seq(Bytes) /\ Len(new.bytes) = L + E /\ L + E <= MaxInt
        /\ new.at \in [1 .. N + 2 -> 0 .. L + E]
        /\ new.depth \in [1 .. N + 2 -> Nat]
        /\ new.at[1] = 0 /\ new.depth[1] = 0 /\ new.msgs[1] = NewMessage(type)
        /\ new.at[N + 2] = L + E /\ new.depth[N + 2] = 0
    <3>1. N + 1 \in Nat
      BY <1>1
    <3>2. at[1] = 0 /\ groups[1] = 0 /\ msgs[1] = NewMessage(type)
      BY <1>1, <1>7, <1>10
    <3>3. QED
      BY <1>3, <1>4, <1>6, <1>7, <1>8, <1>9, <2>1, <3>1, <3>2, Zenon
  <2>3. ASSUME NEW i \in 1 .. N + 1
        PROVE  /\ IsToken(new.tokens[i])
               /\ Holds(new.bytes, new.at[i],
                        new.tokens[i].tag \o new.tokens[i].prefix \o new.tokens[i].body)
               /\ new.at[i + 1] = new.at[i] + Extent(new.tokens[i])
               /\ new.depth[i + 1] = DepthAfter(new.tokens[i], new.depth[i])
               /\ new.depth[i] = 0 => IsField(type, new.tokens[i])
               /\ new.msgs[i + 1] = Updated(type, new.msgs[i], new.depth[i], new.tokens[i])
    <3>1. CASE i \in 1 .. N
      BY <1>11, <2>1, <3>1
    <3>2. CASE i = N + 1
      BY <1>10, <1>12, <2>1, <3>2
    <3>3. QED
      BY <1>10, <3>1, <3>2
  <2>4. (N + 1) + 1 = N + 2
    BY <1>10
  <2>5. QED
    BY <2>2, <2>3, <2>4 DEF IsDocument
<1>14. Meaning(new) = Updated(type, Meaning(doc), 0, token)
  <2>1. Meaning(new) = msgs[(N + 1) + 1]
    BY <1>6 DEF Meaning
  <2>2. QED
    BY <1>7, <1>10, <2>1
<1>15. new.bytes = doc.bytes \o (token.tag \o token.prefix \o token.body)
  BY DEF bytes, part
<1>16. QED
  BY <1>13, <1>14, <1>15

\* A varint of one byte.
LEMMA OneByteVarint ==
    ASSUME NEW t \in 0 .. 127
    PROVE  IsVarint(<<t>>) /\ VarintValue(<<t>>) = t
<1>1. t \in Bytes /\ <<t>> \in Seq(Bytes) /\ Len(<<t>>) = 1 /\ <<t>>[1] = t
  BY DEF Bytes
<1>2. 7 * (Len(<<t>>) - 1) < WordBits
  <2>1. WordBits # 0
    <3>1. SUFFICES ASSUME WordBits = 0 PROVE FALSE
      OBVIOUS
    <3>2. 2 * (MaxInt + 1) = 2^0
      BY <3>1, WordAssumption, Zenon
    <3>3. 2^0 = 1
      OBVIOUS
    <3>4. MaxInt \in Nat
      BY WordAssumption
    <3>5. QED
      BY ONLY <3>2, <3>3, <3>4
  <2>2. WordBits \in Nat /\ 7 * (1 - 1) = 0
    BY WordAssumption
  <2>3. QED
    BY <1>1, <2>1, <2>2
<1>3. \A n \in 1 .. Len(<<t>>) : <<t>>[n] < 128 <=> n = Len(<<t>>)
  <2>1. \A n \in 1 .. 1 : n = 1
    OBVIOUS
  <2>2. t < 128
    OBVIOUS
  <2>3. QED
    BY <1>1, <2>1, <2>2
<1>4. IsVarint(<<t>>)
  BY <1>1, <1>2, <1>3 DEF IsVarint
<1>5. VarintValue(<<t>>) = t
  <2> DEFINE s == <<t>>
             G == GroupSums(s)
  <2>1. G[0] = 0 /\ \A n \in 1 .. Len(s) : G[n] = G[n - 1] + (s[n] % 128) * 2^(7 * (n - 1))
    BY <1>1, GroupSumsStep
  <2>2. Len(s) = 1 /\ s[1] = t
    BY <1>1
  <2> HIDE DEF s, G
  <2>3. G[1] = G[1 - 1] + (s[1] % 128) * 2^(7 * (1 - 1))
    BY <2>1, <2>2
  <2>4. 2^(7 * (1 - 1)) = 1 /\ 1 - 1 = 0 /\ t % 128 = t
    OBVIOUS
  <2>5. G[1] = t
    BY ONLY <2>1, <2>2, <2>3, <2>4, t \in 0 .. 127
  <2>6. t % WordMod = t
    BY WordAssumption DEF WordMod
  <2>7. QED
    BY <2>2, <2>5, <2>6 DEF VarintValue, s, G
<1>6. QED
  BY <1>4, <1>5

\* The tags of the fields.
LEMMA SmallTag ==
    ASSUME NEW t \in {8, 10, 18, 26, 34}
    PROVE  /\ IsVarint(<<t>>) /\ VarintValue(<<t>>) = t
           /\ FieldNumber(t) = t \div 8 /\ WireType(t) = t % 8
<1>1. t \in 0 .. 127
  OBVIOUS
<1>2. FieldNumber(t) = t \div 8
  <2>1. (t \div 8) % FieldMod = t \div 8 /\ t \div 8 < FieldMod \div 2
    <3>1. t \div 8 \in 0 .. 7
      OBVIOUS
    <3>2. FieldMod \in Nat /\ FieldMod >= 16
      BY WordAssumption
    <3>3. \A x \in 0 .. 7 : x % FieldMod = x /\ x < FieldMod \div 2
      BY <3>2
    <3>4. QED
      BY <3>1, <3>3
  <2>2. QED
    BY <2>1 DEF FieldNumber
<1>3. WireType(t) = t % 8
  BY DEF WireType
<1>4. QED
  BY <1>1, <1>2, <1>3, OneByteVarint

\* tag is that of a field for strings; a value that is not beyond VarintBytes.
IsTag(type, tag, field) ==
    /\ tag \in {10, 18, 26, 34} /\ tag \div 8 \in DOMAIN Cases(type)
    /\ Cases(type)[tag \div 8].wire = Delimited /\ Cases(type)[tag \div 8].field = field
IsText(value) == value \in Seq(Bytes) /\ Len(value) < 2^28
StringRead(m, field, value) == IF value = << >> THEN m ELSE [m EXCEPT ![field] = value]

\* A string behind a document: read as the field it was written for.
LEMMA StringBehind ==
    ASSUME NEW type \in Types, NEW doc, IsDocument(type, doc),
           NEW tag, NEW field, IsTag(type, tag, field), NEW value, IsText(value),
           Len(doc.bytes) + Len(StringBytes(tag, value)) <= MaxInt
    PROVE  \E new :
              /\ IsDocument(type, new)
              /\ new.bytes = doc.bytes \o StringBytes(tag, value)
              /\ Meaning(new) = StringRead(Meaning(doc), field, value)
<1>0. /\ tag \in {10, 18, 26, 34} /\ tag \div 8 \in DOMAIN Cases(type)
      /\ Cases(type)[tag \div 8].wire = Delimited /\ Cases(type)[tag \div 8].field = field
      /\ value \in Seq(Bytes) /\ Len(value) < 2^28
  BY DEF IsTag, IsText
<1>1. doc.bytes \in Seq(Bytes) /\ Len(doc.bytes) \in Nat
  BY DEF IsDocument
<1>2. CASE value = << >>
  <2>1. StringBytes(tag, value) = << >> /\ doc.bytes \o << >> = doc.bytes
    BY <1>1, <1>2, Concat DEF StringBytes
  <2>2. QED
    BY <1>2, <2>1 DEF StringRead
<1>3. CASE value # << >>
  <2> DEFINE L == Len(value)
             V == VarintBytes(L)
             token == [tag |-> <<tag>>, prefix |-> V, body |-> value]
             n == tag \div 8
  <2>1. tag \in Bytes /\ <<tag>> \in Seq(Bytes)
    BY <1>0 DEF Bytes
  <2>2. L \in Nat /\ L <= MaxInt
    <3>1. /\ Len(StringBytes(tag, value)) = StringSize(value) /\ StringSize(value) \in Nat
          /\ L \in Nat /\ L <= StringSize(value)
      BY <1>0, <2>1, StringBytesSize
    <3>2. QED
      BY <1>0, <1>1, <3>1, SmallInts
  <2>3. V \in Seq(Bytes) /\ IsVarint(V) /\ VarintValue(V) = L
    BY <1>0, <2>2, VarintRoundTrip
  <2>4. TagOf(token) = tag /\ Prefix(token) = L
    BY <1>0, <2>3, SmallTag DEF TagOf, Prefix
  <2>5. WireType(TagOf(token)) = Delimited /\ Number(token) = n
    BY <1>0, <2>4, SmallTag DEF Number, Delimited
  <2>6. IsToken(token)
    <3>1. ToInt(L) = L
      BY <1>0, <2>2, SmallInts DEF ToInt
    <3>2. QED
      BY <1>0, <2>3, <2>4, <2>5, <3>1, SmallTag DEF IsToken
  <2>7. IsKnown(type, token) /\ CaseOf(type, token) = Cases(type)[n]
    BY <1>0, <2>5 DEF IsKnown, CaseOf
  <2>8. IsField(type, token)
    <3>1. n > 0
      BY <1>0
    <3>2. QED
      BY <1>0, <2>5, <2>7, <3>1 DEF IsField
  <2>9. StringBytes(tag, value) = token.tag \o token.prefix \o token.body
    <3>1. StringBytes(tag, value) = <<tag>> \o (V \o value)
      BY <1>3 DEF StringBytes
    <3>2. (<<tag>> \o V) \o value = <<tag>> \o (V \o value)
      BY <1>0, <2>1, <2>3, ConcatAssociates, Zenon
    <3>3. QED
      BY <3>1, <3>2
  <2>10. Len(doc.bytes) + Extent(token) <= MaxInt
    BY <2>6, <2>9, TokenBytes
  <2>11. ValueOf(type, token) = value
    BY <1>0, <2>7 DEF ValueOf, Varint, Delimited
  <2>12. Updated(type, Meaning(doc), 0, token)
           = [Meaning(doc) EXCEPT ![field] = value]
    BY <1>0, <2>7, <2>11 DEF Updated
  <2> HIDE DEF token, V, n
  <2>13. PICK new :
              /\ IsDocument(type, new)
              /\ new.bytes = doc.bytes \o (token.tag \o token.prefix \o token.body)
              /\ Meaning(new) = Updated(type, Meaning(doc), 0, token)
    BY <2>5, <2>6, <2>8, <2>10, AnotherField
  <2>14. QED
    BY <1>3, <2>9, <2>12, <2>13 DEF StringRead
<1>4. QED
  BY <1>2, <1>3

\* A bool behind a document, written when it is true.
LEMMA BoolBehind ==
    ASSUME NEW doc, IsDocument("QueryVerificationStatusResponse", doc),
           NEW value \in BOOLEAN, Len(doc.bytes) + Len(BoolBytes(8, value)) <= MaxInt
    PROVE  \E new :
              /\ IsDocument("QueryVerificationStatusResponse", new)
              /\ new.bytes = doc.bytes \o BoolBytes(8, value)
              /\ Meaning(new) = IF value THEN [Meaning(doc) EXCEPT !["verified"] = TRUE]
                                ELSE Meaning(doc)
<1> DEFINE type == "QueryVerificationStatusResponse"
<1>1. doc.bytes \in Seq(Bytes) /\ Len(doc.bytes) \in Nat
  BY DEF IsDocument
<1>2. CASE ~value
  <2>1. BoolBytes(8, value) = << >> /\ doc.bytes \o << >> = doc.bytes
    BY <1>1, <1>2, Concat DEF BoolBytes
  <2>2. QED
    BY <1>2, <2>1
<1>3. CASE value
  <2> DEFINE token == [tag |-> <<8>>, prefix |-> <<1>>, body |-> << >>]
  <2>1. IsVarint(<<1>>) /\ VarintValue(<<1>>) = 1
    BY OneByteVarint
  <2>2. TagOf(token) = 8 /\ Prefix(token) = 1
    BY <2>1, SmallTag DEF TagOf, Prefix
  <2>3. WireType(TagOf(token)) = Varint /\ Number(token) = 1
    BY <2>2, SmallTag DEF Number, Varint
  <2>4. IsToken(token)
    BY <2>1, <2>3, SmallTag DEF IsToken, IsVarint
  <2>5. /\ IsKnown(type, token)
        /\ CaseOf(type, token) = [field |-> "verified", wire |-> Varint]
    BY <2>3 DEF IsKnown, CaseOf, Cases, StatusResponseCases
  <2>6. IsField(type, token)
    BY <2>3, <2>5 DEF IsField
  <2>7. BoolBytes(8, value) = token.tag \o token.prefix \o token.body
    <3>1. <<8>> \o <<1>> \in Seq(Bytes)
      BY DEF Bytes
    <3>2. (<<8>> \o <<1>>) \o << >> = <<8>> \o <<1>>
      BY <3>1, Concat, Zenon
    <3>3. QED
      BY <1>3, <3>2 DEF BoolBytes
  <2>8. Len(doc.bytes) + Extent(token) <= MaxInt
    BY <2>4, <2>7, TokenBytes
  <2>9. ValueOf(type, token) = TRUE
    BY <2>2, <2>5 DEF ValueOf
  <2>10. Updated(type, Meaning(doc), 0, token) = [Meaning(doc) EXCEPT !["verified"] = TRUE]
    <3>1. CaseOf(type, token).field = "verified"
      BY <2>5
    <3>2. Updated(type, Meaning(doc), 0, token)
            = [Meaning(doc) EXCEPT ![CaseOf(type, token).field] = ValueOf(type, token)]
      BY <2>5, Zenon DEF Updated
    <3>3. QED
      BY <2>9, <3>1, <3>2, Zenon
  <2> HIDE DEF token
  <2>11. PICK new :
              /\ IsDocument(type, new)
              /\ new.bytes = doc.bytes \o (token.tag \o token.prefix \o token.body)
              /\ Meaning(new) = Updated(type, Meaning(doc), 0, token)
    BY <2>3, <2>4, <2>6, <2>8, AnotherField
  <2>12. QED
    BY <1>3, <2>7, <2>10, <2>11
<1>4. QED
  BY <1>2, <1>3

\* No bytes are a document, with no field set.
LEMMA EmptyDocument ==
    ASSUME NEW type
    PROVE  \E new : IsDocument(type, new) /\ new.bytes = << >> /\ Meaning(new) = NewMessage(type)
<1> DEFINE new == [bytes |-> << >>, tokens |-> << >>, at |-> [i \in 1 .. 1 |-> 0],
                   depth |-> [i \in 1 .. 1 |-> 0], msgs |-> [i \in 1 .. 1 |-> NewMessage(type)]]
<1>1. /\ new.bytes = << >> /\ new.tokens = << >>
      /\ new.at \in [1 .. 1 -> 0 .. 0] /\ new.at[1] = 0
      /\ new.depth \in [1 .. 1 -> Nat] /\ new.depth[1] = 0
      /\ new.msgs[1] = NewMessage(type)
  <2> HIDE DEF NewMessage
  <2>1. 1 \in 1 .. 1 /\ 0 \in 0 .. 0 /\ 0 \in Nat
    OBVIOUS
  <2>2. QED
    BY <2>1
<1> HIDE DEF new
<1>2. Len(new.tokens) = 0 /\ Len(new.bytes) = 0 /\ new.bytes \in Seq(Bytes) /\ 0 + 1 = 1
  BY <1>1
<1>3. 0 <= MaxInt /\ 0 \in Nat
  BY SmallInts
<1>4. \A i \in 1 .. 0 : FALSE
  OBVIOUS
<1>5. IsDocument(type, new)
  BY <1>1, <1>2, <1>3, <1>4 DEF IsDocument
<1>6. Meaning(new) = NewMessage(type)
  BY <1>1, <1>2 DEF Meaning
<1>7. QED
  BY <1>1, <1>5, <1>6

\* A field that is not written when it is empty still gets its value.
LEMMA EmptyStaysEmpty ==
    ASSUME NEW S, NEW old, old = [x \in S |-> old[x]], NEW f \in S, NEW value,
           NEW none, old[f] = none,
           NEW new, new = IF value = none THEN old ELSE [old EXCEPT ![f] = value]
    PROVE  new = [x \in S |-> IF x = f THEN value ELSE old[x]]
<1>1. CASE value = none
  <2>1. \A x \in S : old[x] = IF x = f THEN value ELSE old[x]
    BY <1>1
  <2>2. QED
    BY <1>1, <2>1
<1>2. CASE value # none
  <2>1. new = [old EXCEPT ![f] = value] /\ DOMAIN old = S
    BY <1>2
  <2>2. [old EXCEPT ![f] = value] = [x \in S |-> IF x = f THEN value ELSE old[x]]
    BY <2>1
  <2>3. QED
    BY <2>1, <2>2
<1>3. QED
  BY <1>1, <1>2

\* The fields of the messages.
LEMMA TypeFields ==
    /\ Fields("MsgSubmitAgeProof") = {"creator", "proof", "public_witness", "current_date"}
    /\ Fields("MsgSubmitAgeProofResponse") = {}
    /\ Fields("QueryVerificationStatusRequest") = {"address"}
    /\ Fields("QueryVerificationStatusResponse") = {"verified", "verified_at"}
<1>1. Fields("MsgSubmitAgeProof") = {"creator", "proof", "public_witness", "current_date"}
  <2>1. /\ Len(SubmitAgeProofCases) = 4
        /\ SubmitAgeProofCases[1].field = "creator"
        /\ SubmitAgeProofCases[2].field = "proof"
        /\ SubmitAgeProofCases[3].field = "public_witness"
        /\ SubmitAgeProofCases[4].field = "current_date"
    BY DEF SubmitAgeProofCases
  <2>2. \A n : n \in 1 .. 4 <=> n \in {1, 2, 3, 4}
    OBVIOUS
  <2>3. QED
    BY <2>1, <2>2 DEF Fields, Cases
<1>2. Fields("MsgSubmitAgeProofResponse") = {}
  BY DEF Fields, Cases, SubmitAgeProofResponseCases
<1>3. Fields("QueryVerificationStatusRequest") = {"address"}
  BY DEF Fields, Cases, StatusRequestCases
<1>4. Fields("QueryVerificationStatusResponse") = {"verified", "verified_at"}
  <2>1. /\ Len(StatusResponseCases) = 2
        /\ StatusResponseCases[1].field = "verified"
        /\ StatusResponseCases[2].field = "verified_at"
    BY DEF StatusResponseCases
  <2>2. \A n : n \in 1 .. 2 <=> n \in {1, 2}
    OBVIOUS
  <2>3. QED
    BY <2>1, <2>2 DEF Fields, Cases
<1>5. QED
  BY <1>1, <1>2, <1>3, <1>4

\* The cases that a message's tags are of.
LEMMA TagCases ==
    /\ \A k \in {1, 2, 3, 4} : k \in DOMAIN Cases("MsgSubmitAgeProof")
                                 /\ Cases("MsgSubmitAgeProof")[k].wire = Delimited
    /\ Cases("MsgSubmitAgeProof")[1].field = "creator"
    /\ Cases("MsgSubmitAgeProof")[2].field = "proof"
    /\ Cases("MsgSubmitAgeProof")[3].field = "public_witness"
    /\ Cases("MsgSubmitAgeProof")[4].field = "current_date"
    /\ 1 \in DOMAIN Cases("QueryVerificationStatusRequest")
    /\ Cases("QueryVerificationStatusRequest")[1]
          = [field |-> "address", wire |-> Delimited]
    /\ 2 \in DOMAIN Cases("QueryVerificationStatusResponse")
    /\ Cases("QueryVerificationStatusResponse")[2]
          = [field |-> "verified_at", wire |-> Delimited]
    /\ 10 \div 8 = 1 /\ 18 \div 8 = 2 /\ 26 \div 8 = 3 /\ 34 \div 8 = 4
  BY DEF Cases, SubmitAgeProofCases, StatusRequestCases, StatusResponseCases

-----------------------------------------------------------------------------
\* m has the fields S, and field is empty.
Lacks(S, m, field) == field \in S /\ m = [x \in S |-> m[x]] /\ m[field] = << >>
Given(S, m, field, value) == [x \in S |-> IF x = field THEN value ELSE m[x]]

\* A string of a message behind a document, written or empty.
LEMMA StringIsField ==
    ASSUME NEW type \in Types, NEW doc, IsDocument(type, doc),
           NEW S, NEW field, Lacks(S, Meaning(doc), field),
           NEW tag, IsTag(type, tag, field), NEW value, IsText(value),
           Len(doc.bytes) + Len(StringBytes(tag, value)) <= MaxInt
    PROVE  \E new :
              /\ IsDocument(type, new)
              /\ new.bytes = doc.bytes \o StringBytes(tag, value)
              /\ Meaning(new) = Given(S, Meaning(doc), field, value)
<1>1. PICK new :
         /\ IsDocument(type, new)
         /\ new.bytes = doc.bytes \o StringBytes(tag, value)
         /\ Meaning(new) = StringRead(Meaning(doc), field, value)
  BY ONLY StringBehind, type \in Types, IsDocument(type, doc), IsTag(type, tag, field),
          IsText(value), Len(doc.bytes) + Len(StringBytes(tag, value)) <= MaxInt
<1> DEFINE M0 == Meaning(doc)
           M1 == Meaning(new)
           none == << >>
<1>2. field \in S /\ M0 = [x \in S |-> M0[x]] /\ M0[field] = none
  BY DEF Lacks
<1>3. M1 = IF value = none THEN M0 ELSE [M0 EXCEPT ![field] = value]
  BY <1>1 DEF StringRead
<1> HIDE DEF M0, M1, none
<1>4. M1 = [x \in S |-> IF x = field THEN value ELSE M0[x]]
  BY <1>2, <1>3, EmptyStaysEmpty
<1>5. QED
  BY <1>1, <1>4 DEF M0, M1, Given

\* The bytes of a message are a document with its meaning.
LEMMA RequestIsDocument ==
    ASSUME NEW m, IsMessage("QueryVerificationStatusRequest", m),
           Len(MessageBytes("QueryVerificationStatusRequest", m)) <= MaxInt
    PROVE  \E doc : /\ IsDocument("QueryVerificationStatusRequest", doc)
                    /\ doc.bytes = MessageBytes("QueryVerificationStatusRequest", m)
                    /\ Meaning(doc) = m
<1>1. PICK type, S, tag, field, value, A, none :
         /\ type = "QueryVerificationStatusRequest" /\ S = {"address"}
         /\ tag = 10 /\ field = "address" /\ value = m["address"]
         /\ A = StringBytes(tag, value) /\ none = << >>
  OBVIOUS
<1>2. m = [x \in S |-> m[x]] /\ IsText(value)
  BY <1>1, TypeFields DEF IsMessage, IsText
<1>3. MessageBytes(type, m) = A
  BY <1>1 DEF MessageBytes
<1>4. PICK doc0 : IsDocument(type, doc0) /\ doc0.bytes = none /\ Meaning(doc0) = NewMessage(type)
  BY <1>1, EmptyDocument
<1>5. A \in Seq(Bytes) /\ none \o A = A /\ Len(none) + Len(A) = Len(A)
  <2>1. A \in Seq(Bytes)
    BY <1>1, <1>2, 10 \in Bytes, StringBytesSize DEF IsText, Bytes
  <2>2. QED
    BY <1>1, <2>1, Concat
<1>6. type \in Types /\ IsTag(type, tag, field)
  BY <1>1, TagCases DEF Types, IsTag
<1>7. Len(doc0.bytes) + Len(StringBytes(tag, value)) <= MaxInt
  BY <1>1, <1>3, <1>4, <1>5
<1>8. Lacks(S, Meaning(doc0), field)
  <2>1. NewMessage(type) = [x \in S |-> none]
    BY <1>1, TypeFields DEF NewMessage
  <2>2. QED
    BY <1>1, <1>4, <2>1 DEF Lacks
<1>9. PICK doc1 :
         /\ IsDocument(type, doc1)
         /\ doc1.bytes = doc0.bytes \o StringBytes(tag, value)
         /\ Meaning(doc1) = Given(S, Meaning(doc0), field, value)
  <2>1. IsDocument(type, doc0) /\ IsText(value)
    BY <1>2, <1>4
  <2>2. QED
    BY ONLY StringIsField, <1>6, <1>7, <1>8, <2>1
<1>10. Meaning(doc1) = m
  <2>1. Meaning(doc1) = [x \in S |-> IF x = field THEN value ELSE Meaning(doc0)[x]]
    BY <1>9 DEF Given
  <2>2. \A x \in S : x = field
    BY <1>1
  <2>3. \A x \in S : m[x] = IF x = field THEN value ELSE Meaning(doc0)[x]
    BY <1>1, <2>2
  <2>4. QED
    BY <1>2, <2>1, <2>3
<1>11. doc1.bytes = A
  BY <1>1, <1>4, <1>5, <1>9
<1>12. QED
  BY <1>1, <1>3, <1>9, <1>10, <1>11

\* A field that has got its value leaves the others empty.
LEMMA OthersStayEmpty ==
    ASSUME NEW S, NEW m, NEW field, Lacks(S, m, field),
           NEW other, other # field, Lacks(S, m, other), NEW value
    PROVE  Lacks(S, Given(S, m, field, value), other)
<1> DEFINE new == Given(S, m, field, value)
<1>1. new = [x \in S |-> IF x = field THEN value ELSE m[x]]
  BY DEF Given
<1> HIDE DEF new
<1>2. \A x \in S : new[x] = IF x = field THEN value ELSE m[x]
  BY <1>1
<1>3. new = [x \in S |-> new[x]]
  BY <1>1
<1>4. other \in S /\ new[other] = << >>
  BY <1>2 DEF Lacks
<1>5. QED
  BY <1>3, <1>4 DEF Lacks, new

\* Four parts in a row, and the lengths of their beginnings.
LEMMA FourParts ==
    ASSUME NEW a \in Seq(Bytes), NEW b \in Seq(Bytes), NEW c \in Seq(Bytes), NEW d \in Seq(Bytes)
    PROVE  /\ a \o b \in Seq(Bytes) /\ (a \o b) \o c \in Seq(Bytes)
           /\ Len(a) <= Len(((a \o b) \o c) \o d)
           /\ Len(a) + Len(b) <= Len(((a \o b) \o c) \o d)
           /\ Len(a \o b) + Len(c) <= Len(((a \o b) \o c) \o d)
           /\ Len((a \o b) \o c) + Len(d) = Len(((a \o b) \o c) \o d)
<1>1. PICK p, q, r : p = a \o b /\ q = p \o c /\ r = q \o d
  OBVIOUS
<1>2. p \in Seq(Bytes) /\ Len(p) = Len(a) + Len(b) /\ Len(a) \in Nat /\ Len(b) \in Nat
  BY <1>1, Concat
<1>3. q \in Seq(Bytes) /\ Len(q) = Len(p) + Len(c) /\ Len(p) \in Nat /\ Len(c) \in Nat
  BY <1>1, <1>2, Concat
<1>4. r \in Seq(Bytes) /\ Len(r) = Len(q) + Len(d) /\ Len(q) \in Nat /\ Len(d) \in Nat
  BY <1>1, <1>3, Concat
<1>5. /\ Len(a) <= Len(r) /\ Len(a) + Len(b) <= Len(r)
      /\ Len(p) + Len(c) <= Len(r) /\ Len(q) + Len(d) = Len(r)
  BY ONLY <1>2, <1>3, <1>4
<1>6. QED
  BY <1>1, <1>2, <1>3, <1>5, Zenon

LEMMA SubmitIsDocument ==
    ASSUME NEW m, IsMessage("MsgSubmitAgeProof", m),
           Len(MessageBytes("MsgSubmitAgeProof", m)) <= MaxInt
    PROVE  \E doc : /\ IsDocument("MsgSubmitAgeProof", doc)
                    /\ doc.bytes = MessageBytes("MsgSubmitAgeProof", m)
                    /\ Meaning(doc) = m
<1>1a. PICK type, none, f1, f2, f3, f4 :
          /\ type = "MsgSubmitAgeProof" /\ none = << >>
          /\ f1 = "creator" /\ f2 = "proof" /\ f3 = "public_witness" /\ f4 = "current_date"
  OBVIOUS
<1>1b. PICK S, t1, t2, t3, t4 :
          S = {f1, f2, f3, f4} /\ t1 = 10 /\ t2 = 18 /\ t3 = 26 /\ t4 = 34
  OBVIOUS
<1>1c. PICK v1, v2, v3, v4 : v1 = m[f1] /\ v2 = m[f2] /\ v3 = m[f3] /\ v4 = m[f4]
  OBVIOUS
<1>1d. PICK A, B, C, D : /\ A = StringBytes(t1, v1) /\ B = StringBytes(t2, v2)
                         /\ C = StringBytes(t3, v3) /\ D = StringBytes(t4, v4)
  OBVIOUS
<1>1. /\ type = "MsgSubmitAgeProof" /\ S = {f1, f2, f3, f4} /\ none = << >>
      /\ f1 = "creator" /\ f2 = "proof" /\ f3 = "public_witness" /\ f4 = "current_date"
      /\ t1 = 10 /\ t2 = 18 /\ t3 = 26 /\ t4 = 34
      /\ v1 = m[f1] /\ v2 = m[f2] /\ v3 = m[f3] /\ v4 = m[f4]
      /\ A = StringBytes(t1, v1) /\ B = StringBytes(t2, v2)
      /\ C = StringBytes(t3, v3) /\ D = StringBytes(t4, v4)
  BY <1>1a, <1>1b, <1>1c, <1>1d
<1>2. Fields(type) = S
  BY <1>1, TypeFields
<1>3. /\ m = [x \in S |-> m[x]]
      /\ IsText(v1) /\ IsText(v2) /\ IsText(v3) /\ IsText(v4)
  <2>1. \A x \in S : x # "verified"
    BY <1>1
  <2>2. m = [x \in S |-> m[x]] /\ \A x \in S : m[x] \in Seq(Bytes) /\ Len(m[x]) < 2^28
    BY <1>1, <1>2, <2>1 DEF IsMessage
  <2>3. \A x \in S : IsText(m[x])
    BY <2>2 DEF IsText
  <2>4. QED
    BY <1>1, <2>2, <2>3
<1>5. A \in Seq(Bytes) /\ B \in Seq(Bytes) /\ C \in Seq(Bytes) /\ D \in Seq(Bytes)
  <2>1. t1 \in Bytes /\ t2 \in Bytes /\ t3 \in Bytes /\ t4 \in Bytes
    BY <1>1 DEF Bytes
  <2>2. ASSUME NEW t \in Bytes, NEW v, IsText(v)
        PROVE  StringBytes(t, v) \in Seq(Bytes)
    BY <2>2, StringBytesSize DEF IsText
  <2>3. QED
    BY <1>1, <1>3, <2>1, <2>2
<1>4. MessageBytes(type, m) = ((A \o B) \o C) \o D
  <2>1. PICK p, q, u, w : p = A \o B /\ q = p \o C /\ u = C \o D /\ w = B \o u
    OBVIOUS
  <2>2. MessageBytes(type, m) = A \o w
    BY <1>1, <2>1 DEF MessageBytes
  <2>3. q \o D = A \o w
    <3>1. p \in Seq(Bytes) /\ u \in Seq(Bytes)
      BY <1>5, <2>1, Concat
    <3>2. (p \o C) \o D = p \o (C \o D)
      BY ONLY <1>5, <3>1, SMTT(30)
    <3>3. (A \o B) \o u = A \o (B \o u)
      BY ONLY <1>5, <3>1
    <3>4. QED
      BY <2>1, <3>2, <3>3, Zenon
  <2>4. QED
    BY <2>1, <2>2, <2>3, Zenon
<1>6. type \in Types
  BY <1>1 DEF Types
<1>7. IsTag(type, t1, f1) /\ IsTag(type, t2, f2) /\ IsTag(type, t3, f3) /\ IsTag(type, t4, f4)
  BY <1>1, TagCases DEF IsTag
<1>8. /\ Len(none) + Len(A) <= MaxInt /\ Len(A) + Len(B) <= MaxInt
      /\ Len(A \o B) + Len(C) <= MaxInt
      /\ Len((A \o B) \o C) + Len(D) <= MaxInt
      /\ none \o A = A
  <2>1. PICK all : all = ((A \o B) \o C) \o D
    OBVIOUS
  <2>2. Len(all) <= MaxInt
    <3>1. all = MessageBytes(type, m)
      BY <1>4, <1>5, <2>1, Zenon
    <3>2. QED
      BY <1>1, <3>1, Zenon
  <2>3. /\ Len(A) <= Len(all) /\ Len(A) + Len(B) <= Len(all)
        /\ Len(A \o B) + Len(C) <= Len(all) /\ Len((A \o B) \o C) + Len(D) = Len(all)
        /\ A \o B \in Seq(Bytes) /\ (A \o B) \o C \in Seq(Bytes)
    BY <1>5, <2>1, FourParts
  <2>4. PICK p, q : p = A \o B /\ q = p \o C
    OBVIOUS
  <2>5. /\ Len(A) \in Nat /\ Len(B) \in Nat /\ Len(C) \in Nat /\ Len(D) \in Nat
        /\ Len(p) \in Nat /\ Len(q) \in Nat
    BY <1>5, <2>3, <2>4
  <2>6. Len(all) \in Nat
    BY <2>3, <2>4, <2>5
  <2>7. Len(none) = 0 /\ none \o A = A
    BY <1>1, <1>5, Concat
  <2>8. /\ Len(A) <= MaxInt /\ Len(A) + Len(B) <= MaxInt
        /\ Len(p) + Len(C) <= MaxInt /\ Len(q) + Len(D) <= MaxInt
        /\ 0 + Len(A) = Len(A)
    <3>1. /\ Len(A) <= Len(all) /\ Len(A) + Len(B) <= Len(all)
          /\ Len(p) + Len(C) <= Len(all) /\ Len(q) + Len(D) = Len(all)
      BY <2>3, <2>4
    <3>2. MaxInt \in Nat
      BY WordAssumption
    <3>3. QED
      BY ONLY <2>2, <2>5, <2>6, <3>1, <3>2
  <2>9. QED
    BY <2>4, <2>7, <2>8, Zenon
<1>9. PICK doc0 : IsDocument(type, doc0) /\ doc0.bytes = none /\ Meaning(doc0) = NewMessage(type)
  BY <1>1, EmptyDocument
<1>10. PICK m0 : m0 = Meaning(doc0)
  OBVIOUS
<1>11. Lacks(S, m0, f1) /\ Lacks(S, m0, f2) /\ Lacks(S, m0, f3) /\ Lacks(S, m0, f4)
  <2>1. NewMessage(type) = [x \in S |-> IF x = "verified" THEN FALSE ELSE none]
    BY <1>1, <1>2 DEF NewMessage
  <2>2. \A x \in S : x # "verified"
    BY <1>1
  <2>3. m0 = [x \in S |-> none]
    BY <1>9, <1>10, <2>1, <2>2
  <2>4. m0 = [x \in S |-> m0[x]] /\ \A x \in S : m0[x] = << >>
    BY <1>1, <2>3
  <2>5. \A x \in S : Lacks(S, m0, x)
    BY <2>4 DEF Lacks
  <2>6. QED
    BY <1>1, <2>5
<1>12. PICK doc1 : /\ IsDocument(type, doc1) /\ doc1.bytes = doc0.bytes \o A
                   /\ Meaning(doc1) = Given(S, m0, f1, v1)
  <2>1. /\ IsDocument(type, doc0) /\ IsText(v1) /\ IsTag(type, t1, f1)
        /\ Lacks(S, Meaning(doc0), f1) /\ Len(doc0.bytes) + Len(StringBytes(t1, v1)) <= MaxInt
    BY <1>1, <1>3, <1>7, <1>8, <1>9, <1>10, <1>11, Zenon
  <2>2. \E doc1 : /\ IsDocument(type, doc1) /\ doc1.bytes = doc0.bytes \o StringBytes(t1, v1)
                  /\ Meaning(doc1) = Given(S, Meaning(doc0), f1, v1)
    BY ONLY StringIsField, <1>6, <2>1
  <2>3. QED
    BY <1>1, <1>10, <2>2
<1>13. PICK m1 : m1 = Given(S, m0, f1, v1)
  OBVIOUS
<1>14. Lacks(S, m1, f2) /\ Lacks(S, m1, f3) /\ Lacks(S, m1, f4)
  BY <1>1, <1>11, <1>13, OthersStayEmpty
<1>15. PICK doc2 : /\ IsDocument(type, doc2) /\ doc2.bytes = doc1.bytes \o B
                   /\ Meaning(doc2) = Given(S, m1, f2, v2)
  <2>1. /\ IsDocument(type, doc1) /\ IsText(v2) /\ IsTag(type, t2, f2)
        /\ Lacks(S, Meaning(doc1), f2) /\ Len(doc1.bytes) + Len(StringBytes(t2, v2)) <= MaxInt
    <3>1. Lacks(S, Meaning(doc1), f2)
      BY <1>12, <1>13, <1>14, Zenon
    <3>2. doc1.bytes = A
      BY <1>8, <1>9, <1>12, Zenon
    <3>3. Len(doc1.bytes) + Len(StringBytes(t2, v2)) <= MaxInt
      BY <1>1, <1>8, <3>2, Zenon
    <3>4. QED
      BY <1>3, <1>7, <1>12, <3>1, <3>3, Zenon
  <2>2. \E doc2 : /\ IsDocument(type, doc2) /\ doc2.bytes = doc1.bytes \o StringBytes(t2, v2)
                  /\ Meaning(doc2) = Given(S, Meaning(doc1), f2, v2)
    BY ONLY StringIsField, <1>6, <2>1
  <2>3. QED
    BY <1>1, <1>12, <1>13, <2>2
<1>16. PICK m2 : m2 = Given(S, m1, f2, v2)
  OBVIOUS
<1>17. Lacks(S, m2, f3) /\ Lacks(S, m2, f4)
  BY <1>1, <1>14, <1>16, OthersStayEmpty
<1>18. PICK doc3 : /\ IsDocument(type, doc3) /\ doc3.bytes = doc2.bytes \o C
                   /\ Meaning(doc3) = Given(S, m2, f3, v3)
  <2>1. /\ IsDocument(type, doc2) /\ IsText(v3) /\ IsTag(type, t3, f3)
        /\ Lacks(S, Meaning(doc2), f3) /\ Len(doc2.bytes) + Len(StringBytes(t3, v3)) <= MaxInt
    <3>1. Lacks(S, Meaning(doc2), f3)
      BY <1>15, <1>16, <1>17, Zenon
    <3>2. doc2.bytes = A \o B
      BY <1>8, <1>9, <1>12, <1>15, Zenon
    <3>3. Len(doc2.bytes) + Len(StringBytes(t3, v3)) <= MaxInt
      BY <1>1, <1>8, <3>2, Zenon
    <3>4. QED
      BY <1>3, <1>7, <1>15, <3>1, <3>3, Zenon
  <2>2. \E doc3 : /\ IsDocument(type, doc3) /\ doc3.bytes = doc2.bytes \o StringBytes(t3, v3)
                  /\ Meaning(doc3) = Given(S, Meaning(doc2), f3, v3)
    BY ONLY StringIsField, <1>6, <2>1
  <2>3. QED
    BY <1>1, <1>15, <1>16, <2>2
<1>19. PICK m3 : m3 = Given(S, m2, f3, v3)
  OBVIOUS
<1>20. Lacks(S, m3, f4)
  BY <1>1, <1>17, <1>19, OthersStayEmpty
<1>21. PICK doc4 : /\ IsDocument(type, doc4) /\ doc4.bytes = doc3.bytes \o D
                   /\ Meaning(doc4) = Given(S, m3, f4, v4)
  <2>1. /\ IsDocument(type, doc3) /\ IsText(v4) /\ IsTag(type, t4, f4)
        /\ Lacks(S, Meaning(doc3), f4) /\ Len(doc3.bytes) + Len(StringBytes(t4, v4)) <= MaxInt
    <3>1. Lacks(S, Meaning(doc3), f4)
      BY <1>18, <1>19, <1>20, Zenon
    <3>2. doc3.bytes = (A \o B) \o C
      BY <1>8, <1>9, <1>12, <1>15, <1>18, Zenon
    <3>3. Len(doc3.bytes) + Len(StringBytes(t4, v4)) <= MaxInt
      BY <1>1, <1>8, <3>2, Zenon
    <3>4. QED
      BY <1>3, <1>7, <1>18, <3>1, <3>3, Zenon
  <2>2. \E doc4 : /\ IsDocument(type, doc4) /\ doc4.bytes = doc3.bytes \o StringBytes(t4, v4)
                  /\ Meaning(doc4) = Given(S, Meaning(doc3), f4, v4)
    BY ONLY StringIsField, <1>6, <2>1
  <2>3. QED
    BY <1>1, <1>18, <1>19, <2>2
<1>22. doc4.bytes = MessageBytes(type, m)
  <2>1. doc4.bytes = ((A \o B) \o C) \o D
    BY <1>8, <1>9, <1>12, <1>15, <1>18, <1>21, Zenon
  <2>2. QED
    BY <1>4, <2>1, Zenon
<1>23. Meaning(doc4) = m
  <2>1. /\ \A x \in S : m1[x] = IF x = f1 THEN v1 ELSE m0[x]
        /\ \A x \in S : m2[x] = IF x = f2 THEN v2 ELSE m1[x]
        /\ \A x \in S : m3[x] = IF x = f3 THEN v3 ELSE m2[x]
        /\ Meaning(doc4) = [x \in S |-> IF x = f4 THEN v4 ELSE m3[x]]
    BY <1>13, <1>16, <1>19, <1>21 DEF Given
  <2>2. f1 \in S /\ f2 \in S /\ f3 \in S /\ f4 \in S
    BY <1>1
  <2>3. /\ f1 # f2 /\ f1 # f3 /\ f1 # f4 /\ f2 # f3 /\ f2 # f4 /\ f3 # f4
        /\ \A x \in S : x = f1 \/ x = f2 \/ x = f3 \/ x = f4
        /\ v1 = m[f1] /\ v2 = m[f2] /\ v3 = m[f3] /\ v4 = m[f4]
    BY <1>1
  <2>4. \A x \in S : m[x] = IF x = f4 THEN v4 ELSE m3[x]
    BY ONLY <2>1, <2>2, <2>3
  <2>5. [x \in S |-> m[x]] = [x \in S |-> IF x = f4 THEN v4 ELSE m3[x]]
    BY <2>4
  <2>6. QED
    BY <1>3, <2>1, <2>5
<1>24. QED
  BY <1>1, <1>21, <1>22, <1>23

LEMMA ResponseIsDocument ==
    ASSUME NEW m, IsMessage("QueryVerificationStatusResponse", m),
           Len(MessageBytes("QueryVerificationStatusResponse", m)) <= MaxInt
    PROVE  \E doc : /\ IsDocument("QueryVerificationStatusResponse", doc)
                    /\ doc.bytes = MessageBytes("QueryVerificationStatusResponse", m)
                    /\ Meaning(doc) = m
<1>1. PICK type, S, none, f1, f2 :
         /\ type = "QueryVerificationStatusResponse" /\ S = {f1, f2} /\ none = << >>
         /\ f1 = "verified" /\ f2 = "verified_at"
  OBVIOUS
<1>2. PICK tag, v1, v2, A, B :
         /\ tag = 18 /\ v1 = m[f1] /\ v2 = m[f2]
         /\ A = BoolBytes(8, v1) /\ B = StringBytes(tag, v2)
  OBVIOUS
<1>3. Fields(type) = S
  BY <1>1, TypeFields
<1>4. m = [x \in S |-> m[x]] /\ v1 \in BOOLEAN /\ IsText(v2)
  BY <1>1, <1>2, <1>3 DEF IsMessage, IsText
<1>5. MessageBytes(type, m) = A \o B
  BY <1>1, <1>2 DEF MessageBytes
<1>6. A \in Seq(Bytes) /\ B \in Seq(Bytes)
  <2>1. B \in Seq(Bytes)
    <3>1. tag \in Bytes
      BY <1>2 DEF Bytes
    <3>2. v2 \in Seq(Bytes) /\ Len(v2) < 2^28
      BY <1>4 DEF IsText
    <3>3. QED
      BY <1>2, <3>1, <3>2, StringBytesSize
  <2>2. <<8>> \o <<1>> \in Seq(Bytes) /\ << >> \in Seq(Bytes)
    BY DEF Bytes
  <2>3. QED
    BY <1>2, <2>1, <2>2 DEF BoolBytes
<1>7. type \in Types /\ IsTag(type, tag, f2)
  BY <1>1, <1>2, TagCases DEF Types, IsTag
<1>8. Len(none) + Len(A) <= MaxInt /\ Len(A) + Len(B) <= MaxInt /\ none \o A = A
  <2>1. PICK all : all = A \o B
    OBVIOUS
  <2>2. Len(all) = Len(A) + Len(B) /\ Len(A) \in Nat /\ Len(B) \in Nat
    BY <1>6, <2>1, Concat
  <2>3. Len(all) <= MaxInt
    BY <1>1, <1>5, <2>1, Zenon
  <2>4. Len(none) = 0 /\ none \o A = A
    BY <1>1, <1>6, Concat
  <2>5. MaxInt \in Nat
    BY WordAssumption
  <2>6. 0 + Len(A) <= MaxInt /\ Len(A) + Len(B) <= MaxInt
    BY ONLY <2>2, <2>3, <2>5
  <2>7. QED
    BY <2>4, <2>6
<1>9. PICK doc0 : IsDocument(type, doc0) /\ doc0.bytes = none /\ Meaning(doc0) = NewMessage(type)
  BY <1>1, EmptyDocument
<1>10. PICK m0 : m0 = Meaning(doc0)
  OBVIOUS
<1>11. m0 = [x \in S |-> m0[x]] /\ m0[f1] = FALSE /\ m0[f2] = none
  <2>1. NewMessage(type) = [x \in S |-> IF x = "verified" THEN FALSE ELSE none]
    BY <1>1, <1>3 DEF NewMessage
  <2>2. f1 \in S /\ f2 \in S /\ f1 = "verified" /\ f2 # "verified"
    BY <1>1
  <2>3. QED
    BY <1>9, <1>10, <2>1, <2>2
<1>12. PICK doc1 : /\ IsDocument(type, doc1) /\ doc1.bytes = doc0.bytes \o A
                   /\ Meaning(doc1) = IF v1 THEN [m0 EXCEPT !["verified"] = TRUE] ELSE m0
  BY <1>1, <1>2, <1>4, <1>8, <1>9, <1>10, BoolBehind
<1>13. PICK m1 : m1 = Meaning(doc1)
  OBVIOUS
<1>14. m1 = [x \in S |-> IF x = f1 THEN v1 ELSE m0[x]]
  <2>1. m1 = IF v1 = FALSE THEN m0 ELSE [m0 EXCEPT ![f1] = v1]
    BY <1>1, <1>4, <1>12, <1>13
  <2>2. f1 \in S
    BY <1>1
  <2>3. QED
    BY <1>11, <2>1, <2>2, EmptyStaysEmpty
<1>15. Lacks(S, m1, f2)
  <2>1. m1 = [x \in S |-> m1[x]] /\ \A x \in S : m1[x] = IF x = f1 THEN v1 ELSE m0[x]
    BY <1>14
  <2>2. f2 \in S /\ f1 # f2
    BY <1>1
  <2>3. QED
    BY <1>1, <1>11, <2>1, <2>2 DEF Lacks
<1>16. PICK doc2 : /\ IsDocument(type, doc2) /\ doc2.bytes = doc1.bytes \o B
                   /\ Meaning(doc2) = Given(S, m1, f2, v2)
  <2>1. /\ IsDocument(type, doc1) /\ IsText(v2)
        /\ Lacks(S, Meaning(doc1), f2) /\ Len(doc1.bytes) + Len(StringBytes(tag, v2)) <= MaxInt
    BY <1>2, <1>4, <1>8, <1>9, <1>12, <1>13, <1>15, Zenon
  <2>2. \E doc2 : /\ IsDocument(type, doc2) /\ doc2.bytes = doc1.bytes \o StringBytes(tag, v2)
                  /\ Meaning(doc2) = Given(S, Meaning(doc1), f2, v2)
    BY ONLY StringIsField, <1>7, <2>1
  <2>3. QED
    BY <1>2, <1>13, <2>2
<1>17. doc2.bytes = MessageBytes(type, m)
  BY <1>5, <1>8, <1>9, <1>12, <1>16, Zenon
<1>18. Meaning(doc2) = m
  <2>1. /\ \A x \in S : m1[x] = IF x = f1 THEN v1 ELSE m0[x]
        /\ Meaning(doc2) = [x \in S |-> IF x = f2 THEN v2 ELSE m1[x]]
    BY <1>14, <1>16 DEF Given
  <2>2. /\ f1 # f2 /\ \A x \in S : x = f1 \/ x = f2
        /\ v1 = m[f1] /\ v2 = m[f2]
    BY <1>1, <1>2
  <2>3. \A x \in S : m[x] = IF x = f2 THEN v2 ELSE m1[x]
    BY ONLY <2>1, <2>2
  <2>4. [x \in S |-> m[x]] = [x \in S |-> IF x = f2 THEN v2 ELSE m1[x]]
    BY <2>3
  <2>5. QED
    BY <1>4, <2>1, <2>4
<1>19. QED
  BY <1>1, <1>16, <1>17, <1>18

LEMMA EmptyIsDocument ==
    ASSUME NEW m, IsMessage("MsgSubmitAgeProofResponse", m)
    PROVE  \E doc : /\ IsDocument("MsgSubmitAgeProofResponse", doc)
                    /\ doc.bytes = MessageBytes("MsgSubmitAgeProofResponse", m)
                    /\ Meaning(doc) = m
<1>1. PICK type, S : type = "MsgSubmitAgeProofResponse" /\ S = Fields(type)
  OBVIOUS
<1>2. S = {}
  BY <1>1, TypeFields
<1>3. PICK doc : IsDocument(type, doc) /\ doc.bytes = << >> /\ Meaning(doc) = NewMessage(type)
  BY EmptyDocument
<1>4. MessageBytes(type, m) = << >>
  BY <1>1 DEF MessageBytes
<1>5. NewMessage(type) = m
  <2>1. m = [x \in S |-> m[x]]
    BY <1>1 DEF IsMessage
  <2>2. NewMessage(type) = [x \in S |-> IF x = "verified" THEN FALSE ELSE << >>]
    BY <1>1 DEF NewMessage
  <2>3. [x \in S |-> m[x]] = [x \in S |-> IF x = "verified" THEN FALSE ELSE << >>]
    BY <1>2
  <2>4. QED
    BY <2>1, <2>2, <2>3, Zenon
<1>6. QED
  BY <1>1, <1>3, <1>4, <1>5

\* What Marshal returns is a document with the message as its meaning.
LEMMA MarshalledIsDocument ==
    ASSUME NEW type \in Types, NEW m, IsMessage(type, m), Len(Marshal(type, m)) <= MaxInt
    PROVE  \E doc : IsDocument(type, doc) /\ doc.bytes = Marshal(type, m) /\ Meaning(doc) = m
<1>1. CASE type = "MsgSubmitAgeProof"
  <2>1. Marshal(type, m) = MessageBytes(type, m)
    <3>1. \A f \in {"creator", "proof", "public_witness", "current_date"} :
             m[f] \in Seq(Bytes) /\ Len(m[f]) < 2^28
      BY <1>1, TypeFields DEF IsMessage
    <3>2. QED
      BY <1>1, <3>1, SubmitWritten
  <2>2. QED
    BY <1>1, <2>1, SubmitIsDocument
<1>2. CASE type = "MsgSubmitAgeProofResponse"
  BY <1>2, EmptyWritten, EmptyIsDocument
<1>3. CASE type = "QueryVerificationStatusRequest"
  <2>1. Marshal(type, m) = MessageBytes(type, m)
    <3>1. m["address"] \in Seq(Bytes) /\ Len(m["address"]) < 2^28
      BY <1>3, TypeFields DEF IsMessage
    <3>2. QED
      BY <1>3, <3>1, RequestWritten
  <2>2. QED
    BY <1>3, <2>1, RequestIsDocument
<1>4. CASE type = "QueryVerificationStatusResponse"
  <2>1. Marshal(type, m) = MessageBytes(type, m)
    <3>1. /\ m["verified"] \in BOOLEAN
          /\ m["verified_at"] \in Seq(Bytes) /\ Len(m["verified_at"]) < 2^28
      BY <1>4, TypeFields DEF IsMessage
    <3>2. QED
      BY <1>4, <3>1, ResponseWritten
  <2>2. QED
    BY <1>4, <2>1, ResponseIsDocument
<1>5. QED
  BY <1>1, <1>2, <1>3, <1>4 DEF Types

\* SentMessages: what Marshal returns for a message, Unmarshal reads as that message with
\* no error, whatever the bytes of its fields and whichever of them are empty (tx.pb.go:263-320,
\* 374-600; query.pb.go:250-303, 345-540).
THEOREM SentMessages == Spec => []RoundTrip
<1>1. DecoderInv /\ Follows => RoundTrip
  <2>1. SUFFICES ASSUME DecoderInv, Follows, pc = "done", input.expect.kind = "sent"
                 PROVE  err = "nil" /\ msg = input.expect.msg
    BY DEF RoundTrip
  <2>2. input \in Inputs
    BY <2>1 DEF DecoderInv, Positions
  <2>3. /\ IsMessage(input.type, input.expect.msg)
        /\ input.data = Marshal(input.type, input.expect.msg)
    BY <2>1, <2>2, ExpectAssumption
  <2>4. input.type \in Types /\ Len(input.data) <= MaxInt
    BY <2>2, InputsAssumption
  <2>5. PICK doc : /\ IsDocument(input.type, doc) /\ doc.bytes = input.data
                   /\ Meaning(doc) = input.expect.msg
    BY <2>3, <2>4, MarshalledIsDocument
  <2>6. QED
    BY <2>1, <2>5, DocumentIsRead DEF data
<1>2. QED
  BY <1>1, SpecDecoderInv, SpecFollows, PTL

=============================================================================
