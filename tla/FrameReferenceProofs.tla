------------------------- MODULE FrameReferenceProofs -------------------------
(***************************************************************************)
(* FrameParser computes what the decoders of FrameReference compute, for   *)
(* every set of configurations, bytes and chunks.                          *)
(***************************************************************************)
EXTENDS FrameReference, FrameParserProofs, Induction

Decoder == [out : Seq(Seq(Bytes)), rest : Seq(Bytes),
            inside : BOOLEAN, long : BOOLEAN]

LEMMA NewDecoderTyped == NewDecoder \in Decoder
BY EmptyTyped DEF NewDecoder, Decoder

LEMMA EmitKeep ==
  ASSUME NEW d \in Decoder, NEW f \in Seq(Bytes)
  PROVE  /\ Emit(d, f) \in Decoder
         /\ Emit(d, f).out = Append(d.out, f) /\ Emit(d, f).rest = <<>>
         /\ Emit(d, f).inside = FALSE /\ Emit(d, f).long = d.long
         /\ Keep(d, f) \in Decoder
         /\ Keep(d, f).out = d.out /\ Keep(d, f).rest = f
         /\ Keep(d, f).inside = d.inside
         /\ Keep(d, f).long = (d.long \/ (config.type = "marked"
                                 /\ Len(f) > config.max_frame_length))
<1>1. Append(d.out, f) \in Seq(Seq(Bytes))
  BY AppendProperties DEF Decoder
<1>2. <<>> \in Seq(Bytes)
  BY EmptyTyped
<1> QED
  BY <1>1, <1>2 DEF Emit, Keep, Decoder

LEMMA DecodeByteTyped ==
  ASSUME config \in Configs, NEW d \in Decoder, NEW b \in Bytes
  PROVE  DecodeByte(d, b) \in Decoder
<1> DEFINE s == Append(d.rest, b)
<1>1. /\ s \in Seq(Bytes) /\ s # <<>> /\ d.rest \in Seq(Bytes)
      /\ Len(s) \in Nat
  <2>1. d.rest \in Seq(Bytes)
    BY DEF Decoder
  <2>2. s \in Seq(Bytes) /\ Len(s) = Len(d.rest) + 1
    BY <2>1, AppendProperties
  <2> QED
    BY <2>1, <2>2, LenProperties, EmptySeq
<1>2. Tail(s) \in Seq(Bytes)
  BY <1>1, HeadTailProperties
<1>3. CASE config.type = "fixed"
  <2> HIDE DEF s
  <2> QED
    BY <1>1, <1>3, EmitKeep DEF DecodeByte, DecodeFixed, s
<1>4. CASE config.type = "delimited"
  BY <1>1, <1>4, EmitKeep DEF DecodeByte, DecodeDelimited
<1>5. CASE config.type = "prefixed"
  <2>2. HeaderSize \in Nat
    BY ConfigTypes
  <2>1. ASSUME HeaderSize <= Len(s)
        PROVE  SubSeq(s, HeaderSize + 1, Len(s)) \in Seq(Bytes)
    <3>1. HeaderSize \in 0..Len(s)
      BY <1>1, <2>1, <2>2
    <3> HIDE DEF s
    <3> QED
      BY <1>1, <3>1, CutRest
  <2>3. DecodePrefixed(d, b) \in {Keep(d, s), Keep(d, Tail(s))}
          \cup (IF HeaderSize <= Len(s)
                THEN {Emit(d, SubSeq(s, HeaderSize + 1, Len(s)))} ELSE {})
    BY <1>1, <2>2 DEF DecodePrefixed
  <2>4. DecodeByte(d, b) = DecodePrefixed(d, b)
    BY <1>5 DEF DecodeByte
  <2>5. Keep(d, s) \in Decoder /\ Keep(d, Tail(s)) \in Decoder
    <3> HIDE DEF s
    <3> QED
      BY <1>1, <1>2, EmitKeep
  <2>6. HeaderSize <= Len(s) =>
          Emit(d, SubSeq(s, HeaderSize + 1, Len(s))) \in Decoder
    BY <2>1, EmitKeep
  <2> HIDE DEF s
  <2> QED
    BY <2>3, <2>4, <2>5, <2>6
<1>6. CASE config.type = "marked"
  <2>1. [d EXCEPT !.rest = <<>>, !.inside = TRUE] \in Decoder
    BY EmptyTyped DEF Decoder
  <2> QED
    BY <1>1, <1>6, <2>1, EmitKeep DEF DecodeByte, DecodeMarked
<1> QED
  BY <1>3, <1>4, <1>5, <1>6, ConfigsAssumption DEF Config

\* A decoder that has seen something too long says so for good.
LEMMA LongStays ==
  ASSUME config \in Configs, NEW d \in Decoder, NEW b \in Bytes, d.long
  PROVE  DecodeByte(d, b).long
BY ConfigsAssumption DEF Config, Decoder, DecodeByte, DecodeFixed,
   DecodeDelimited, DecodePrefixed, DecodeMarked, Emit, Keep

-----------------------------------------------------------------------------
(* The decoder after a sequence of bytes                                   *)

Run(s) ==
  CHOOSE after : after = [n \in 0..Len(s) |->
    IF n = 0 THEN NewDecoder ELSE DecodeByte(after[n - 1], s[n])]

LEMMA RunEquations ==
  ASSUME config \in Configs, NEW s \in Seq(Bytes)
  PROVE  /\ Decode(s) = Run(s)[Len(s)]
         /\ Run(s) \in [0..Len(s) -> Decoder]
         /\ Run(s)[0] = NewDecoder
         /\ \A n \in 1..Len(s) : Run(s)[n] = DecodeByte(Run(s)[n - 1], s[n])
<1> DEFINE N == Len(s)
           F == [p \in Decoder \X (1..N) |-> DecodeByte(p[1], s[p[2]])]
           Solves(g) == g = [n \in 0..N |->
             IF n = 0 THEN NewDecoder ELSE DecodeByte(g[n - 1], s[n])]
<1>1. N \in Nat /\ \A n \in 1..N : s[n] \in Bytes
  BY LenProperties, ElementOfSeq
<1>2. F \in [Decoder \X (1..N) -> Decoder]
  BY <1>1, DecodeByteTyped
<1>3. PICK g \in Recursive(Decoder, NewDecoder, N, F) : TRUE
  <2> HIDE DEF F, N
  <2> QED
    BY <1>1, <1>2, NewDecoderTyped, Recursion
<1>4. /\ g \in [0..N -> Decoder] /\ g[0] = NewDecoder
      /\ \A n \in 1..N : g[n] = DecodeByte(g[n - 1], s[n])
  <2>1. /\ g \in [0..N -> Decoder] /\ g[0] = NewDecoder
        /\ \A n \in 1..N : g[n] = F[<<g[n - 1], n>>]
    BY DEF Recursive
  <2>2. ASSUME NEW n \in 1..N PROVE <<g[n - 1], n>> \in Decoder \X (1..N)
    <3>1. n - 1 \in 0..N
      BY <1>1
    <3> HIDE DEF F, N
    <3> QED
      BY <2>1, <3>1
  <2> QED
    BY <2>1, <2>2
<1>5. Solves(Run(s))
  <2>1. Solves(g)
    BY <1>1, <1>4
  <2>2. \E h : Solves(h)
    BY <2>1
  <2> QED
    BY <2>2 DEF Run
<1>6. Run(s) = g
  <2>1. Run(s) = [n \in 0..N |-> Run(s)[n]] /\ Run(s)[0] = NewDecoder
    BY <1>1, <1>5
  <2>2. ASSUME NEW n \in 1..N, Run(s)[n - 1] \in Decoder
        PROVE  Run(s)[n] = F[<<Run(s)[n - 1], n>>]
    <3>1. Run(s)[n] = DecodeByte(Run(s)[n - 1], s[n])
      BY <1>1, <1>5
    <3>2. <<Run(s)[n - 1], n>> \in Decoder \X (1..N)
      BY <2>2
    <3> QED
      BY <3>1, <3>2
  <2> HIDE DEF F, N
  <2>3. Continues(Run(s), Decoder, NewDecoder, N, F)
    BY <2>1, <2>2 DEF Continues
  <2> QED
    BY <1>1, <1>2, <2>3, NewDecoderTyped, OnlyOne
<1>7. Decode(s) = Run(s)[Len(s)]
  BY DEF Decode, Run
<1> QED
  BY <1>4, <1>6, <1>7

LEMMA DecodeNothing ==
  ASSUME config \in Configs PROVE Decode(<<>>) = NewDecoder
BY RunEquations, EmptySeq

\* One byte more.
LEMMA DecodeAppend ==
  ASSUME config \in Configs, NEW s \in Seq(Bytes), NEW b \in Bytes
  PROVE  /\ Decode(s) \in Decoder
         /\ Decode(Append(s, b)) = DecodeByte(Decode(s), b)
<1> DEFINE t == Append(s, b)
<1>1. /\ t \in Seq(Bytes) /\ Len(t) = Len(s) + 1 /\ t[Len(s) + 1] = b
      /\ \A n \in 1..Len(s) : t[n] = s[n]
      /\ Len(s) \in Nat
  BY AppendProperties, LenProperties
<1> HIDE DEF t
<1>2. \A n \in 0..Len(s) : Run(s)[n] = Run(t)[n]
  <2> DEFINE T == {n \in 0..Len(s) : Run(s)[n] = Run(t)[n]}
  <2>1. 0 \in T
    BY <1>1, RunEquations
  <2>2. ASSUME NEW n \in 0..Len(s), n \in T, n < Len(s) PROVE n + 1 \in T
    <3>1. n + 1 \in 1..Len(s) /\ n + 1 \in 1..Len(t) /\ (n + 1) - 1 = n
      BY <1>1, <2>2
    <3>2. Run(s)[n + 1] = DecodeByte(Run(s)[n], s[n + 1])
      BY <3>1, RunEquations
    <3>3. Run(t)[n + 1] = DecodeByte(Run(t)[n], t[n + 1])
      BY <1>1, <3>1, RunEquations
    <3> QED
      BY <1>1, <2>2, <3>1, <3>2, <3>3
  <2>3. 0..Len(s) \subseteq T
    <3> HIDE DEF T
    <3> QED
      BY <1>1, <2>1, <2>2, FromTo
  <2> QED
    BY <2>3
<1>3. Run(t)[Len(t)] = DecodeByte(Run(t)[Len(s)], b)
  <2>1. Len(t) \in 1..Len(t) /\ Len(t) - 1 = Len(s)
    BY <1>1
  <2> QED
    BY <1>1, <2>1, RunEquations
<1>4. Run(s)[Len(s)] = Run(t)[Len(s)] /\ Len(s) \in 0..Len(s)
  BY <1>1, <1>2
<1>5. /\ Decode(s) = Run(s)[Len(s)] /\ Run(s) \in [0..Len(s) -> Decoder]
      /\ Decode(t) = Run(t)[Len(t)]
  BY <1>1, RunEquations
<1> QED
  BY <1>3, <1>4, <1>5 DEF t
-----------------------------------------------------------------------------
(* The length field                                                        *)

LEMMA WeightEquations ==
  /\ Weight \in [0..8 -> Nat]
  /\ Weight[0] = 1
  /\ \A k \in 1..8 : Weight[k] = 256 * Weight[k - 1]
<1> DEFINE F == [p \in Nat \X (1..8) |-> 256 * p[1]]
           Solves(g) == g = [k \in 0..8 |->
                              IF k = 0 THEN 1 ELSE 256 * g[k - 1]]
<1>1. F \in [Nat \X (1..8) -> Nat]
  OBVIOUS
<1>2. PICK g \in Recursive(Nat, 1, 8, F) : TRUE
  <2> HIDE DEF F
  <2>1. 1 \in Nat /\ 8 \in Nat
    OBVIOUS
  <2>2. Recursive(Nat, 1, 8, F) # {}
    BY <1>1, <2>1, Recursion
  <2> QED
    BY <2>2
<1>3. /\ g \in [0..8 -> Nat] /\ g[0] = 1
      /\ \A k \in 1..8 : g[k] = 256 * g[k - 1]
  BY DEF Recursive
<1>4. Solves(Weight)
  <2>1. Solves(g)
    BY <1>3
  <2>2. \E h : Solves(h)
    BY <2>1
  <2> QED
    BY <2>2 DEF Weight
<1>5. Weight = g
  <2>1. Weight = [k \in 0..8 |-> Weight[k]] /\ Weight[0] = 1
    BY <1>4
  <2>2. ASSUME NEW k \in 1..8, Weight[k - 1] \in Nat
        PROVE  Weight[k] = F[<<Weight[k - 1], k>>]
    BY <1>4, <2>2
  <2> HIDE DEF F
  <2>3. Continues(Weight, Nat, 1, 8, F)
    BY <2>1, <2>2 DEF Continues
  <2> QED
    BY <1>1, <2>3, OnlyOne
<1> QED
  BY <1>3, <1>5

\* The byte that readUint() takes in turn i, and what it has by then.
Turn(data, big_endian, i) == data[IF big_endian THEN i ELSE Len(data) + 1 - i]
Value(data, big_endian) ==
  CHOOSE value : value = [i \in 0..Len(data) |->
    IF i = 0 THEN 0 ELSE 256 * value[i - 1] + Turn(data, big_endian, i)]

LEMMA ValueEquations ==
  ASSUME NEW data \in Seq(Bytes), NEW big \in BOOLEAN
  PROVE  /\ ReadUint(data, big) = Value(data, big)[Len(data)]
         /\ Value(data, big) \in [0..Len(data) -> Nat]
         /\ Value(data, big)[0] = 0
         /\ \A i \in 1..Len(data) :
              Value(data, big)[i] =
                256 * Value(data, big)[i - 1] + Turn(data, big, i)
<1> DEFINE N == Len(data)
           F == [p \in Nat \X (1..N) |-> 256 * p[1] + Turn(data, big, p[2])]
           v == Value(data, big)
           Solves(g) == g = [i \in 0..N |->
             IF i = 0 THEN 0 ELSE 256 * g[i - 1] + Turn(data, big, i)]
<1>1. N \in Nat /\ \A i \in 1..N : Turn(data, big, i) \in Nat
  <2>1. N \in Nat /\ \A i \in 1..N : data[i] \in Nat
    <3>1. N \in Nat /\ \A i \in 1..N : data[i] \in Bytes
      BY LenProperties, ElementOfSeq
    <3>2. \A b \in Bytes : b \in Nat
      BY BytesAssumption
    <3> HIDE DEF N
    <3> QED
      BY <3>1, <3>2
  <2>2. \A i \in 1..N : N + 1 - i \in 1..N
    BY <2>1
  <2> QED
    BY <2>1, <2>2 DEF Turn
<1>2. F \in [Nat \X (1..N) -> Nat]
  BY <1>1
<1>3. PICK g \in Recursive(Nat, 0, N, F) : TRUE
  <2> HIDE DEF F, N
  <2>1. 0 \in Nat /\ N \in Nat
    BY <1>1
  <2>2. Recursive(Nat, 0, N, F) # {}
    BY <1>2, <2>1, Recursion
  <2> QED
    BY <2>2
<1>4. /\ g \in [0..N -> Nat] /\ g[0] = 0
      /\ \A i \in 1..N : g[i] = 256 * g[i - 1] + Turn(data, big, i)
  <2>1. /\ g \in [0..N -> Nat] /\ g[0] = 0
        /\ \A i \in 1..N : g[i] = F[<<g[i - 1], i>>]
    BY DEF Recursive
  <2>2. ASSUME NEW i \in 1..N PROVE <<g[i - 1], i>> \in Nat \X (1..N)
    <3>1. i - 1 \in 0..N
      BY <1>1
    <3> HIDE DEF F, N
    <3> QED
      BY <2>1, <3>1
  <2> QED
    BY <2>1, <2>2
<1>5. Solves(v)
  <2>1. Solves(g)
    BY <1>1, <1>4
  <2>2. \E h : Solves(h)
    BY <2>1
  <2> QED
    BY <2>2 DEF Value
<1>6. v = g
  <2>1. v = [i \in 0..N |-> v[i]] /\ v[0] = 0
    BY <1>1, <1>5
  <2>2. ASSUME NEW i \in 1..N, v[i - 1] \in Nat PROVE v[i] = F[<<v[i - 1], i>>]
    <3>1. v[i] = 256 * v[i - 1] + Turn(data, big, i)
      <4>1. i \in 0..N /\ i # 0
        BY <1>1
      <4> HIDE DEF v, N
      <4> QED
        BY <1>5, <4>1
    <3>2. <<v[i - 1], i>> \in Nat \X (1..N)
      BY <2>2
    <3> HIDE DEF v
    <3> QED
      BY <3>1, <3>2
  <2> HIDE DEF F, N, v
  <2>3. Continues(v, Nat, 0, N, F)
    BY <2>1, <2>2 DEF Continues
  <2> QED
    BY <1>1, <1>2, <2>3, OnlyOne
<1>7. ReadUint(data, big) = v[Len(data)]
  BY DEF ReadUint, Value, Turn
<1> QED
  BY <1>4, <1>6, <1>7

\* readUint() loses nothing: whatever up to eight bytes say, the number, and
\* every number on the way to it, is less than 256^8, so that a size_t of 64
\* bits holds it.
THEOREM NothingIsShiftedOut ==
  ASSUME NEW data \in Seq(Bytes), Len(data) <= 8, NEW big \in BOOLEAN
  PROVE  /\ ReadUint(data, big) < Weight[8]
         /\ \A i \in 0..Len(data) : Value(data, big)[i] < Weight[8]
<1> DEFINE N == Len(data)
           v == Value(data, big)
           T == {i \in 0..N : v[i] < Weight[i]}
<1>1. N \in 0..8 /\ \A i \in 1..N : Turn(data, big, i) \in 0..255
  <2>1. \A i \in 1..Len(data) : data[i] \in Bytes
    BY ElementOfSeq
  <2>2. \A b \in Bytes : b \in 0..255
    BY BytesAssumption
  <2>3. ASSUME NEW i \in 1..N
        PROVE  Turn(data, big, i) = data[i] \/ Turn(data, big, i) = data[N + 1 - i]
    BY DEF Turn
  <2>4. N \in Nat
    BY LenProperties
  <2>5. \A i \in 1..N : data[i] \in 0..255
    BY <2>1, <2>2
  <2>6. N <= 8
    OBVIOUS
  <2> HIDE DEF N
  <2>7. \A i \in 1..N : N + 1 - i \in 1..N
    BY <2>4
  <2>8. ASSUME NEW i \in 1..N PROVE Turn(data, big, i) \in 0..255
    <3>1. data[i] \in 0..255 /\ data[N + 1 - i] \in 0..255
      BY <2>5, <2>7
    <3>2. CASE Turn(data, big, i) = data[i]
      BY <3>1, <3>2
    <3>3. CASE Turn(data, big, i) = data[N + 1 - i]
      BY <3>1, <3>3
    <3> QED
      BY <2>3, <3>2, <3>3
  <2> QED
    BY <2>4, <2>6, <2>8
<1>2. /\ ReadUint(data, big) = v[N] /\ v \in [0..N -> Nat] /\ v[0] = 0
      /\ \A i \in 1..N : v[i] = 256 * v[i - 1] + Turn(data, big, i)
  BY ValueEquations
<1>3. /\ Weight \in [0..8 -> Nat] /\ Weight[0] = 1
      /\ \A k \in 1..8 : Weight[k] = 256 * Weight[k - 1]
  BY WeightEquations
<1> HIDE DEF N, v
<1>a. \A k \in 0..8 : Weight[k] \in Nat
  BY <1>3
<1> HIDE DEF T
<1>4. ASSUME NEW i \in 0..N, v[i] < Weight[i], i < N
      PROVE  v[i + 1] < Weight[i + 1]
  <2>1. i + 1 \in 1..N /\ i + 1 \in 1..8 /\ (i + 1) - 1 = i /\ i \in 0..8
    BY <1>1, <1>4
  <2>2. v[i + 1] = 256 * v[i] + Turn(data, big, i + 1)
    BY <1>2, <2>1
  <2>3. Weight[i + 1] = 256 * Weight[i]
    BY <1>3, <2>1
  <2>4. v[i] \in Nat /\ Weight[i] \in Nat /\ Turn(data, big, i + 1) \in 0..255
    BY <1>1, <1>2, <1>a, <2>1
  <2>5. \A x \in Nat, w \in Nat, b \in 0..255 : x < w => 256 * x + b < 256 * w
    OBVIOUS
  <2> DEFINE x == v[i]
             w == Weight[i]
             b == Turn(data, big, i + 1)
  <2>6. x \in Nat /\ w \in Nat /\ b \in 0..255 /\ x < w
    BY <1>4, <2>4
  <2>7. v[i + 1] = 256 * x + b /\ Weight[i + 1] = 256 * w
    BY <2>2, <2>3
  <2> HIDE DEF x, w, b
  <2>8. 256 * x + b < 256 * w
    BY <2>5, <2>6
  <2> QED
    BY <2>7, <2>8
<1>5. 0..N \subseteq T
  <2>1. 0 \in T
    <3>1. 0 \in 0..N /\ v[0] < Weight[0]
      BY <1>1, <1>2, <1>3
    <3> QED
      BY <3>1 DEF T
  <2>2. ASSUME NEW i \in 0..N, i \in T, i < N PROVE i + 1 \in T
    <3>1. i + 1 \in 0..N
      BY <1>1, <2>2
    <3> QED
      BY <1>4, <2>2, <3>1 DEF T
  <2>3. N \in Nat /\ 0 \in Nat
    BY <1>1
  <2> QED
    BY <2>1, <2>2, <2>3, FromTo
<1>6. \A k \in 0..8 : Weight[k] <= Weight[8]
  <2>1. ASSUME NEW k \in 1..8 PROVE Weight[k - 1] <= Weight[k]
    <3>1. k - 1 \in 0..8
      OBVIOUS
    <3>2. Weight[k - 1] \in Nat
      BY <1>a, <3>1
    <3>3. Weight[k] = 256 * Weight[k - 1]
      BY <1>3
    <3> QED
      BY <3>2, <3>3
  <2>2. /\ Weight[0] <= Weight[1] /\ Weight[1] <= Weight[2]
        /\ Weight[2] <= Weight[3] /\ Weight[3] <= Weight[4]
        /\ Weight[4] <= Weight[5] /\ Weight[5] <= Weight[6]
        /\ Weight[6] <= Weight[7] /\ Weight[7] <= Weight[8]
    BY <2>1
  <2>3. /\ Weight[0] \in Nat /\ Weight[1] \in Nat /\ Weight[2] \in Nat
        /\ Weight[3] \in Nat /\ Weight[4] \in Nat /\ Weight[5] \in Nat
        /\ Weight[6] \in Nat /\ Weight[7] \in Nat /\ Weight[8] \in Nat
    BY <1>a
  <2>4. ASSUME NEW x \in Nat, NEW y \in Nat, NEW z \in Nat, x <= y, y <= z
        PROVE  x <= z
    BY <2>4
  <2>5. Weight[6] <= Weight[8] /\ Weight[8] <= Weight[8]
    <3>1. \A x \in Nat : x <= x
      OBVIOUS
    <3>2. Weight[8] <= Weight[8]
      BY <2>3, <3>1
    <3>3. Weight[6] <= Weight[8]
      BY <2>2, <2>3, <2>4
    <3> QED
      BY <3>2, <3>3
  <2>6. Weight[5] <= Weight[8]
    BY <2>2, <2>3, <2>4, <2>5
  <2>7. Weight[4] <= Weight[8]
    BY <2>2, <2>3, <2>4, <2>6
  <2>8. Weight[3] <= Weight[8]
    BY <2>2, <2>3, <2>4, <2>7
  <2>9. Weight[2] <= Weight[8]
    BY <2>2, <2>3, <2>4, <2>8
  <2>10. Weight[1] <= Weight[8] /\ Weight[0] <= Weight[8]
    BY <2>2, <2>3, <2>4, <2>9
  <2> QED
    BY <2>2, <2>5, <2>6, <2>7, <2>8, <2>9, <2>10
<1>7. ASSUME NEW i \in 0..N PROVE v[i] < Weight[8]
  <2>1. i \in 0..8 /\ i \in T
    BY <1>1, <1>5
  <2>2. v[i] < Weight[i] /\ Weight[i] <= Weight[8]
    BY <1>6, <2>1 DEF T
  <2>3. Weight[i] \in Nat /\ Weight[8] \in Nat
    <3>1. 8 \in 0..8 /\ i \in 0..8
      BY <2>1
    <3> QED
      BY <1>a, <3>1
  <2>4. v[i] \in Nat
    BY <1>2
  <2> QED
    BY <2>2, <2>3, <2>4
<1>8. N \in 0..N
  BY <1>1
<1>9. ReadUint(data, big) < Weight[8]
  BY <1>2, <1>7, <1>8
<1> QED
  BY <1>7, <1>9 DEF v, N

\* The sum of the weighted bytes.
Sum(s) ==
  CHOOSE sum : sum = [k \in 0..config.length_size |->
    IF k = 0 THEN 0 ELSE sum[k - 1] + ByteOf(s, k - 1) * Weight[k - 1]]

LEMMA SumEquations ==
  ASSUME config \in Configs, NEW s,
         \A k \in 0..config.length_size - 1 : ByteOf(s, k) \in Nat
  PROVE  /\ Announced(s) = Sum(s)[config.length_size]
         /\ Sum(s) \in [0..config.length_size -> Nat]
         /\ Sum(s)[0] = 0
         /\ \A k \in 1..config.length_size :
              Sum(s)[k] = Sum(s)[k - 1] + ByteOf(s, k - 1) * Weight[k - 1]
<1> DEFINE N == config.length_size
           F == [p \in Nat \X (1..N) |->
                  p[1] + ByteOf(s, p[2] - 1) * Weight[p[2] - 1]]
           v == Sum(s)
           Solves(g) == g = [k \in 0..N |->
             IF k = 0 THEN 0 ELSE g[k - 1] + ByteOf(s, k - 1) * Weight[k - 1]]
<1>1. N \in 0..8
  BY ConfigsAssumption DEF Config
<1>2. F \in [Nat \X (1..N) -> Nat]
  <2>1. ASSUME NEW k \in 1..N PROVE ByteOf(s, k - 1) * Weight[k - 1] \in Nat
    <3>1. k - 1 \in 0..N - 1 /\ k - 1 \in 0..8
      BY <1>1
    <3>2. ByteOf(s, k - 1) \in Nat /\ Weight[k - 1] \in Nat
      BY <3>1, WeightEquations
    <3> QED
      BY <3>2
  <2> QED
    BY <2>1
<1>3. PICK g \in Recursive(Nat, 0, N, F) : TRUE
  <2>1. N \in Nat
    BY <1>1
  <2> HIDE DEF F, N
  <2> QED
    BY <1>2, <2>1, Recursion
<1>4. /\ g \in [0..N -> Nat] /\ g[0] = 0
      /\ \A k \in 1..N : g[k] = g[k - 1] + ByteOf(s, k - 1) * Weight[k - 1]
  <2>1. /\ g \in [0..N -> Nat] /\ g[0] = 0
        /\ \A k \in 1..N : g[k] = F[<<g[k - 1], k>>]
    BY DEF Recursive
  <2>2. ASSUME NEW k \in 1..N PROVE <<g[k - 1], k>> \in Nat \X (1..N)
    <3>1. k - 1 \in 0..N
      BY <1>1
    <3> HIDE DEF F, N
    <3> QED
      BY <2>1, <3>1
  <2> QED
    BY <2>1, <2>2
<1>5. Solves(v)
  <2>1. Solves(g)
    BY <1>1, <1>4
  <2>2. \E h : Solves(h)
    BY <2>1
  <2> QED
    BY <2>2 DEF Sum
<1>6. v = g
  <2>1. v = [k \in 0..N |-> v[k]] /\ v[0] = 0
    BY <1>1, <1>5
  <2>2. ASSUME NEW k \in 1..N, v[k - 1] \in Nat PROVE v[k] = F[<<v[k - 1], k>>]
    <3>1. v[k] = v[k - 1] + ByteOf(s, k - 1) * Weight[k - 1]
      <4>1. k \in 0..N /\ k # 0
        BY <1>1
      <4> HIDE DEF v, N
      <4> QED
        BY <1>5, <4>1
    <3>2. <<v[k - 1], k>> \in Nat \X (1..N)
      BY <2>2
    <3> HIDE DEF v
    <3> QED
      BY <3>1, <3>2
  <2>3. N \in Nat
    BY <1>1
  <2> HIDE DEF F, N, v
  <2>4. Continues(v, Nat, 0, N, F)
    BY <2>1, <2>2 DEF Continues
  <2> QED
    BY <1>2, <2>3, <2>4, OnlyOne
<1>7. Announced(s) = v[N]
  BY DEF Announced, Sum
<1> QED
  BY <1>4, <1>6, <1>7

LEMMA Distribute ==
  ASSUME NEW a \in Nat, NEW b \in Nat, NEW w \in Nat, NEW t \in Nat
  PROVE  (256 * a + b) * w + t = a * (256 * w) + (t + b * w)
OBVIOUS

\* The bytes of the length field.
LEMMA FieldBytes ==
  ASSUME config \in Configs, NEW s \in Seq(Bytes), HeaderSize <= Len(s)
  PROVE  /\ LengthField(s) \in Seq(Bytes)
         /\ Len(LengthField(s)) = config.length_size
         /\ \A i \in 1..config.length_size :
              LengthField(s)[i] = s[config.length_offset + i]
<1> DEFINE N == config.length_size
           o == config.length_offset
           data == LengthField(s)
<1>1. N \in 0..8 /\ o \in Nat /\ HeaderSize = o + N
  BY ConfigsAssumption DEF Config, HeaderSize
<1>2. \A i \in o + 1..o + N : s[i] \in Bytes
  BY <1>1, ElementOfSeq, LenProperties
<1>3. o + 1 \in Int /\ o + N \in Int
  BY <1>1
<1>4. /\ SubSeq(s, o + 1, o + N) \in Seq(Bytes)
      /\ Len(SubSeq(s, o + 1, o + N)) =
           (IF o + 1 <= o + N THEN (o + N) - (o + 1) + 1 ELSE 0)
      /\ \A i \in 1..(o + N) - (o + 1) + 1 :
           SubSeq(s, o + 1, o + N)[i] = s[o + 1 + i - 1]
  BY <1>2, <1>3, SubSeqProperties
<1>5. ASSUME NEW i \in 1..N
      PROVE  i \in 1..(o + N) - (o + 1) + 1 /\ o + 1 + i - 1 = o + i
  <2> HIDE DEF o, N
  <2> QED
    BY <1>1
<1>6. data = SubSeq(s, o + 1, o + N)
  BY <1>1 DEF LengthField
<1> HIDE DEF data, o, N
<1>7. Len(data) = N
  <2>1. (IF o + 1 <= o + N THEN (o + N) - (o + 1) + 1 ELSE 0) = N
    BY <1>1
  <2> QED
    BY <1>4, <1>6, <2>1
<1>8. ASSUME NEW i \in 1..N PROVE data[i] = s[o + i]
  BY <1>4, <1>5, <1>6
<1> QED
  BY <1>4, <1>6, <1>7, <1>8 DEF data, o, N

\* readUint() reads the number that is written in the length field.
THEOREM ReadsWhatIsAnnounced ==
  ASSUME config \in Configs, NEW s \in Seq(Bytes), HeaderSize <= Len(s)
  PROVE  Announced(s) = FrameLength(s)
<1> DEFINE N == config.length_size
           o == config.length_offset
           big == config.length_big_endian
           data == LengthField(s)
           v == Value(data, big)
           t == Sum(s)
<1>1. N \in 0..8 /\ o \in Nat /\ big \in BOOLEAN /\ HeaderSize = o + N
  BY ConfigsAssumption DEF Config, HeaderSize
<1>2. /\ data \in Seq(Bytes) /\ Len(data) = N
      /\ \A i \in 1..N : data[i] = s[o + i]
  BY FieldBytes
<1>3. ASSUME NEW k \in 0..N - 1
      PROVE  ByteOf(s, k) = Turn(data, big, N - k) /\ ByteOf(s, k) \in Nat
  <2> DEFINE i == IF big THEN N - k ELSE k + 1
  <2>a. N \in Nat /\ k \in Nat /\ k < N
    BY <1>1
  <2>0. N + 1 - (N - k) = k + 1 /\ i \in 1..N
    <3> HIDE DEF N
    <3>1. N + 1 - (N - k) = k + 1 /\ N - k \in 1..N /\ k + 1 \in 1..N
      BY <2>a
    <3> QED
      BY <3>1
  <2>1. /\ ByteOf(s, k) = s[o + i] /\ i \in 1..N
        /\ Turn(data, big, N - k) = data[i]
    <3>1. ByteOf(s, k) = s[o + i]
      BY DEF ByteOf
    <3>2. Turn(data, big, N - k) = data[IF big THEN N - k ELSE N + 1 - (N - k)]
      BY <1>2 DEF Turn
    <3> QED
      BY <2>0, <3>1, <3>2
  <2>2. data[i] \in Bytes
    BY <1>2, <2>1, ElementOfSeq
  <2>3. \A b \in Bytes : b \in Nat
    BY BytesAssumption
  <2>4. data[i] = s[o + i]
    BY <1>2, <2>1
  <2> HIDE DEF i, data, o, N
  <2> QED
    BY <2>1, <2>2, <2>3, <2>4
<1> HIDE DEF data
<1>4. /\ FrameLength(s) = v[N] /\ v \in [0..N -> Nat] /\ v[0] = 0
      /\ \A i \in 1..N : v[i] = 256 * v[i - 1] + Turn(data, big, i)
  BY <1>1, <1>2, ValueEquations DEF FrameLength, data
<1>5. /\ Announced(s) = t[N] /\ t \in [0..N -> Nat] /\ t[0] = 0
      /\ \A k \in 1..N : t[k] = t[k - 1] + ByteOf(s, k - 1) * Weight[k - 1]
  BY <1>3, SumEquations
<1> HIDE DEF v, t, N, big
<1>6. \A j \in 0..N : v[N] = v[N - j] * Weight[j] + t[j]
  <2> DEFINE T == {j \in 0..N : v[N] = v[N - j] * Weight[j] + t[j]}
  <2>1. 0 \in T
    <3>1. /\ 0 \in 0..N /\ N - 0 = N /\ N \in 0..N
          /\ Weight[0] = 1 /\ t[0] = 0
      BY <1>1, <1>5, WeightEquations
    <3>2. v[N] \in Nat
      BY <1>4, <3>1
    <3>3. v[N] = v[N] * 1 + 0
      BY <3>2
    <3> QED
      BY <3>1, <3>3
  <2>2. ASSUME NEW j \in 0..N, j \in T, j < N PROVE j + 1 \in T
    <3>1. /\ N - j \in 1..N /\ (N - j) - 1 = N - (j + 1) /\ N - (j + 1) \in 0..N
          /\ j \in 0..N - 1 /\ j + 1 \in 1..N /\ (j + 1) - 1 = j
          /\ j + 1 \in 1..8 /\ j \in 0..8 /\ j + 1 \in 0..N
      BY <1>1, <2>2
    <3> DEFINE a == v[N - (j + 1)]
               b == ByteOf(s, j)
               w == Weight[j]
    <3>2. a \in Nat /\ b \in Nat /\ w \in Nat /\ t[j] \in Nat
      <4>1. a \in Nat
        BY <1>4, <3>1
      <4>2. b \in Nat
        BY <1>3, <3>1
      <4>3. w \in Nat
        <5>1. Weight \in [0..8 -> Nat] /\ j \in 0..8
          BY <3>1, WeightEquations
        <5> QED
          BY <5>1
      <4>4. t[j] \in Nat
        BY <1>5
      <4> QED
        BY <4>1, <4>2, <4>3, <4>4
    <3>3. v[N - j] = 256 * a + b
      BY <1>3, <1>4, <3>1
    <3>4. Weight[j + 1] = 256 * w
      BY <3>1, WeightEquations
    <3>5. t[j + 1] = t[j] + b * w
      BY <1>5, <3>1
    <3>6. v[N] = v[N - j] * w + t[j]
      BY <2>2
    <3>7. (256 * a + b) * w + t[j] = a * (256 * w) + (t[j] + b * w)
      <4> DEFINE u == t[j]
      <4>1. u \in Nat
        BY <3>2
      <4> HIDE DEF a, b, w, u
      <4>2. (256 * a + b) * w + u = a * (256 * w) + (u + b * w)
        BY <3>2, <4>1, Distribute
      <4> QED
        BY <4>2 DEF u
    <3>8. v[N] = v[N - (j + 1)] * Weight[j + 1] + t[j + 1]
      <4>1. v[N] = a * (256 * w) + (t[j] + b * w)
        BY <3>3, <3>6, <3>7
      <4>2. a = v[N - (j + 1)]
        OBVIOUS
      <4> HIDE DEF a, b, w
      <4> QED
        BY <3>4, <3>5, <4>1, <4>2
    <3> QED
      BY <3>1, <3>8
  <2>3. 0..N \subseteq T
    <3> HIDE DEF T
    <3> QED
      BY <1>1, <2>1, <2>2, FromTo
  <2> QED
    BY <2>3
<1>7. v[N] = v[0] * Weight[N] + t[N]
  <2>1. N \in 0..N /\ N - N = 0
    BY <1>1
  <2> QED
    BY <1>6, <2>1
<1>8. v[0] * Weight[N] = 0 /\ t[N] \in Nat
  <2>1. v[0] = 0 /\ Weight[N] \in Nat /\ N \in 0..N
    <3>1. N \in 0..8
      BY <1>1
    <3>2. Weight[N] \in Nat
      BY <3>1, WeightEquations
    <3> QED
      BY <1>4, <3>1, <3>2
  <2>2. 0 * Weight[N] = 0
    BY <2>1
  <2>3. t[N] \in Nat
    BY <1>5, <2>1
  <2> QED
    BY <2>1, <2>2, <2>3
<1> QED
  BY <1>4, <1>5, <1>7, <1>8

-----------------------------------------------------------------------------
(* In step with the decoder                                                *)

\* The decoder after the first n bytes.
DecoderAt(n) == Decode(SubSeq(input, 1, n))

\* The buffer is what the input ends with.
Suffix ==
  /\ Len(buffer) <= Len(input)
  /\ \A i \in 1..Len(buffer) : buffer[i] = input[Given + i]

\* The decoder that has seen the first k bytes of the buffer has kept these.
Agrees(k) ==
  LET d == DecoderAt(Given + k) IN
    d.long \/ (d.out = frames /\ d.rest = Front(k) /\ d.inside = in_frame)

\* It is so for none of the bytes, or after a header that was not one, which
\* the decoder has seen as far as its last byte.
InStep ==
  \E k \in 0..Len(buffer) :
    Agrees(k) /\ (IF config.type = "prefixed" THEN k < HeaderSize ELSE k = 0)

LEMMA FrontGrows ==
  ASSUME NEW S, NEW s \in Seq(S), NEW n \in 0..Len(s) - 1
  PROVE  /\ SubSeq(s, 1, n) \in Seq(S) /\ s[n + 1] \in S
         /\ SubSeq(s, 1, n + 1) = Append(SubSeq(s, 1, n), s[n + 1])
<1>1. /\ n \in 0..Len(s) /\ n + 1 \in 0..Len(s) /\ n + 1 \in 1..Len(s)
      /\ Len(s) \in Nat
  BY LenProperties
<1>2. /\ SubSeq(s, 1, n) \in Seq(S) /\ Len(SubSeq(s, 1, n)) = n
      /\ \A i \in 1..n : SubSeq(s, 1, n)[i] = s[i]
  BY <1>1, CutFront
<1>3. /\ SubSeq(s, 1, n + 1) \in Seq(S) /\ Len(SubSeq(s, 1, n + 1)) = n + 1
      /\ \A i \in 1..n + 1 : SubSeq(s, 1, n + 1)[i] = s[i]
  BY <1>1, CutFront
<1>4. s[n + 1] \in S
  BY <1>1, ElementOfSeq
<1> DEFINE f == SubSeq(s, 1, n)
           g == SubSeq(s, 1, n + 1)
           t == Append(f, s[n + 1])
<1>5. /\ t \in Seq(S) /\ Len(t) = n + 1
      /\ \A i \in 1..n : t[i] = f[i]
      /\ t[n + 1] = s[n + 1]
  BY <1>2, <1>4, AppendProperties
<1>6. \A i \in 1..n + 1 : g[i] = t[i]
  <2> SUFFICES ASSUME NEW i \in 1..n + 1 PROVE g[i] = t[i]
    OBVIOUS
  <2>1. g[i] = s[i]
    BY <1>3
  <2>2. CASE i \in 1..n
    <3>1. t[i] = f[i] /\ f[i] = s[i]
      BY <1>2, <1>5, <2>2
    <3> QED
      BY <2>1, <3>1
  <2>3. CASE i = n + 1
    BY <1>5, <2>1, <2>3
  <2> QED
    BY <1>1, <2>2, <2>3
<1>7. g = t
  <2> HIDE DEF g, t
  <2>1. g \in Seq(S) /\ t \in Seq(S) /\ Len(g) = Len(t) /\ Len(g) = n + 1
    BY <1>3, <1>5 DEF g
  <2> QED
    BY <1>6, <2>1, SeqEqual
<1> QED
  BY <1>2, <1>4, <1>7

LEMMA DecoderSteps ==
  ASSUME TypeInv, NEW n \in 0..Len(input) - 1
  PROVE  /\ DecoderAt(n) \in Decoder
         /\ DecoderAt(n + 1) = DecodeByte(DecoderAt(n), input[n + 1])
<1>1. config \in Configs /\ input \in Seq(Bytes)
  BY DEF TypeInv, TypeOK
<1>2. /\ SubSeq(input, 1, n) \in Seq(Bytes) /\ input[n + 1] \in Bytes
      /\ SubSeq(input, 1, n + 1) = Append(SubSeq(input, 1, n), input[n + 1])
  BY <1>1, FrontGrows
<1> QED
  BY <1>1, <1>2, DecodeAppend DEF DecoderAt

\* One byte of the buffer more.
LEMMA OneByte ==
  ASSUME TypeInv, Suffix, NEW j \in 0..Len(buffer) - 1, Agrees(j),
         NEW d, d = DecoderAt(Given + j), NEW b, b = buffer[j + 1]
  PROVE  /\ d \in Decoder /\ b \in Bytes
         /\ DecoderAt(Given + (j + 1)) = DecodeByte(d, b)
         /\ d.long => DecodeByte(d, b).long
         /\ ~d.long => /\ d.out = frames /\ d.inside = in_frame
                       /\ d.rest = Front(j)
                       /\ Append(d.rest, b) = Front(j + 1)
<1>1. /\ config \in Configs /\ buffer \in Seq(Bytes) /\ input \in Seq(Bytes)
      /\ Len(buffer) \in Nat /\ Len(input) \in Nat
  BY LenProperties DEF TypeInv, TypeOK
<1>2. /\ Given + j \in 0..Len(input) - 1 /\ j + 1 \in 1..Len(buffer)
      /\ (Given + j) + 1 = Given + (j + 1)
  BY <1>1 DEF Suffix, Given
<1>3. b = input[Given + (j + 1)] /\ b \in Bytes
  BY <1>1, <1>2, ElementOfSeq DEF Suffix
<1>4. d \in Decoder /\ DecoderAt(Given + (j + 1)) = DecodeByte(d, b)
  BY <1>2, <1>3, DecoderSteps
<1>5. d.long => DecodeByte(d, b).long
  BY <1>1, <1>3, <1>4, LongStays
<1>6. Front(j + 1) = Append(Front(j), b)
  BY <1>1, FrontGrows DEF Front
<1> QED
  BY <1>3, <1>4, <1>5, <1>6 DEF Agrees

\* The byte after the first j of the buffer ends nothing.
Quiet(j) ==
  /\ config.type = "fixed" => j + 1 # config.fixed_length
  /\ config.type = "delimited" => buffer[j + 1] # config.delimiter
  /\ (config.type = "prefixed" /\ HeaderSize <= j + 1) =>
       /\ ValidLength(FrameLength(buffer))
       /\ j + 1 < HeaderSize + FrameLength(buffer)
  /\ config.type = "marked" => buffer[j + 1] # Marker

\* As soon as there is a header the length in it is known.
LEMMA FrontAnnounces ==
  ASSUME TypeInv, NEW n \in 0..Len(buffer), HeaderSize <= n
  PROVE  Announced(Front(n)) = FrameLength(buffer)
<1>1. /\ config \in Configs /\ buffer \in Seq(Bytes)
      /\ Len(buffer) \in Nat /\ HeaderSize \in Nat
  BY LenProperties, ConfigTypes DEF TypeInv, TypeOK
<1>2. /\ Front(n) \in Seq(Bytes) /\ Len(Front(n)) = n
      /\ \A i \in 1..n : Front(n)[i] = buffer[i]
  BY <1>1, CutFront DEF Front
<1>3. Announced(Front(n)) = FrameLength(Front(n))
  BY <1>1, <1>2, ReadsWhatIsAnnounced
<1> DEFINE N == config.length_size
           o == config.length_offset
<1>4. N \in 0..8 /\ o \in Nat /\ HeaderSize = o + N
  BY <1>1, ConfigsAssumption DEF Config, HeaderSize
<1>5. /\ LengthField(Front(n)) \in Seq(Bytes)
      /\ Len(LengthField(Front(n))) = N
      /\ \A i \in 1..N : LengthField(Front(n))[i] = Front(n)[o + i]
  BY <1>1, <1>2, FieldBytes
<1>6. /\ LengthField(buffer) \in Seq(Bytes)
      /\ Len(LengthField(buffer)) = N
      /\ \A i \in 1..N : LengthField(buffer)[i] = buffer[o + i]
  BY <1>1, FieldBytes
<1>7. ASSUME NEW i \in 1..N PROVE LengthField(Front(n))[i] = LengthField(buffer)[i]
  <2>1. o + i \in 1..n
    <3> HIDE DEF o, N
    <3> QED
      BY <1>1, <1>4
  <2> QED
    BY <1>2, <1>5, <1>6, <2>1
<1>8. LengthField(Front(n)) = LengthField(buffer)
  <2> HIDE DEF N
  <2> QED
    BY <1>5, <1>6, <1>7, SeqEqual
<1> QED
  BY <1>3, <1>8 DEF FrameLength

LEMMA QuietByte ==
  ASSUME TypeInv, Suffix, NEW j \in 0..Len(buffer) - 1, Agrees(j), Quiet(j)
  PROVE  /\ Agrees(j + 1)
         /\ (config.type = "marked" /\ j + 1 > config.max_frame_length) =>
              DecoderAt(Given + (j + 1)).long
<1> DEFINE d == DecoderAt(Given + j)
           b == buffer[j + 1]
           e == DecoderAt(Given + (j + 1))
<1>1. /\ d \in Decoder /\ b \in Bytes /\ e = DecodeByte(d, b)
      /\ d.long => DecodeByte(d, b).long
      /\ ~d.long => /\ d.out = frames /\ d.inside = in_frame
                    /\ d.rest = Front(j)
                    /\ Append(d.rest, b) = Front(j + 1)
  BY OneByte
<1>2. CASE d.long
  BY <1>1, <1>2 DEF Agrees
<1>3. CASE ~d.long
  <2> DEFINE f == Front(j + 1)
  <2>1. /\ config \in Configs /\ buffer \in Seq(Bytes) /\ Len(buffer) \in Nat
        /\ j + 1 \in 0..Len(buffer) /\ HeaderSize \in Nat
    BY LenProperties, ConfigTypes DEF TypeInv, TypeOK
  <2>2. f \in Seq(Bytes) /\ Len(f) = j + 1
    BY <2>1, CutFront DEF Front
  <2>3. Append(d.rest, b) = f /\ d.out = frames /\ d.inside = in_frame
    BY <1>1, <1>3
  <2> HIDE DEF d, b, f
  <2>4. e = Keep(d, f)
    <3>1. CASE config.type = "fixed"
      BY <1>1, <2>2, <2>3, <3>1 DEF DecodeByte, DecodeFixed, Quiet
    <3>2. CASE config.type = "delimited"
      BY <1>1, <2>3, <3>2 DEF DecodeByte, DecodeDelimited, Quiet, b
    <3>3. CASE config.type = "prefixed"
      <4>1. e = DecodePrefixed(d, b)
        BY <1>1, <3>3 DEF DecodeByte
      <4>2. CASE j + 1 < HeaderSize
        BY <2>2, <2>3, <4>1, <4>2 DEF DecodePrefixed
      <4>3. CASE HeaderSize <= j + 1
        <5>1. Announced(f) = FrameLength(buffer)
          BY <2>1, <4>3, FrontAnnounces DEF f
        <5>2. ValidLength(Announced(f)) /\ j + 1 < HeaderSize + Announced(f)
          BY <3>3, <4>3, <5>1 DEF Quiet
        <5> QED
          BY <2>1, <2>2, <2>3, <4>1, <4>3, <5>2 DEF DecodePrefixed
      <4> QED
        BY <2>1, <4>2, <4>3
    <3>4. CASE config.type = "marked"
      BY <1>1, <2>3, <3>4 DEF DecodeByte, DecodeMarked, Quiet, Marker, b
    <3> QED
      BY <2>1, <3>1, <3>2, <3>3, <3>4, ConfigsAssumption DEF Config
  <2>5. /\ e.out = d.out /\ e.rest = f /\ e.inside = d.inside
        /\ (config.type = "marked" /\ Len(f) > config.max_frame_length) =>
             e.long
    <3>1. d \in Decoder
      BY <1>1
    <3> HIDE DEF e
    <3> QED
      BY <2>4, <3>1 DEF Keep, Decoder
  <2> QED
    BY <2>2, <2>3, <2>5 DEF Agrees, f
<1> QED
  BY <1>2, <1>3

LEMMA QuietBytes ==
  ASSUME TypeInv, Suffix, NEW k \in 0..Len(buffer), NEW m \in k..Len(buffer),
         Agrees(k), \A j \in k..m - 1 : Quiet(j)
  PROVE  Agrees(m)
<1> DEFINE T == {j \in k..m : Agrees(j)}
<1>0. Len(buffer) \in Nat
  BY LenProperties DEF TypeInv, TypeOK
<1>1. k \in Nat /\ m \in Nat /\ k \in T /\ m \in k..m
  BY <1>0
<1>2. ASSUME NEW j \in k..m, j \in T, j < m PROVE j + 1 \in T
  <2>1. /\ j \in 0..Len(buffer) - 1 /\ j \in k..m - 1 /\ j + 1 \in k..m
    BY <1>0, <1>2
  <2>2. Agrees(j + 1)
    BY <1>2, <2>1, QuietByte
  <2> QED
    BY <2>1, <2>2
<1>3. k..m \subseteq T
  <2> HIDE DEF T
  <2> QED
    BY <1>1, <1>2, FromTo
<1> QED
  BY <1>1, <1>3

LEMMA DecodeUnchanged ==
  ASSUME config' = config, NEW s
  PROVE  Decode(s)' = Decode(s)
BY SMT DEF Decode, DecodeByte, DecodeFixed, DecodeDelimited, DecodePrefixed,
   DecodeMarked, Emit, Keep, HeaderSize, ValidLength, Announced, ByteOf

\* Agreement after a step, of which the decoder knows nothing.
LEMMA AgreesNext ==
  ASSUME config' = config, NEW k, NEW d,
         d = Decode(SubSeq(input', 1, Given' + k)),
         d.long \/ (d.out = frames' /\ d.rest = SubSeq(buffer', 1, k)
                    /\ d.inside = in_frame')
  PROVE  Agrees(k)'
<1>1. DecoderAt(Given + k)' = d
  BY DecodeUnchanged DEF DecoderAt
<1> QED
  BY <1>1 DEF Agrees, Front

LEMMA SuffixCut ==
  ASSUME TypeInv, Suffix, NEW n \in 0..Len(buffer),
         buffer' = Without(n), input' = input
  PROVE  /\ Suffix' /\ Given' = Given + n
         /\ buffer' \in Seq(Bytes) /\ Len(buffer') = Len(buffer) - n
         /\ \A i \in 1..Len(buffer) - n : buffer'[i] = buffer[n + i]
<1>1. /\ buffer \in Seq(Bytes) /\ Len(buffer) \in Nat /\ Len(input) \in Nat
      /\ Len(buffer) <= Len(input)
  BY LenProperties DEF TypeInv, TypeOK, Suffix
<1>2. buffer' \in Seq(Bytes) /\ Len(buffer') = Len(buffer) - n
  BY <1>1, CutRest DEF Without
<1>3. ASSUME NEW i \in 1..Len(buffer) - n PROVE buffer'[i] = buffer[n + i]
  <2>1. \A k \in n + 1..Len(buffer) : buffer[k] \in Bytes
    BY <1>1, ElementOfSeq
  <2>2. n + 1 \in Int /\ i \in 1..Len(buffer) - (n + 1) + 1
        /\ (n + 1) + i - 1 = n + i
    BY <1>1
  <2>3. SubSeq(buffer, n + 1, Len(buffer))[i] = buffer[(n + 1) + i - 1]
    BY <1>1, <2>1, <2>2, SubSeqProperties
  <2> QED
    BY <2>2, <2>3 DEF Without
<1>4. Given' = Given + n
  BY <1>1, <1>2 DEF Given
<1>5. ASSUME NEW i \in 1..Len(buffer') PROVE buffer'[i] = input'[Given' + i]
  <2>1. i \in 1..Len(buffer) - n /\ n + i \in 1..Len(buffer)
        /\ Given + (n + i) = (Given + n) + i
    BY <1>1, <1>2 DEF Given
  <2>2. buffer'[i] = buffer[n + i] /\ buffer[n + i] = input[Given + (n + i)]
    BY <1>3, <2>1 DEF Suffix
  <2> QED
    BY <1>4, <2>1, <2>2
<1> QED
  BY <1>1, <1>2, <1>3, <1>4, <1>5 DEF Suffix

\* After the n-th byte of the buffer the decoder has kept nothing.
LEMMA Restart ==
  ASSUME TypeInv, Suffix, NEW n \in 0..Len(buffer), NEW e,
         buffer' = Without(n), input' = input, config' = config,
         e = DecoderAt(Given + n),
         e.long \/ (e.out = frames' /\ e.rest = <<>> /\ e.inside = in_frame')
  PROVE  Suffix' /\ InStep'
<1>1. /\ Suffix' /\ Given' = Given + n /\ buffer' \in Seq(Bytes)
  BY SuffixCut
<1>2. SubSeq(buffer', 1, 0) = <<>>
  BY SubSeqEmpty
<1>3. Given' + 0 = Given + n
  BY <1>1, LenProperties DEF Given, TypeInv, TypeOK
<1>4. e = Decode(SubSeq(input', 1, Given' + 0))
  BY <1>3 DEF DecoderAt
<1>5. Agrees(0)'
  BY <1>2, <1>4, AgreesNext
<1>6. 0 \in 0..Len(buffer')
  BY <1>1, LenProperties
<1>7. HeaderSize \in Nat \ {0} /\ HeaderSize' = HeaderSize
  BY ConfigTypes DEF TypeInv, TypeOK, HeaderSize
<1> QED
  BY <1>1, <1>5, <1>6, <1>7 DEF InStep

\* A step that leaves the buffer as it is, or adds to it.
LEMMA Longer ==
  ASSUME TypeInv, Suffix, InStep, NEW chunk \in Seq(Bytes),
         buffer' = buffer \o chunk, input' = input \o chunk,
         UNCHANGED <<config, frames, in_frame>>
  PROVE  Suffix' /\ InStep'
<1>1. /\ buffer \in Seq(Bytes) /\ input \in Seq(Bytes)
      /\ Len(buffer) \in Nat /\ Len(input) \in Nat /\ Len(chunk) \in Nat
      /\ Len(buffer) <= Len(input)
  BY LenProperties DEF TypeInv, TypeOK, Suffix
<1>2. /\ buffer' \in Seq(Bytes) /\ Len(buffer') = Len(buffer) + Len(chunk)
      /\ \A i \in 1..Len(buffer) + Len(chunk) :
           buffer'[i] = IF i <= Len(buffer) THEN buffer[i]
                        ELSE chunk[i - Len(buffer)]
  BY <1>1, ConcatProperties
<1>3. /\ input' \in Seq(Bytes) /\ Len(input') = Len(input) + Len(chunk)
      /\ \A i \in 1..Len(input) + Len(chunk) :
           input'[i] = IF i <= Len(input) THEN input[i]
                       ELSE chunk[i - Len(input)]
  BY <1>1, ConcatProperties
<1>4. Given' = Given
  BY <1>1, <1>2, <1>3 DEF Given
<1>5. Suffix'
  <2>1. ASSUME NEW i \in 1..Len(buffer') PROVE buffer'[i] = input'[Given' + i]
    <3>1. i \in 1..Len(buffer) + Len(chunk)
          /\ Given + i \in 1..Len(input) + Len(chunk)
          /\ (i <= Len(buffer) <=> Given + i <= Len(input))
          /\ (Given + i) - Len(input) = i - Len(buffer)
      BY <1>1, <1>2 DEF Given
    <3>2. buffer'[i] = IF i <= Len(buffer) THEN buffer[i]
                       ELSE chunk[i - Len(buffer)]
      BY <1>2, <3>1
    <3>3. input'[Given + i] = IF Given + i <= Len(input) THEN input[Given + i]
                              ELSE chunk[(Given + i) - Len(input)]
      BY <1>3, <3>1
    <3>4. i <= Len(buffer) => buffer[i] = input[Given + i]
      BY DEF Suffix
    <3> QED
      BY <1>4, <3>1, <3>2, <3>3, <3>4
  <2>2. Len(buffer') <= Len(input')
    BY <1>1, <1>2, <1>3
  <2> QED
    BY <2>1, <2>2 DEF Suffix
<1>6. PICK k \in 0..Len(buffer) :
        Agrees(k) /\ (IF config.type = "prefixed" THEN k < HeaderSize ELSE k = 0)
  BY DEF InStep
<1>7. ASSUME NEW S, NEW s \in Seq(S), NEW t \in Seq(S), NEW n \in 0..Len(s)
      PROVE  SubSeq(s \o t, 1, n) = SubSeq(s, 1, n)
  <2>1. CASE n = 0
    BY <2>1, SubSeqEmpty
  <2>2. CASE n # 0
    <3>1. 1 \in 1..Len(s) /\ n \in 1..Len(s)
      BY <2>2, LenProperties
    <3> QED
      BY <3>1, SubSeqOfConcat1
  <2> QED
    BY <2>1, <2>2
<1>8. SubSeq(buffer', 1, k) = Front(k)
  BY <1>1, <1>7 DEF Front
<1>9. SubSeq(input', 1, Given' + k) = SubSeq(input, 1, Given + k)
  <2>1. Given + k \in 0..Len(input)
    BY <1>1 DEF Given
  <2> QED
    BY <1>1, <1>4, <1>7, <2>1
<1>10. Agrees(k)'
  BY <1>6, <1>8, <1>9, AgreesNext DEF Agrees, DecoderAt
<1>11. HeaderSize' = HeaderSize /\ k \in 0..Len(buffer')
  BY <1>1, <1>2 DEF HeaderSize
<1> QED
  BY <1>5, <1>6, <1>10, <1>11 DEF InStep

\* A step that ends a frame, or begins one, at the byte after the first j.
LEMMA FrameEnds ==
  ASSUME TypeInv, Suffix, config' = config, input' = input,
         NEW j \in 0..Len(buffer) - 1, Agrees(j), NEW f \in Seq(Bytes),
         buffer' = Without(j + 1),
         frames' = Append(frames, f), in_frame' = FALSE,
         ASSUME NEW d \in Decoder, NEW b, b = buffer[j + 1],
                d.out = frames, d.inside = in_frame, d.rest = Front(j),
                Append(d.rest, b) = Front(j + 1)
         PROVE  DecodeByte(d, b) = Emit(d, f)
  PROVE  Suffix' /\ InStep'
<1> DEFINE d == DecoderAt(Given + j)
           b == buffer[j + 1]
           e == DecoderAt(Given + (j + 1))
<1>1. /\ d \in Decoder /\ b \in Bytes /\ e = DecodeByte(d, b)
      /\ d.long => DecodeByte(d, b).long
      /\ ~d.long => /\ d.out = frames /\ d.inside = in_frame
                    /\ d.rest = Front(j)
                    /\ Append(d.rest, b) = Front(j + 1)
  BY OneByte
<1>2. e.long \/ (e.out = frames' /\ e.rest = <<>> /\ e.inside = in_frame')
  <2>1. CASE d.long
    BY <1>1, <2>1
  <2>2. CASE ~d.long
    <3>1. e = Emit(d, f)
      BY <1>1, <2>2
    <3>2. d.out = frames
      BY <1>1, <2>2
    <3>3. d \in Decoder
      BY <1>1
    <3> HIDE DEF d, e
    <3> QED
      BY <3>1, <3>2, <3>3 DEF Emit, Decoder
  <2> QED
    BY <2>1, <2>2
<1>3. j + 1 \in 0..Len(buffer)
  BY LenProperties DEF TypeInv, TypeOK
<1> HIDE DEF e
<1> QED
  BY <1>2, <1>3, Restart DEF e

LEMMA FixedInStep ==
  ASSUME TypeInv, Suffix, InStep, FixedFrame, config' = config
  PROVE  Suffix' /\ InStep'
<1> DEFINE n == config.fixed_length
           j == n - 1
<1>1. /\ config.type = "fixed" /\ n # 0 /\ Len(buffer) >= n
      /\ frames' = Append(frames, Front(n)) /\ buffer' = Without(n)
      /\ in_frame' = in_frame /\ input' = input
  BY DEF FixedFrame, Scanning
<1>2. /\ config \in Configs /\ buffer \in Seq(Bytes) /\ Len(buffer) \in Nat
      /\ n \in Nat /\ in_frame = FALSE
  BY <1>1, LenProperties, ConfigTypes DEF TypeInv, TypeOK
<1>3. /\ n \in 0..Len(buffer) /\ j \in 0..Len(buffer) - 1 /\ j + 1 = n
      /\ j \in 0..Len(buffer) /\ 0 \in 0..Len(buffer)
  <2>1. n \in Nat /\ n # 0 /\ Len(buffer) \in Nat /\ Len(buffer) >= n
    BY <1>1, <1>2
  <2> HIDE DEF n
  <2> QED
    BY <2>1
<1>4. Agrees(0)
  BY <1>1 DEF InStep
<1>5. Agrees(j)
  <2>1. ASSUME NEW i \in 0..j - 1 PROVE Quiet(i)
    BY <1>1, <1>2, <2>1 DEF Quiet
  <2> HIDE DEF j
  <2> QED
    BY <1>3, <1>4, <2>1, QuietBytes
<1>6. Front(n) \in Seq(Bytes) /\ Len(Front(n)) = n
  BY <1>2, <1>3, CutFront DEF Front
<1>7. ASSUME NEW d \in Decoder, NEW b, b = buffer[j + 1],
             d.out = frames, d.inside = in_frame, d.rest = Front(j),
             Append(d.rest, b) = Front(j + 1)
      PROVE  DecodeByte(d, b) = Emit(d, Front(n))
  BY <1>1, <1>3, <1>6, <1>7 DEF DecodeByte, DecodeFixed
<1> HIDE DEF j
<1> QED
  BY <1>1, <1>2, <1>3, <1>5, <1>6, <1>7, FrameEnds

LEMMA ScannedInStep ==
  ASSUME TypeInv, Suffix, InStep, Scanned, config' = config,
         DelimitedFrame \/ MarkedFrame
  PROVE  Suffix' /\ InStep'
<1>1. /\ config.type \in {"delimited", "marked"} /\ pc = "scan"
      /\ pos < Len(buffer)
      /\ config.type = "delimited" => buffer[pos + 1] = config.delimiter
      /\ config.type = "marked" => in_frame /\ buffer[pos + 1] = config.end_marker
      /\ frames' = Append(frames, Front(pos)) /\ buffer' = Without(pos + 1)
      /\ input' = input
  BY DEF DelimitedFrame, MarkedFrame, Scanning
<1>2. in_frame' = FALSE
  BY DEF DelimitedFrame, MarkedFrame, Scanning, TypeInv, TypeOK
<1>3. /\ config \in Configs /\ buffer \in Seq(Bytes) /\ Len(buffer) \in Nat
      /\ pos \in 0..Len(buffer) /\ pos \in 0..Len(buffer) - 1
      /\ 0 \in 0..Len(buffer)
  BY <1>1, LenProperties DEF TypeInv, TypeOK
<1>4. Agrees(0)
  BY <1>1 DEF InStep
<1>5. Agrees(pos)
  <2>1. ASSUME NEW i \in 0..pos - 1 PROVE Quiet(i)
    <3>1. i + 1 \in 1..pos
      BY <1>3
    <3> QED
      BY <1>1, <3>1 DEF Quiet, Scanned
  <2> QED
    BY <1>3, <1>4, <2>1, QuietBytes
<1>6. Front(pos) \in Seq(Bytes)
  BY <1>3, CutFront DEF Front
<1>7. ASSUME NEW d \in Decoder, NEW b, b = buffer[pos + 1],
             d.out = frames, d.inside = in_frame, d.rest = Front(pos),
             Append(d.rest, b) = Front(pos + 1)
      PROVE  DecodeByte(d, b) = Emit(d, Front(pos))
  BY <1>1, <1>7 DEF DecodeByte, DecodeDelimited, DecodeMarked
<1> QED
  BY <1>1, <1>2, <1>3, <1>5, <1>6, <1>7, FrameEnds

\* The start marker: what came before it is no frame.
LEMMA StartInStep ==
  ASSUME TypeInv, Suffix, InStep, Scanned, config' = config, MarkedStart
  PROVE  Suffix' /\ InStep'
<1>1. /\ config.type = "marked" /\ pc = "scan" /\ pos < Len(buffer)
      /\ in_frame = FALSE /\ buffer[pos + 1] = config.start_marker
      /\ in_frame' = TRUE /\ buffer' = Without(pos + 1)
      /\ frames' = frames /\ input' = input
  BY DEF MarkedStart, Scanning, TypeInv, TypeOK
<1>2. /\ Len(buffer) \in Nat /\ 0 \in 0..Len(buffer)
      /\ pos \in 0..Len(buffer) /\ pos \in 0..Len(buffer) - 1
      /\ pos + 1 \in 0..Len(buffer)
  BY <1>1, LenProperties DEF TypeInv, TypeOK
<1>3. Agrees(0)
  BY <1>1 DEF InStep
<1>4. Agrees(pos)
  <2>1. ASSUME NEW i \in 0..pos - 1 PROVE Quiet(i)
    <3>1. i + 1 \in 1..pos
      BY <1>2
    <3> QED
      BY <1>1, <3>1 DEF Quiet, Scanned
  <2> QED
    BY <1>2, <1>3, <2>1, QuietBytes
<1> DEFINE d == DecoderAt(Given + pos)
           b == buffer[pos + 1]
           e == DecoderAt(Given + (pos + 1))
<1>5. /\ d \in Decoder /\ e = DecodeByte(d, b)
      /\ d.long => DecodeByte(d, b).long
      /\ ~d.long => d.out = frames /\ d.inside = in_frame
  BY <1>2, <1>4, OneByte
<1>6. e.long \/ (e.out = frames' /\ e.rest = <<>> /\ e.inside = in_frame')
  <2>1. CASE d.long
    BY <1>5, <2>1
  <2>2. CASE ~d.long
    <3>1. b = config.start_marker
      BY <1>1
    <3> HIDE DEF d, b, e
    <3>2. e = [d EXCEPT !.rest = <<>>, !.inside = TRUE]
      BY <1>1, <1>5, <2>2, <3>1 DEF DecodeByte, DecodeMarked
    <3> QED
      BY <1>1, <1>5, <2>2, <3>2 DEF Decoder
  <2> QED
    BY <2>1, <2>2
<1> HIDE DEF e
<1> QED
  BY <1>1, <1>2, <1>6, Restart DEF e

LEMMA PrefixedInStep ==
  ASSUME TypeInv, Suffix, InStep, PrefixedFrame, config' = config
  PROVE  Suffix' /\ InStep'
<1> DEFINE n == FrameLength(buffer)
           m == HeaderSize + n
           j == m - 1
           f == SubSeq(buffer, HeaderSize + 1, m)
<1>1. /\ config.type = "prefixed" /\ ValidLength(n) /\ Len(buffer) >= m
      /\ frames' = Append(frames, f) /\ buffer' = Without(m)
      /\ in_frame' = in_frame /\ input' = input
  BY DEF PrefixedFrame, Scanning
<1>2. /\ config \in Configs /\ buffer \in Seq(Bytes) /\ Len(buffer) \in Nat
      /\ HeaderSize \in Nat \ {0} /\ config.max_frame_length \in Nat
      /\ in_frame = FALSE
  BY <1>1, LenProperties, ConfigTypes DEF TypeInv, TypeOK
<1>3. n \in Nat \ {0}
  BY <1>1, <1>2 DEF ValidLength
<1> HIDE DEF n
<1>4. /\ m \in 0..Len(buffer) /\ j \in 0..Len(buffer) - 1 /\ j + 1 = m
      /\ j \in 0..Len(buffer) /\ HeaderSize <= j /\ HeaderSize <= m
  BY <1>1, <1>2, <1>3
<1>5. PICK k \in 0..Len(buffer) : Agrees(k) /\ k < HeaderSize
  BY <1>1 DEF InStep
<1>6. Agrees(j)
  <2>1. ASSUME NEW i \in k..j - 1 PROVE Quiet(i)
    <3>1. i + 1 < HeaderSize + n
      BY <1>2, <1>3, <1>4
    <3> QED
      BY <1>1, <3>1 DEF Quiet, n
  <2>2. j \in k..Len(buffer)
    BY <1>2, <1>4, <1>5
  <2> HIDE DEF j
  <2> QED
    BY <1>5, <2>1, <2>2, QuietBytes
<1>7. f \in Seq(Bytes)
  BY <1>1, <1>2, <1>3, CutMiddle
<1>8. ASSUME NEW d \in Decoder, NEW b, b = buffer[j + 1],
             d.out = frames, d.inside = in_frame, d.rest = Front(j),
             Append(d.rest, b) = Front(j + 1)
      PROVE  DecodeByte(d, b) = Emit(d, f)
  <2> DEFINE s == Append(d.rest, b)
  <2>1. s = Front(m)
    BY <1>4, <1>8
  <2>2. /\ s \in Seq(Bytes) /\ Len(s) = m
        /\ \A i \in 1..m : s[i] = buffer[i]
    BY <1>2, <1>4, <2>1, CutFront DEF Front
  <2>3. Announced(s) = n
    BY <1>4, <2>1, FrontAnnounces DEF n
  <2> HIDE DEF s
  <2>4. DecodePrefixed(d, b) = Emit(d, SubSeq(s, HeaderSize + 1, Len(s)))
    BY <1>1, <1>2, <1>3, <1>4, <2>2, <2>3 DEF DecodePrefixed, s
  <2>5. SubSeq(s, HeaderSize + 1, m) = f
    <3> DEFINE t == SubSeq(s, HeaderSize + 1, m)
    <3>1. /\ \A i \in HeaderSize + 1..m : s[i] \in Bytes
          /\ \A i \in HeaderSize + 1..m : buffer[i] \in Bytes
          /\ HeaderSize + 1 \in Int /\ m \in Int
      <4>1. \A i \in HeaderSize + 1..m : i \in 1..m /\ i \in 1..Len(buffer)
        BY <1>2, <1>4
      <4> QED
        BY <1>2, <1>4, <2>2, <4>1, ElementOfSeq
    <3>2. /\ t \in Seq(Bytes) /\ Len(t) = Len(f)
          /\ \A i \in 1..m - (HeaderSize + 1) + 1 :
               t[i] = s[HeaderSize + 1 + i - 1]
          /\ \A i \in 1..m - (HeaderSize + 1) + 1 :
               f[i] = buffer[HeaderSize + 1 + i - 1]
      <4> HIDE DEF m
      <4> QED
        BY <3>1, SubSeqProperties
    <3>3. Len(f) = m - (HeaderSize + 1) + 1
      <4>1. HeaderSize + 1 <= m
        BY <1>2, <1>3
      <4> HIDE DEF m
      <4> QED
        BY <3>1, <4>1, SubSeqProperties
    <3>4. ASSUME NEW i \in 1..Len(t) PROVE t[i] = f[i]
      <4>1. /\ i \in 1..m - (HeaderSize + 1) + 1
            /\ HeaderSize + 1 + i - 1 \in 1..m
        BY <1>2, <1>3, <3>2, <3>3
      <4> HIDE DEF t, f, m
      <4> QED
        BY <2>2, <3>2, <4>1
    <3> HIDE DEF t, f
    <3>5. t = f
      BY <1>7, <3>2, <3>4, SeqEqual
    <3> QED
      BY <3>5 DEF t
  <2> QED
    BY <1>1, <2>2, <2>4, <2>5 DEF DecodeByte
<1>9. buffer' = Without(j + 1)
  BY <1>1, <1>4
<1> HIDE DEF j, f, m
<1> QED
  BY <1>1, <1>2, <1>4, <1>6, <1>7, <1>8, <1>9, FrameEnds

\* No header: the decoder has dropped the first byte, too, and has the others.
LEMMA ResyncInStep ==
  ASSUME TypeInv, Suffix, InStep, PrefixedResync, config' = config
  PROVE  Suffix' /\ InStep'
<1> DEFINE H == HeaderSize
           j == H - 1
           d == DecoderAt(Given + j)
           b == buffer[j + 1]
           e == DecoderAt(Given + (j + 1))
<1>1. /\ config.type = "prefixed" /\ Len(buffer) >= H
      /\ ~ValidLength(FrameLength(buffer))
      /\ buffer' = Without(1) /\ UNCHANGED <<frames, in_frame, input>>
  BY DEF PrefixedResync, Scanning
<1>2. /\ config \in Configs /\ buffer \in Seq(Bytes) /\ Len(buffer) \in Nat
      /\ H \in Nat \ {0}
  BY LenProperties, ConfigTypes DEF TypeInv, TypeOK
<1>3. PICK k \in 0..Len(buffer) : Agrees(k) /\ k < H
  BY <1>1 DEF InStep
<1>4. /\ j \in 0..Len(buffer) - 1 /\ j + 1 = H /\ j \in k..Len(buffer)
      /\ H \in 0..Len(buffer) /\ H \in 1..Len(buffer) /\ 1 \in 0..Len(buffer)
      /\ 1 \in 1..Len(buffer)
  BY <1>1, <1>2, <1>3
<1>5. Agrees(j)
  <2>1. ASSUME NEW i \in k..j - 1 PROVE Quiet(i)
    BY <1>1, <1>2 DEF Quiet
  <2> HIDE DEF j
  <2> QED
    BY <1>3, <1>4, <2>1, QuietBytes
<1>6. /\ d \in Decoder /\ e = DecodeByte(d, b)
      /\ d.long => DecodeByte(d, b).long
      /\ ~d.long => /\ d.out = frames /\ d.inside = in_frame
                    /\ Append(d.rest, b) = Front(j + 1)
  BY <1>4, <1>5, OneByte
<1>7. SubSeq(buffer', 1, j) = Tail(Front(H))
  <2>1. Tail(Front(H)) = SubSeq(buffer, 2, H)
    BY <1>2, <1>4, HeadTailOfSubSeq DEF Front
  <2>2. CASE j = 0
    <3>1. H = 1
      BY <1>4, <2>2
    <3> QED
      BY <2>1, <2>2, <3>1, SubSeqEmpty
  <2>3. CASE j # 0
    <3>1. /\ 2 \in 1..Len(buffer) /\ Len(buffer) \in 1..Len(buffer)
          /\ 1 \in 1..Len(buffer) - 2 + 1 /\ j \in 1..Len(buffer) - 2 + 1
          /\ 2 + 1 - 1 = 2 /\ 2 + j - 1 = H
      BY <1>2, <1>4, <2>3
    <3>2. SubSeq(SubSeq(buffer, 2, Len(buffer)), 1, j)
            = SubSeq(buffer, 2 + 1 - 1, 2 + j - 1)
      <4> HIDE DEF j
      <4> QED
        BY <1>2, <3>1, SubSeqOfSubSeq
    <3>3. buffer' = SubSeq(buffer, 2, Len(buffer))
      BY <1>1 DEF Without
    <3> QED
      BY <2>1, <3>1, <3>2, <3>3
  <2> QED
    BY <2>2, <2>3
<1>8. e.long \/ (e.out = frames' /\ e.rest = SubSeq(buffer', 1, j)
                 /\ e.inside = in_frame')
  <2>1. CASE d.long
    BY <1>6, <2>1
  <2>2. CASE ~d.long
    <3>1. Append(d.rest, b) = Front(H)
      BY <1>4, <1>6, <2>2
    <3>2. Front(H) \in Seq(Bytes) /\ Len(Front(H)) = H
      BY <1>2, <1>4, CutFront DEF Front
    <3>3. Announced(Front(H)) = FrameLength(buffer)
      BY <1>2, <1>4, FrontAnnounces
    <3>4. e = DecodePrefixed(d, b)
      BY <1>1, <1>6 DEF DecodeByte
    <3>5. DecodePrefixed(d, b) = Keep(d, Tail(Front(H)))
      <4> DEFINE f == Front(H)
      <4>1. /\ Append(d.rest, b) = f /\ Len(f) = HeaderSize
            /\ Announced(f) = FrameLength(buffer)
        BY <3>1, <3>2, <3>3
      <4>2. ~(Len(f) < HeaderSize)
        BY <1>2, <4>1
      <4> HIDE DEF d, b, f
      <4>3. DecodePrefixed(d, b) = Keep(d, Tail(f))
        BY <1>1, <4>1, <4>2 DEF DecodePrefixed
      <4> QED
        BY <4>3 DEF f
    <3> DEFINE t == Tail(Front(H))
    <3>6. e = Keep(d, t) /\ d \in Decoder /\ d.out = frames
          /\ d.inside = in_frame
      BY <1>6, <2>2, <3>4, <3>5
    <3> HIDE DEF t, d, e
    <3>7. e.out = d.out /\ e.rest = t /\ e.inside = d.inside
      BY <3>6 DEF Keep, Decoder
    <3> QED
      BY <1>1, <1>7, <3>6, <3>7 DEF t
  <2> QED
    BY <2>1, <2>2
<1>9. /\ Suffix' /\ Given' = Given + 1 /\ Len(buffer') = Len(buffer) - 1
  BY <1>1, <1>4, SuffixCut
<1>10. Given' + j = Given + (j + 1)
  <2>1. Given \in Int
    BY LenProperties DEF Given, TypeInv, TypeOK
  <2> HIDE DEF H
  <2> QED
    BY <1>2, <1>9, <2>1
<1>11. ASSUME NEW k1, k1 = j PROVE Agrees(k1)'
  <2>1. e = Decode(SubSeq(input', 1, Given' + k1))
    BY <1>1, <1>10, <1>11 DEF DecoderAt
  <2>2. e.long \/ (e.out = frames' /\ e.rest = SubSeq(buffer', 1, k1)
                   /\ e.inside = in_frame')
    BY <1>8, <1>11
  <2> HIDE DEF e, j
  <2> QED
    BY <2>1, <2>2, AgreesNext
<1>12. ASSUME NEW k1, k1 = j PROVE k1 \in 0..Len(buffer') /\ k1 < HeaderSize'
  <2>1. HeaderSize' = H
    BY DEF HeaderSize
  <2> HIDE DEF H
  <2> QED
    BY <1>2, <1>4, <1>9, <1>12, <2>1
<1>13. \E k1 : k1 = j
  OBVIOUS
<1> HIDE DEF j
<1> QED
  BY <1>1, <1>9, <1>11, <1>12, <1>13 DEF InStep

\* What is too long is given up: the decoder has marked it.
LEMMA GivenUpInStep ==
  ASSUME TypeInv, Suffix, InStep, Scanned, MarkedEnd, config' = config,
         Len(buffer) > config.max_frame_length
  PROVE  Suffix' /\ InStep'
<1> DEFINE n == Len(buffer)
           j == n - 1
<1>1. /\ config.type = "marked" /\ pc = "scan" /\ pos >= n
      /\ buffer' = <<>> /\ in_frame' = FALSE /\ UNCHANGED <<frames, input>>
  BY DEF MarkedEnd, Scanning
<1>2. /\ buffer \in Seq(Bytes) /\ n \in Nat /\ config.max_frame_length \in Nat
      /\ pos \in 0..n
  BY LenProperties, ConfigTypes DEF TypeInv, TypeOK
<1>3. /\ pos = n /\ j \in 0..n - 1 /\ j + 1 = n /\ 0 \in 0..n /\ j \in 0..n
      /\ n \in 0..n /\ j + 1 \in 1..pos
  BY <1>1, <1>2
<1>4. Agrees(0)
  BY <1>1 DEF InStep
<1>5. ASSUME NEW i \in 0..n - 1 PROVE Quiet(i)
  <2>1. i + 1 \in 1..pos
    BY <1>2, <1>3
  <2> QED
    BY <1>1, <2>1 DEF Quiet, Scanned
<1>6. Agrees(j)
  <2>1. ASSUME NEW i \in 0..j - 1 PROVE Quiet(i)
    <3>1. i \in 0..n - 1
      BY <1>2
    <3> QED
      BY <1>5, <3>1
  <2> HIDE DEF j
  <2> QED
    BY <1>3, <1>4, <2>1, QuietBytes
<1>7. DecoderAt(Given + n).long
  <2>1. Quiet(j) /\ j + 1 > config.max_frame_length
    BY <1>3, <1>5
  <2> HIDE DEF j
  <2> QED
    BY <1>1, <1>3, <1>6, <2>1, QuietByte
<1>8. buffer' = Without(n)
  BY <1>1, <1>2, SubSeqEmpty DEF Without
<1> DEFINE e == DecoderAt(Given + n)
<1> HIDE DEF e
<1> QED
  BY <1>1, <1>3, <1>7, <1>8, Restart DEF e

LEMMA InStepStep ==
  ASSUME TypeInv, Scanned, Suffix, InStep, [Next]_vars
  PROVE  Suffix' /\ InStep'
<1>1. config' = config
  BY DEF Next, Call, Process, vars
<1>2. /\ config \in Configs /\ buffer \in Seq(Bytes) /\ input \in Seq(Bytes)
  BY DEF TypeInv, TypeOK
<1>3. ASSUME UNCHANGED <<config, buffer, frames, in_frame, input>>
      PROVE  Suffix' /\ InStep'
  <2>1. /\ <<>> \in Seq(Bytes) /\ buffer' = buffer \o <<>>
        /\ input' = input \o <<>>
    BY <1>2, <1>3, ConcatEmptySeq, EmptySeq
  <2> QED
    BY <1>3, <2>1, Longer
<1>4. CASE Reset
  <2>1. /\ buffer' = <<>> /\ input' = <<>> /\ frames' = <<>>
        /\ in_frame' = FALSE
    BY <1>4 DEF Reset
  <2>2. Suffix' /\ Given' = 0
    BY <2>1, EmptySeq DEF Suffix, Given
  <2>3. SubSeq(input', 1, Given' + 0) = <<>> /\ SubSeq(buffer', 1, 0) = <<>>
    BY <2>2, SubSeqEmpty
  <2>4. Decode(<<>>) = NewDecoder
    BY <1>2, DecodeNothing
  <2>5. Agrees(0)'
    <3>1. /\ NewDecoder.out = frames' /\ NewDecoder.inside = in_frame'
          /\ NewDecoder.rest = SubSeq(buffer', 1, 0)
      BY <2>1, <2>3 DEF NewDecoder
    <3>2. NewDecoder = Decode(SubSeq(input', 1, Given' + 0))
      BY <2>3, <2>4
    <3> QED
      BY <1>1, <3>1, <3>2, AgreesNext
  <2>6. 0 \in 0..Len(buffer') /\ 0 < HeaderSize'
    BY <1>1, <1>2, <2>1, EmptySeq, ConfigTypes DEF HeaderSize
  <2> QED
    BY <2>2, <2>5, <2>6 DEF InStep
<1>5. ASSUME NEW chunk \in Chunks, Feed(chunk) PROVE Suffix' /\ InStep'
  <2>1. chunk \in Seq(Bytes)
    BY BoundsAssumption DEF Chunks
  <2> QED
    BY <1>1, <1>5, <2>1, Longer DEF Feed
<1>6. CASE FixedEnd \/ DelimitedSkip \/ DelimitedEnd \/ PrefixedEnd \/ MarkedSkip
           \/ UNCHANGED vars
  BY <1>1, <1>3, <1>6 DEF FixedEnd, DelimitedSkip, DelimitedEnd, PrefixedEnd,
     MarkedSkip, vars
<1>7. CASE MarkedEnd
  <2>1. CASE Len(buffer) > config.max_frame_length
    BY <1>1, <1>7, <2>1, GivenUpInStep
  <2>2. CASE ~(Len(buffer) > config.max_frame_length)
    BY <1>1, <1>3, <1>7, <2>2 DEF MarkedEnd
  <2> QED
    BY <2>1, <2>2
<1> QED
  BY <1>1, <1>4, <1>5, <1>6, <1>7, FixedInStep, ScannedInStep, StartInStep,
     PrefixedInStep, ResyncInStep DEF Next, Call, Process

LEMMA InStepInit ==
  ASSUME Init
  PROVE  Suffix /\ InStep
<1>1. /\ config \in Configs /\ buffer = <<>> /\ frames = <<>>
      /\ in_frame = FALSE /\ input = <<>>
  BY DEF Init
<1>2. Suffix /\ Given = 0 /\ 0 \in 0..Len(buffer)
  BY <1>1, EmptySeq DEF Suffix, Given
<1>3. DecoderAt(Given + 0) = NewDecoder /\ Front(0) = <<>>
  <2>1. SubSeq(input, 1, Given + 0) = <<>> /\ SubSeq(buffer, 1, 0) = <<>>
    BY <1>2, SubSeqEmpty
  <2> QED
    BY <1>1, <2>1, DecodeNothing DEF DecoderAt, Front
<1>4. Agrees(0)
  <2>1. /\ NewDecoder.out = frames /\ NewDecoder.inside = in_frame
        /\ NewDecoder.rest = Front(0)
    BY <1>1, <1>3 DEF NewDecoder
  <2> QED
    BY <1>3, <2>1 DEF Agrees
<1> QED
  BY <1>1, <1>2, <1>4, ConfigTypes DEF InStep

\* When nothing is withheld none of the bytes that are left ends anything, so
\* that the decoder has kept them all.
LEMMA DecodedWhenIdle ==
  ASSUME TypeInv, NothingWithheld, Suffix, InStep
  PROVE  Decoded
<1> SUFFICES ASSUME pc = "idle" PROVE Agrees(Len(buffer))
  <2>1. Len(buffer) \in Nat /\ Len(input) \in Nat
        /\ buffer \in Seq(Bytes) /\ input \in Seq(Bytes)
    BY LenProperties DEF TypeInv, TypeOK
  <2>2. Given + Len(buffer) = Len(input)
    BY <2>1 DEF Given
  <2>3. DecoderAt(Given + Len(buffer)) = Decode(input) /\ Front(Len(buffer)) = buffer
    BY <2>1, <2>2, SubSeqFull DEF DecoderAt, Front
  <2> QED
    BY <2>3 DEF Agrees, Decoded
<1> DEFINE n == Len(buffer)
<1>1. /\ n \in Nat /\ config \in Configs /\ HeaderSize \in Nat
      /\ config.fixed_length \in Nat
  BY LenProperties, ConfigTypes DEF TypeInv, TypeOK
<1>2. PICK k \in 0..n : Agrees(k)
  BY DEF InStep
<1>3. ASSUME NEW j \in k..n - 1 PROVE Quiet(j)
  <2>1. j + 1 \in 1..n /\ j + 1 <= n
    BY <1>1
  <2>2. config.type = "fixed" => j + 1 # config.fixed_length
    BY <1>1, <2>1 DEF NothingWithheld
  <2>3. config.type = "delimited" => buffer[j + 1] # config.delimiter
    BY <2>1 DEF NothingWithheld, Holds
  <2>4. (config.type = "prefixed" /\ HeaderSize <= j + 1) =>
          /\ ValidLength(FrameLength(buffer))
          /\ j + 1 < HeaderSize + FrameLength(buffer)
    <3> SUFFICES ASSUME config.type = "prefixed", HeaderSize <= j + 1
                 PROVE  /\ ValidLength(FrameLength(buffer))
                        /\ j + 1 < HeaderSize + FrameLength(buffer)
      OBVIOUS
    <3>1. /\ ValidLength(FrameLength(buffer))
          /\ n < HeaderSize + FrameLength(buffer)
      BY <1>1, <2>1 DEF NothingWithheld
    <3>2. FrameLength(buffer) \in Nat
      BY <3>1, ConfigTypes, <1>1 DEF ValidLength
    <3> QED
      BY <1>1, <2>1, <3>1, <3>2
  <2>5. config.type = "marked" => buffer[j + 1] # Marker
    BY <2>1 DEF NothingWithheld, Holds
  <2> QED
    BY <2>2, <2>3, <2>4, <2>5 DEF Quiet
<1>4. n \in k..Len(buffer)
  BY <1>1
<1> QED
  BY <1>2, <1>3, <1>4, QuietBytes

\* The frames that were delivered and the bytes that are kept are those of a
\* decoder that sees the bytes one by one: how they were cut into chunks makes
\* no difference.
THEOREM DecodesTheBytes == Spec => []Decoded
<1> DEFINE Inv == TypeInv /\ Scanned /\ NothingWithheld /\ Suffix /\ InStep
<1>1. Init => Inv
  BY InitialFrames, InStepInit
<1>2. Inv /\ [Next]_vars => Inv'
  BY TypeStep, ScannedStep, WithheldStep, InStepStep
<1>3. Inv => Decoded
  BY DecodedWhenIdle
<1> QED
  BY <1>1, <1>2, <1>3, PTL DEF Spec

-----------------------------------------------------------------------------
(* Every byte once                                                         *)

\* What EachByteOnce says of a step.
Once ==
  \/ input' = <<>> /\ frames' = <<>>
  \/ /\ Given <= Given'
     /\ \/ frames' = frames
        \/ \E i \in Given + 1..Given', j \in Given..Given' :
             frames' = Append(frames, SubSeq(input, i, j))

\* The n bytes after the first m.
LEMMA PieceOf ==
  ASSUME NEW S, NEW s \in Seq(S), NEW m \in Nat, NEW n \in Nat,
         m + n <= Len(s)
  PROVE  /\ SubSeq(s, m + 1, m + n) \in Seq(S)
         /\ Len(SubSeq(s, m + 1, m + n)) = n
         /\ \A i \in 1..n : SubSeq(s, m + 1, m + n)[i] = s[m + i]
<1> DEFINE a == m + 1
           b == m + n
           t == SubSeq(s, a, b)
<1>1. a \in Int /\ b \in Int /\ b - a + 1 = n /\ \A i \in 1..n : a + i - 1 = m + i
  OBVIOUS
<1>2. \A i \in a..b : s[i] \in S
  BY LenProperties, ElementOfSeq
<1>3. \A i \in 1..n : t[i] = s[m + i]
  <2> HIDE DEF a, b
  <2>1. \A i \in 1..b - a + 1 : SubSeq(s, a, b)[i] = s[a + i - 1]
    BY <1>1, <1>2, SubSeqProperties
  <2> QED
    BY <1>1, <2>1
<1> QED
  BY <1>3, CutMiddle

\* A piece of the buffer is a piece of the input.
LEMMA PieceOfInput ==
  ASSUME TypeInv, Suffix, NEW m \in Nat, NEW n \in Nat, m + n <= Len(buffer)
  PROVE  SubSeq(buffer, m + 1, m + n)
           = SubSeq(input, Given + m + 1, Given + m + n)
<1> DEFINE g == Given + m
           s == SubSeq(buffer, m + 1, m + n)
           t == SubSeq(input, g + 1, g + n)
<1>1. /\ buffer \in Seq(Bytes) /\ input \in Seq(Bytes)
      /\ Len(buffer) \in Nat /\ Len(input) \in Nat /\ Len(buffer) <= Len(input)
  BY LenProperties DEF TypeInv, TypeOK, Suffix
<1>2. /\ Given \in Nat /\ g \in Nat /\ g + n <= Len(input)
      /\ \A i \in 1..n : g + i = Given + (m + i)
  BY <1>1 DEF Given
<1>3. /\ s \in Seq(Bytes) /\ Len(s) = n
      /\ \A i \in 1..n : s[i] = buffer[m + i]
  BY <1>1, PieceOf
<1>4. /\ t \in Seq(Bytes) /\ Len(t) = n
      /\ \A i \in 1..n : t[i] = input[g + i]
  <2> HIDE DEF g
  <2> QED
    BY <1>1, <1>2, PieceOf
<1>5. ASSUME NEW i \in 1..n PROVE s[i] = t[i]
  <2>1. m + i \in 1..Len(buffer) /\ g + i = Given + (m + i)
    BY <1>1, <1>2
  <2>2. buffer[m + i] = input[Given + (m + i)]
    BY <2>1 DEF Suffix
  <2> HIDE DEF g, s, t
  <2> QED
    BY <1>3, <1>4, <2>1, <2>2
<1>6. s = t
  <2> HIDE DEF s, t
  <2> QED
    BY <1>3, <1>4, <1>5, SeqEqual
<1> QED
  BY <1>6

\* A step that takes c bytes and delivers n of them, after the first m.
LEMMA Delivered ==
  ASSUME TypeInv, Suffix, NEW c \in 0..Len(buffer), NEW m \in Nat, NEW n \in Nat,
         m < c, m + n <= c, buffer' = Without(c), input' = input,
         frames' = Append(frames, SubSeq(buffer, m + 1, m + n))
  PROVE  Once
<1>1. /\ Len(buffer) \in Nat /\ Len(input) \in Nat /\ Len(buffer) <= Len(input)
  BY LenProperties DEF TypeInv, TypeOK, Suffix
<1>2. Given \in Nat /\ m + n <= Len(buffer)
  BY <1>1 DEF Given
<1>3. Given' = Given + c
  BY SuffixCut
<1>4. frames' = Append(frames, SubSeq(input, Given + m + 1, Given + m + n))
  BY <1>2, PieceOfInput
<1>5. /\ Given + m + 1 \in Given + 1..Given' /\ Given + m + n \in Given..Given'
      /\ Given <= Given'
  BY <1>2, <1>3
<1> QED
  BY <1>4, <1>5 DEF Once

LEMMA OnceStep ==
  ASSUME TypeInv, Suffix, Next
  PROVE  Once
<1>1. /\ config \in Configs /\ buffer \in Seq(Bytes) /\ input \in Seq(Bytes)
      /\ Len(buffer) \in Nat /\ Len(input) \in Nat /\ Len(buffer) <= Len(input)
      /\ Given \in Nat /\ pos \in 0..Len(buffer)
      /\ HeaderSize \in Nat \ {0} /\ config.fixed_length \in Nat
      /\ config.max_frame_length \in Nat
  BY LenProperties, ConfigTypes DEF TypeInv, TypeOK, Suffix, Given
<1>2. ASSUME UNCHANGED frames, Given <= Given' PROVE Once
  BY <1>2 DEF Once
<1>3. ASSUME NEW c \in 0..Len(buffer), buffer' = Without(c),
             UNCHANGED <<frames, input>>
      PROVE  Once
  <2>1. Given' = Given + c
    BY <1>3, SuffixCut
  <2> QED
    BY <1>1, <1>2, <1>3, <2>1
<1>4. ASSUME UNCHANGED <<buffer, frames, input>> PROVE Once
  BY <1>1, <1>2, <1>4 DEF Given
<1>5. CASE Reset
  BY <1>5 DEF Reset, Once
<1>6. ASSUME NEW chunk \in Chunks, Feed(chunk) PROVE Once
  <2>1. chunk \in Seq(Bytes)
    BY BoundsAssumption DEF Chunks
  <2>2. /\ Len(buffer') = Len(buffer) + Len(chunk) /\ Len(chunk) \in Nat
        /\ Len(input') = Len(input) + Len(chunk)
    BY <1>1, <1>6, <2>1, ConcatProperties, LenProperties DEF Feed
  <2> QED
    BY <1>1, <1>2, <1>6, <2>2 DEF Given, Feed
<1>7. CASE FixedFrame
  <2> DEFINE n == config.fixed_length
  <2>1. /\ n \in 0..Len(buffer) /\ 0 < n /\ buffer' = Without(n)
        /\ input' = input
        /\ frames' = Append(frames, SubSeq(buffer, 0 + 1, 0 + n))
    BY <1>1, <1>7 DEF FixedFrame, Front
  <2>2. 0 \in Nat /\ n \in Nat /\ 0 + n <= n
    BY <1>1
  <2> HIDE DEF n
  <2> QED
    BY <2>1, <2>2, Delivered
<1>8. CASE DelimitedFrame \/ MarkedFrame
  <2>1. /\ pos + 1 \in 0..Len(buffer) /\ buffer' = Without(pos + 1)
        /\ input' = input /\ pos \in Nat
        /\ frames' = Append(frames, SubSeq(buffer, 0 + 1, 0 + pos))
    BY <1>1, <1>8 DEF DelimitedFrame, MarkedFrame, Front
  <2>2. 0 \in Nat /\ 0 < pos + 1 /\ 0 + pos <= pos + 1
    BY <2>1
  <2> QED
    BY <2>1, <2>2, Delivered
<1>9. CASE PrefixedFrame
  <2> DEFINE n == FrameLength(buffer)
  <2>1. /\ n \in Nat /\ HeaderSize + n \in 0..Len(buffer) /\ 1 <= n
        /\ buffer' = Without(HeaderSize + n) /\ input' = input
        /\ frames' = Append(frames, SubSeq(buffer, HeaderSize + 1,
                                           HeaderSize + n))
    BY <1>1, <1>9 DEF PrefixedFrame, ValidLength
  <2> HIDE DEF n
  <2>2. /\ HeaderSize \in Nat /\ HeaderSize < HeaderSize + n
        /\ HeaderSize + n <= HeaderSize + n
    BY <1>1, <2>1
  <2> QED
    BY <2>1, <2>2, Delivered
<1>10. CASE PrefixedResync
  BY <1>1, <1>3, <1>10 DEF PrefixedResync
<1>11. CASE MarkedStart
  BY <1>1, <1>3, <1>11 DEF MarkedStart
<1>12. CASE MarkedEnd
  <2>1. CASE buffer' = <<>>
    <3>1. Len(buffer') = 0
      BY <2>1, EmptySeq
    <3> QED
      BY <1>1, <1>2, <1>12, <3>1 DEF MarkedEnd, Given
  <2> QED
    BY <1>4, <1>12, <2>1 DEF MarkedEnd
<1>13. CASE FixedEnd \/ DelimitedSkip \/ DelimitedEnd \/ PrefixedEnd \/ MarkedSkip
  BY <1>4, <1>13 DEF FixedEnd, DelimitedSkip, DelimitedEnd, PrefixedEnd,
     MarkedSkip
<1> QED
  BY <1>5, <1>6, <1>7, <1>8, <1>9, <1>10, <1>11, <1>12, <1>13
  DEF Next, Call, Process

\* No byte is delivered twice, or before one that came earlier, and what has
\* left the buffer does not come back.
THEOREM EachByteIsOnce == Spec => EachByteOnce
<1> DEFINE Inv == TypeInv /\ Scanned /\ Suffix /\ InStep
<1>1. Init => Inv
  BY InitialFrames, InStepInit
<1>2. Inv /\ [Next]_vars => Inv'
  BY TypeStep, ScannedStep, InStepStep
<1>3. Inv /\ [Next]_vars => [Once]_vars
  BY OnceStep
<1> QED
  BY <1>1, <1>2, <1>3, PTL DEF Spec, EachByteOnce, Once
=============================================================================
