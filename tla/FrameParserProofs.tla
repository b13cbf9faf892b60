-------------------------- MODULE FrameParserProofs --------------------------
(***************************************************************************)
(* Theorems about FrameParser, for every set of configurations, bytes and  *)
(* chunks.                                                                 *)
(***************************************************************************)
EXTENDS FrameParser, TLAPS, SequenceTheorems

-----------------------------------------------------------------------------
(* Cutting the buffer                                                      *)

LEMMA CutFront ==
  ASSUME NEW S, NEW s \in Seq(S), NEW n \in 0..Len(s)
  PROVE  /\ SubSeq(s, 1, n) \in Seq(S)
         /\ Len(SubSeq(s, 1, n)) = n
         /\ \A i \in 1..n : SubSeq(s, 1, n)[i] = s[i]
<1>1. \A i \in 1..n : s[i] \in S
  BY ElementOfSeq
<1> QED
  BY <1>1, SubSeqProperties

LEMMA CutRest ==
  ASSUME NEW S, NEW s \in Seq(S), NEW n \in 0..Len(s)
  PROVE  /\ SubSeq(s, n + 1, Len(s)) \in Seq(S)
         /\ Len(SubSeq(s, n + 1, Len(s))) = Len(s) - n
<1>1. \A i \in n + 1..Len(s) : s[i] \in S
  BY ElementOfSeq
<1>2. Len(s) \in Nat
  BY LenProperties
<1> QED
  BY <1>1, <1>2, SubSeqProperties

LEMMA CutMiddle ==
  ASSUME NEW S, NEW s \in Seq(S), NEW m \in Nat, NEW n \in Nat,
         m + n <= Len(s)
  PROVE  /\ SubSeq(s, m + 1, m + n) \in Seq(S)
         /\ Len(SubSeq(s, m + 1, m + n)) = n
<1>1. \A i \in m + 1..m + n : s[i] \in S
  BY ElementOfSeq, LenProperties
<1> QED
  BY <1>1, SubSeqProperties

LEMMA EmptyTyped ==
  /\ <<>> \in Seq(Bytes) /\ 0 \in 0..Len(<<>>)
  /\ <<>> \in Seq(Seq(Bytes))
BY EmptySeq

\* A header has at least one byte.
LEMMA ConfigTypes ==
  ASSUME config \in Configs
  PROVE  /\ config.fixed_length \in Nat
         /\ config.max_frame_length \in Nat
         /\ HeaderSize \in Nat \ {0}
BY ConfigsAssumption DEF Config, HeaderSize

-----------------------------------------------------------------------------
(* Types                                                                   *)

\* Two framings have no position of their own: what is left of the buffer is
\* always looked at from its first byte.
TypeInv == TypeOK /\ (config.type \in {"fixed", "prefixed"} => pos = 0)

\* Every piece that a step cuts from the buffer lies inside it.
LEMMA TypeStep ==
  ASSUME TypeInv, [Next]_vars
  PROVE  TypeInv'
<1> USE DEF TypeInv, TypeOK
<1>0. /\ Len(buffer) \in Nat /\ HeaderSize \in Nat \ {0}
      /\ config.fixed_length \in Nat /\ config.max_frame_length \in Nat
  BY ConfigTypes, LenProperties
<1>a. ASSUME NEW n \in 0..Len(buffer)
      PROVE  /\ Front(n) \in Seq(Bytes) /\ Without(n) \in Seq(Bytes)
             /\ Len(Without(n)) = Len(buffer) - n
  BY CutFront, CutRest DEF Front, Without
<1>b. ASSUME NEW f \in Seq(Bytes) PROVE Append(frames, f) \in Seq(Seq(Bytes))
  BY AppendProperties
<1>c. /\ <<>> \in Seq(Bytes) /\ 0 \in 0..Len(<<>>)
      /\ <<>> \in Seq(Seq(Bytes))
  BY EmptyTyped
<1>1. CASE Call
  <2>1. CASE Reset
    BY <1>1, <1>c, <2>1 DEF Call, Reset
  <2>2. ASSUME NEW chunk \in Chunks, Feed(chunk) PROVE TypeInv'
    <3>1. chunk \in Seq(Bytes)
      BY BoundsAssumption DEF Chunks
    <3>2. buffer \o chunk \in Seq(Bytes) /\ input \o chunk \in Seq(Bytes)
      BY <3>1, ConcatProperties
    <3>3. 0 \in 0..Len(buffer \o chunk)
      BY <3>2, LenProperties
    <3> QED
      BY <1>1, <2>2, <3>2, <3>3 DEF Call, Feed
  <2> QED
    BY <1>1, <2>1, <2>2 DEF Call
<1>2. CASE Process
  <2>0. config' = config
    BY <1>2 DEF Process
  <2> USE DEF Scanning, Return
  <2>1. CASE FixedFrame
    <3>1. config.fixed_length \in 0..Len(buffer)
      BY <1>0, <2>1 DEF FixedFrame
    <3>2. frames' \in Seq(Seq(Bytes)) /\ buffer' \in Seq(Bytes)
      BY <1>a, <1>b, <2>1, <3>1 DEF FixedFrame
    <3>3. pos' = 0 /\ 0 \in 0..Len(buffer')
      BY <2>1, <3>2, LenProperties DEF FixedFrame
    <3> QED
      BY <2>0, <2>1, <3>2, <3>3 DEF FixedFrame
  <2>2. CASE FixedEnd
    BY <1>0, <2>0, <2>2 DEF FixedEnd
  <2>3. CASE DelimitedFrame
    BY <1>0, <1>a, <1>b, <2>0, <2>3 DEF DelimitedFrame
  <2>4. CASE DelimitedSkip
    BY <1>0, <2>0, <2>4 DEF DelimitedSkip
  <2>5. CASE DelimitedEnd
    BY <1>0, <2>0, <2>5 DEF DelimitedEnd
  <2>6. CASE PrefixedResync
    <3>1. buffer' \in Seq(Bytes)
      BY <1>0, <1>a, <2>6 DEF PrefixedResync
    <3>2. pos' = 0 /\ 0 \in 0..Len(buffer')
      BY <2>6, <3>1, LenProperties DEF PrefixedResync
    <3> QED
      BY <2>0, <2>6, <3>1, <3>2 DEF PrefixedResync
  <2>7. CASE PrefixedFrame
    <3>1. PICK n \in 1..config.max_frame_length :
            /\ Len(buffer) >= HeaderSize + n
            /\ frames' = Append(frames, SubSeq(buffer, HeaderSize + 1,
                                               HeaderSize + n))
            /\ buffer' = Without(HeaderSize + n)
      BY <2>7 DEF PrefixedFrame, ValidLength
    <3>2. SubSeq(buffer, HeaderSize + 1, HeaderSize + n) \in Seq(Bytes)
      BY <1>0, <3>1, CutMiddle
    <3>3. HeaderSize + n \in 0..Len(buffer)
      BY <1>0, <3>1
    <3>4. frames' \in Seq(Seq(Bytes)) /\ buffer' \in Seq(Bytes)
      BY <1>a, <1>b, <3>1, <3>2, <3>3
    <3>5. pos' = 0 /\ 0 \in 0..Len(buffer')
      BY <2>7, <3>4, LenProperties DEF PrefixedFrame
    <3> QED
      BY <2>0, <2>7, <3>4, <3>5 DEF PrefixedFrame
  <2>8. CASE PrefixedEnd
    BY <1>0, <2>0, <2>8 DEF PrefixedEnd
  <2>9. CASE MarkedStart
    BY <1>0, <1>a, <2>0, <2>9 DEF MarkedStart
  <2>10. CASE MarkedFrame
    <3>1. pos \in 0..Len(buffer) /\ pos + 1 \in 0..Len(buffer)
      BY <1>0, <2>10 DEF MarkedFrame
    <3>2. frames' \in Seq(Seq(Bytes)) /\ buffer' \in Seq(Bytes)
      BY <1>a, <1>b, <2>10, <3>1 DEF MarkedFrame
    <3>3. pos' = 0 /\ 0 \in 0..Len(buffer')
      BY <2>10, <3>2, LenProperties DEF MarkedFrame
    <3> QED
      BY <2>0, <2>10, <3>2, <3>3 DEF MarkedFrame
  <2>11. CASE MarkedSkip
    BY <1>0, <2>0, <2>11 DEF MarkedSkip
  <2>12. CASE MarkedEnd
    <3>1. CASE Len(buffer) > config.max_frame_length
      BY <1>c, <2>0, <2>12, <3>1 DEF MarkedEnd
    <3>2. CASE ~(Len(buffer) > config.max_frame_length)
      BY <1>0, <2>0, <2>12, <3>2 DEF MarkedEnd
    <3> QED
      BY <3>1, <3>2
  <2> QED
    BY <1>2, <2>1, <2>2, <2>3, <2>4, <2>5, <2>6, <2>7, <2>8, <2>9, <2>10,
       <2>11, <2>12 DEF Process
<1>3. CASE UNCHANGED vars
  BY <1>3 DEF vars
<1> QED
  BY <1>1, <1>2, <1>3 DEF Next

\* The type invariant of the parser.
THEOREM TypeCorrect == Spec => []TypeOK
<1>1. Init => TypeInv
  BY EmptyTyped DEF Init, TypeInv, TypeOK
<1>2. TypeInv /\ [Next]_vars => TypeInv'
  BY TypeStep
<1>3. TypeInv => TypeOK
  BY DEF TypeInv
<1> QED
  BY <1>1, <1>2, <1>3, PTL DEF Spec

-----------------------------------------------------------------------------
(* Frames                                                                  *)

\* The loop invariant of the two framings that look for a byte: it is not
\* among those already looked at.
Scanned ==
  pc = "scan" =>
    /\ config.type = "delimited" =>
         \A i \in 1..pos : buffer[i] # config.delimiter
    /\ config.type = "marked" => \A i \in 1..pos : buffer[i] # Marker

LEMMA ScannedStep ==
  ASSUME TypeInv, Scanned, [Next]_vars
  PROVE  Scanned'
<1> USE DEF TypeInv, TypeOK, Scanned, Scanning, Return, Marker
<1>1. CASE pos' = 0
  BY <1>1
<1>2. CASE pc' = "idle"
  BY <1>2
<1>3. CASE Call
  BY <1>1, <1>2, <1>3 DEF Call, Reset, Feed
<1>4. CASE Process
  <2>0. config' = config
    BY <1>4 DEF Process
  <2>1. CASE FixedFrame \/ PrefixedResync \/ PrefixedFrame
    BY <1>1, <2>1 DEF FixedFrame, PrefixedResync, PrefixedFrame
  <2>2. CASE FixedEnd \/ DelimitedEnd \/ PrefixedEnd \/ MarkedEnd
    BY <1>2, <2>2 DEF FixedEnd, DelimitedEnd, PrefixedEnd, MarkedEnd
  <2>3. CASE DelimitedFrame \/ MarkedStart \/ MarkedFrame
    BY <1>1, <2>3 DEF DelimitedFrame, MarkedStart, MarkedFrame
  <2>4. CASE DelimitedSkip
    <3>1. /\ config.type = "delimited" /\ pc = "scan"
          /\ pos \in Nat /\ pos' = pos + 1 /\ buffer' = buffer
          /\ buffer[pos + 1] # config.delimiter
      BY <2>4, LenProperties DEF DelimitedSkip
    <3>2. \A i \in 1..pos' : buffer[i] # config.delimiter
      <4>1. ASSUME NEW i \in 1..pos' PROVE i \in 1..pos \/ i = pos + 1
        BY <3>1
      <4>2. \A i \in 1..pos : buffer[i] # config.delimiter
        BY <3>1
      <4> QED
        BY <3>1, <4>1, <4>2
    <3> QED
      BY <2>0, <3>1, <3>2
  <2>5. CASE MarkedSkip
    BY <2>0, <2>5, LenProperties DEF MarkedSkip
  <2> QED
    BY <1>4, <2>1, <2>2, <2>3, <2>4, <2>5 DEF Process
<1>5. CASE UNCHANGED vars
  BY <1>5 DEF vars
<1> QED
  BY <1>3, <1>4, <1>5 DEF Next

\* What one more frame has to satisfy.
WellFormed(f) ==
  /\ config.type = "fixed" => Len(f) = config.fixed_length
  /\ config.type = "delimited" => ~Holds(f, config.delimiter)
  /\ config.type = "prefixed" => ValidLength(Len(f))
  /\ config.type = "marked" => ~Holds(f, config.end_marker)

LEMMA WellFormedStep ==
  ASSUME TypeInv, Scanned, FramesWellFormed, [Next]_vars
  PROVE  FramesWellFormed'
<1> USE DEF TypeInv, TypeOK
<1>0. /\ Len(buffer) \in Nat /\ HeaderSize \in Nat \ {0}
      /\ config.fixed_length \in Nat /\ config.max_frame_length \in Nat
  BY ConfigTypes, LenProperties
<1>1. config' = config
  BY DEF Next, Call, Process, vars
<1>2. CASE frames' = frames
  BY <1>1, <1>2 DEF FramesWellFormed, ValidLength
<1>3. ASSUME frames' = <<>> PROVE FramesWellFormed'
  BY <1>3, EmptySeq DEF FramesWellFormed
<1>4. ASSUME NEW f \in Seq(Bytes), frames' = Append(frames, f), WellFormed(f)
      PROVE  FramesWellFormed'
  <2>1. /\ Len(frames') = Len(frames) + 1
        /\ \A k \in 1..Len(frames) : frames'[k] = frames[k]
        /\ frames'[Len(frames) + 1] = f
    BY <1>4, AppendProperties
  <2> QED
    BY <1>1, <1>4, <2>1, LenProperties
    DEF FramesWellFormed, WellFormed, ValidLength
<1>5. CASE FixedFrame
  <2>1. config.fixed_length \in 0..Len(buffer)
    BY <1>0, <1>5 DEF FixedFrame
  <2>2. /\ Front(config.fixed_length) \in Seq(Bytes)
        /\ Len(Front(config.fixed_length)) = config.fixed_length
    BY <2>1, CutFront DEF Front
  <2> QED
    BY <1>4, <1>5, <2>2 DEF FixedFrame, WellFormed, Scanning
<1>6. ASSUME DelimitedFrame \/ MarkedFrame PROVE FramesWellFormed'
  <2>1. /\ Front(pos) \in Seq(Bytes) /\ Len(Front(pos)) = pos
        /\ \A i \in 1..pos : Front(pos)[i] = buffer[i]
    BY CutFront DEF Front
  <2>2. frames' = Append(frames, Front(pos))
    BY <1>6 DEF DelimitedFrame, MarkedFrame
  <2>3. WellFormed(Front(pos))
    BY <1>6, <2>1
    DEF DelimitedFrame, MarkedFrame, WellFormed, Scanning, Scanned, Marker,
        Holds
  <2> QED
    BY <1>4, <2>1, <2>2, <2>3
<1>7. CASE PrefixedFrame
  <2>1. PICK n \in 1..config.max_frame_length :
          /\ Len(buffer) >= HeaderSize + n
          /\ frames' = Append(frames, SubSeq(buffer, HeaderSize + 1,
                                             HeaderSize + n))
    BY <1>7 DEF PrefixedFrame, ValidLength
  <2>2. /\ SubSeq(buffer, HeaderSize + 1, HeaderSize + n) \in Seq(Bytes)
        /\ Len(SubSeq(buffer, HeaderSize + 1, HeaderSize + n)) = n
    BY <1>0, <2>1, CutMiddle
  <2> QED
    BY <1>4, <1>7, <2>1, <2>2 DEF PrefixedFrame, WellFormed, Scanning,
       ValidLength
<1>8. CASE Reset
  BY <1>3, <1>8 DEF Reset
<1>9. CASE \/ \E chunk \in Chunks : Feed(chunk)
           \/ FixedEnd \/ DelimitedSkip \/ DelimitedEnd \/ PrefixedResync
           \/ PrefixedEnd \/ MarkedStart \/ MarkedSkip \/ MarkedEnd
           \/ UNCHANGED vars
  BY <1>2, <1>9 DEF Feed, FixedEnd, DelimitedSkip, DelimitedEnd,
     PrefixedResync, PrefixedEnd, MarkedStart, MarkedSkip, MarkedEnd, vars
<1> QED
  BY <1>5, <1>6, <1>7, <1>8, <1>9 DEF Next, Call, Process

\* feed() returns only from the step that has found nothing more to do.
LEMMA WithheldStep ==
  ASSUME TypeInv, Scanned, NothingWithheld, [Next]_vars
  PROVE  NothingWithheld'
<1> USE DEF TypeInv, TypeOK
<1>0. /\ Len(buffer) \in Nat /\ HeaderSize \in Nat \ {0}
      /\ config.fixed_length \in Nat /\ config.max_frame_length \in Nat
  BY ConfigTypes, LenProperties
<1>1. config' = config
  BY DEF Next, Call, Process, vars
<1>2. CASE pc' = "scan"
  BY <1>2 DEF NothingWithheld
<1>3. CASE buffer' = <<>> /\ in_frame' = FALSE
  BY <1>0, <1>1, <1>3, EmptySeq DEF NothingWithheld, Holds, HeaderSize
<1>4. CASE FixedEnd
  BY <1>0, <1>1, <1>4 DEF FixedEnd, Scanning, NothingWithheld
<1>5. CASE DelimitedEnd
  BY <1>0, <1>1, <1>5 DEF DelimitedEnd, Scanning, Scanned, NothingWithheld,
     Holds
<1>6. CASE PrefixedEnd
  BY <1>0, <1>1, <1>6 DEF PrefixedEnd, Scanning, NothingWithheld, HeaderSize,
     ValidLength, FrameLength, LengthField
<1>7. CASE MarkedEnd
  <2>1. CASE Len(buffer) > config.max_frame_length
    BY <1>3, <1>7, <2>1 DEF MarkedEnd
  <2>2. CASE ~(Len(buffer) > config.max_frame_length)
    BY <1>0, <1>1, <1>7, <2>2 DEF MarkedEnd, Scanning, Scanned, Marker,
       NothingWithheld, Holds
  <2> QED
    BY <2>1, <2>2
<1>8. CASE Reset
  BY <1>3, <1>8 DEF Reset
<1>9. CASE UNCHANGED vars
  BY <1>9 DEF vars, NothingWithheld, Holds, HeaderSize, ValidLength,
     FrameLength, LengthField, Marker
<1>10. CASE \/ \E chunk \in Chunks : Feed(chunk)
            \/ FixedFrame \/ DelimitedFrame \/ DelimitedSkip
            \/ PrefixedResync \/ PrefixedFrame
            \/ MarkedStart \/ MarkedFrame \/ MarkedSkip
  BY <1>2, <1>10 DEF Feed, Scanning, FixedFrame, DelimitedFrame,
     DelimitedSkip, PrefixedResync, PrefixedFrame, MarkedStart, MarkedFrame,
     MarkedSkip
<1> QED
  BY <1>4, <1>5, <1>6, <1>7, <1>8, <1>9, <1>10 DEF Next, Call, Process

LEMMA InitialFrames ==
  ASSUME Init
  PROVE  TypeInv /\ Scanned /\ FramesWellFormed /\ NothingWithheld
<1>1. TypeInv
  BY EmptyTyped DEF Init, TypeInv, TypeOK
<1>2. HeaderSize \in Nat \ {0} /\ config.max_frame_length \in Nat
      /\ config.fixed_length \in Nat
  BY <1>1, ConfigTypes DEF TypeInv, TypeOK
<1> QED
  BY <1>1, <1>2, EmptySeq
  DEF Init, Scanned, FramesWellFormed, NothingWithheld, Holds

\* Every frame handed out has the form its framing asks for: the fixed length,
\* a length within the limit, no delimiter or end marker inside.
THEOREM FramesAreWellFormed == Spec => []FramesWellFormed
<1> DEFINE Inv == TypeInv /\ Scanned /\ FramesWellFormed
<1>1. Init => Inv
  BY InitialFrames
<1>2. Inv /\ [Next]_vars => Inv'
  BY TypeStep, ScannedStep, WellFormedStep
<1> QED
  BY <1>1, <1>2, PTL DEF Spec

\* When feed() has returned no complete frame is left in the buffer, whatever
\* the chunks were in which it came.
THEOREM NothingIsWithheld == Spec => []NothingWithheld
<1> DEFINE Inv == TypeInv /\ Scanned /\ NothingWithheld
<1>1. Init => Inv
  BY InitialFrames
<1>2. Inv /\ [Next]_vars => Inv'
  BY TypeStep, ScannedStep, WithheldStep
<1> QED
  BY <1>1, <1>2, PTL DEF Spec
=============================================================================
