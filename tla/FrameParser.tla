----------------------------- MODULE FrameParser -----------------------------
(***************************************************************************)
(* The class FrameParser: feed() appends a chunk of bytes to the buffer    *)
(* and cuts the frames that are complete, in one of four ways.  feed() is  *)
(* the step Feed followed by one step per iteration of the loop of the     *)
(* process function chosen, the last of which leaves it.                   *)
(***************************************************************************)
EXTENDS Naturals, Sequences

CONSTANTS
  Configs,         \* the configurations a parser may be made with
  Bytes,           \* the byte values that are fed
  MaxChunk,        \* bound on the length of one feed()
  MaxInput         \* bound on the bytes fed between two calls of reset()

\* FrameParser::Config.  Without a header, processLengthPrefixed() erases from
\* an empty buffer; with a length of more than eight bytes, readUint() shifts
\* by more than a size_t has: such configurations are left out.
Config == [type : {"fixed", "delimited", "prefixed", "marked"},
           fixed_length : Nat, delimiter : 0..255, max_frame_length : Nat,
           start_marker : 0..255, end_marker : 0..255, length_offset : Nat,
           length_size : 0..8, length_big_endian : BOOLEAN]

ASSUME ConfigsAssumption ==
  Configs \subseteq {c \in Config : c.length_offset + c.length_size > 0}
ASSUME BytesAssumption == Bytes \subseteq 0..255
ASSUME BoundsAssumption == MaxChunk \in Nat /\ MaxInput \in Nat

VARIABLES
  config,    \* config_
  buffer,    \* buffer_
  frames,    \* frames_, which is also what the frame callback was given
  in_frame,  \* in_frame_
  pos,       \* the local pos: how many bytes of the buffer were looked at
  pc,        \* inside feed() ("scan") or not ("idle")
  input      \* every byte fed since the parser was new or reset (history)

vars == <<config, buffer, frames, in_frame, pos, pc, input>>

HeaderSize == config.length_offset + config.length_size

Chunks == UNION {[1..n -> Bytes] : n \in 1..MaxChunk}

Init ==
  /\ config \in Configs
  /\ buffer = <<>> /\ frames = <<>> /\ in_frame = FALSE
  /\ pos = 0 /\ pc = "idle"
  /\ input = <<>>

Reset ==
  /\ pc = "idle"
  /\ buffer' = <<>> /\ frames' = <<>> /\ in_frame' = FALSE
  /\ input' = <<>>
  /\ pos' = 0
  /\ UNCHANGED pc

Feed(chunk) ==
  /\ pc = "idle"
  /\ Len(input) + Len(chunk) <= MaxInput
  /\ buffer' = buffer \o chunk
  /\ input' = input \o chunk
  /\ pos' = 0
  /\ pc' = "scan"
  /\ UNCHANGED <<frames, in_frame>>

Scanning(type) == pc = "scan" /\ config.type = type

\* The first n bytes of the buffer, and the buffer without them.
Front(n)   == SubSeq(buffer, 1, n)
Without(n) == SubSeq(buffer, n + 1, Len(buffer))

Return ==
  /\ pc' = "idle"
  /\ pos' = 0

-----------------------------------------------------------------------------
(* processFixedLength()                                                    *)

\* Variant: a buffer of exactly one frame is left, > for >=.
FixedFrameLate ==
  /\ Scanning("fixed")
  /\ config.fixed_length # 0
  /\ Len(buffer) >= config.fixed_length
  /\ IF Len(buffer) > config.fixed_length
     THEN /\ frames' = Append(frames, Front(config.fixed_length))
          /\ buffer' = Without(config.fixed_length)
          /\ UNCHANGED <<pos, pc>>
     ELSE Return /\ UNCHANGED <<buffer, frames>>
  /\ UNCHANGED <<in_frame, input>>

\* Variant: the last byte of the frame stays in the buffer.
FixedFrameOverlaps ==
  /\ Scanning("fixed")
  /\ config.fixed_length # 0
  /\ Len(buffer) >= config.fixed_length
  /\ frames' = Append(frames, Front(config.fixed_length))
  /\ buffer' = Without(config.fixed_length - 1)
  /\ UNCHANGED <<in_frame, pos, pc, input>>

FixedFrame ==
  /\ Scanning("fixed")
  /\ config.fixed_length # 0
  /\ Len(buffer) >= config.fixed_length
  /\ frames' = Append(frames, Front(config.fixed_length))
  /\ buffer' = Without(config.fixed_length)
  /\ UNCHANGED <<in_frame, pos, pc, input>>

FixedEnd ==
  /\ Scanning("fixed")
  /\ config.fixed_length = 0 \/ Len(buffer) < config.fixed_length
  /\ Return
  /\ UNCHANGED <<buffer, frames, in_frame, input>>

-----------------------------------------------------------------------------
(* processDelimited()                                                      *)

DelimitedFrame ==
  /\ Scanning("delimited")
  /\ pos < Len(buffer)
  /\ buffer[pos + 1] = config.delimiter
  /\ frames' = Append(frames, Front(pos))
  /\ buffer' = Without(pos + 1)
  /\ pos' = 0
  /\ UNCHANGED <<in_frame, pc, input>>

DelimitedSkip ==
  /\ Scanning("delimited")
  /\ pos < Len(buffer)
  /\ buffer[pos + 1] # config.delimiter
  /\ pos' = pos + 1
  /\ UNCHANGED <<buffer, frames, in_frame, pc, input>>

DelimitedEnd ==
  /\ Scanning("delimited")
  /\ pos >= Len(buffer)
  /\ Return
  /\ UNCHANGED <<buffer, frames, in_frame, input>>

-----------------------------------------------------------------------------
(* processLengthPrefixed() and readUint()                                  *)

\* The byte of most weight first.  At most eight bytes: nothing is shifted out
\* of a size_t.
ReadUint(data, big_endian) ==
  LET n == Len(data)
      value[i \in 0..n] ==
        IF i = 0 THEN 0
        ELSE 256 * value[i - 1]
               + data[IF big_endian THEN i ELSE n + 1 - i]
  IN  value[n]

LengthField(s) == SubSeq(s, config.length_offset + 1, HeaderSize)
FrameLength(s) == ReadUint(LengthField(s), config.length_big_endian)
ValidLength(n) == n \in 1..config.max_frame_length

\* Variant: the whole header goes, not its first byte.
PrefixedResyncFar ==
  /\ Scanning("prefixed")
  /\ Len(buffer) >= HeaderSize
  /\ ~ValidLength(FrameLength(buffer))
  /\ buffer' = Without(HeaderSize)
  /\ UNCHANGED <<frames, in_frame, pos, pc, input>>

\* Variant: what cannot be a header is looked at again and again.
PrefixedResyncNot ==
  /\ Scanning("prefixed")
  /\ Len(buffer) >= HeaderSize
  /\ ~ValidLength(FrameLength(buffer))
  /\ UNCHANGED <<buffer, frames, in_frame, pos, pc, input>>

\* A length that cannot be right: try again one byte further on.
PrefixedResync ==
  /\ Scanning("prefixed")
  /\ Len(buffer) >= HeaderSize
  /\ ~ValidLength(FrameLength(buffer))
  /\ buffer' = Without(1)
  /\ UNCHANGED <<frames, in_frame, pos, pc, input>>

PrefixedFrame ==
  /\ Scanning("prefixed")
  /\ Len(buffer) >= HeaderSize
  /\ LET n == FrameLength(buffer) IN
        /\ ValidLength(n)
        /\ Len(buffer) >= HeaderSize + n
        /\ frames' = Append(frames, SubSeq(buffer, HeaderSize + 1,
                                           HeaderSize + n))
        /\ buffer' = Without(HeaderSize + n)
  /\ UNCHANGED <<in_frame, pos, pc, input>>

PrefixedEnd ==
  /\ Scanning("prefixed")
  /\ Len(buffer) >= HeaderSize =>
       /\ ValidLength(FrameLength(buffer))
       /\ Len(buffer) < HeaderSize + FrameLength(buffer)
  /\ Return
  /\ UNCHANGED <<buffer, frames, in_frame, input>>

-----------------------------------------------------------------------------
(* processStartEndMarker()                                                 *)

\* The marker that is looked for.
Marker == IF in_frame THEN config.end_marker ELSE config.start_marker

MarkedStart ==
  /\ Scanning("marked")
  /\ pos < Len(buffer)
  /\ ~in_frame
  /\ buffer[pos + 1] = config.start_marker
  /\ in_frame' = TRUE
  /\ buffer' = Without(pos + 1)
  /\ pos' = 0
  /\ UNCHANGED <<frames, pc, input>>

\* Variant: the end marker stays in the frame.
MarkedFrameWhole ==
  /\ Scanning("marked")
  /\ pos < Len(buffer)
  /\ in_frame
  /\ buffer[pos + 1] = config.end_marker
  /\ frames' = Append(frames, Front(pos + 1))
  /\ buffer' = Without(pos + 1)
  /\ in_frame' = FALSE
  /\ pos' = 0
  /\ UNCHANGED <<pc, input>>

\* Variant: pos goes on, as if nothing had been erased.
MarkedFrameOverruns ==
  /\ Scanning("marked")
  /\ pos < Len(buffer)
  /\ in_frame
  /\ buffer[pos + 1] = config.end_marker
  /\ frames' = Append(frames, Front(pos))
  /\ buffer' = Without(pos + 1)
  /\ in_frame' = FALSE
  /\ pos' = pos + 1
  /\ UNCHANGED <<pc, input>>

MarkedFrame ==
  /\ Scanning("marked")
  /\ pos < Len(buffer)
  /\ in_frame
  /\ buffer[pos + 1] = config.end_marker
  /\ frames' = Append(frames, Front(pos))
  /\ buffer' = Without(pos + 1)
  /\ in_frame' = FALSE
  /\ pos' = 0
  /\ UNCHANGED <<pc, input>>

MarkedSkip ==
  /\ Scanning("marked")
  /\ pos < Len(buffer)
  /\ buffer[pos + 1] # Marker
  /\ pos' = pos + 1
  /\ UNCHANGED <<buffer, frames, in_frame, pc, input>>

\* What is left over when it is too long is given up, frame or not.
MarkedEnd ==
  /\ Scanning("marked")
  /\ pos >= Len(buffer)
  /\ IF Len(buffer) > config.max_frame_length
     THEN buffer' = <<>> /\ in_frame' = FALSE
     ELSE UNCHANGED <<buffer, in_frame>>
  /\ Return
  /\ UNCHANGED <<frames, input>>

-----------------------------------------------------------------------------
Process ==
  /\ \/ FixedFrame \/ FixedEnd
     \/ DelimitedFrame \/ DelimitedSkip \/ DelimitedEnd
     \/ PrefixedResync \/ PrefixedFrame \/ PrefixedEnd
     \/ MarkedStart \/ MarkedFrame \/ MarkedSkip \/ MarkedEnd
  /\ UNCHANGED config

Call == (Reset \/ \E chunk \in Chunks : Feed(chunk)) /\ UNCHANGED config

Next == Call \/ Process

Spec == Init /\ [][Next]_vars

\* feed() goes on until it returns.
FairSpec == Spec /\ WF_vars(Process)

-----------------------------------------------------------------------------
(* Properties                                                              *)

Holds(s, b) == \E i \in 1..Len(s) : s[i] = b

TypeOK ==
  /\ config \in Configs
  /\ buffer \in Seq(Bytes)
  /\ frames \in Seq(Seq(Bytes))
  /\ in_frame \in BOOLEAN
  /\ in_frame => config.type = "marked"
  /\ pos \in 0..Len(buffer)
  /\ pc \in {"idle", "scan"}
  /\ input \in Seq(Bytes)

\* Every frame has the form its framing asks for.
FramesWellFormed ==
  \A k \in 1..Len(frames) :
    /\ config.type = "fixed" => Len(frames[k]) = config.fixed_length
    /\ config.type = "delimited" => ~Holds(frames[k], config.delimiter)
    /\ config.type = "prefixed" => ValidLength(Len(frames[k]))
    /\ config.type = "marked" => ~Holds(frames[k], config.end_marker)

\* When feed() has returned the parser does not sit on a frame that is
\* complete, whatever the chunks were in which it came.
NothingWithheld ==
  pc = "idle" =>
    /\ (config.type = "fixed" /\ config.fixed_length # 0) =>
         Len(buffer) < config.fixed_length
    /\ config.type = "delimited" => ~Holds(buffer, config.delimiter)
    /\ (config.type = "prefixed" /\ Len(buffer) >= HeaderSize) =>
         /\ ValidLength(FrameLength(buffer))
         /\ Len(buffer) < HeaderSize + FrameLength(buffer)
    /\ config.type = "marked" =>
         /\ ~Holds(buffer, Marker)
         /\ Len(buffer) <= config.max_frame_length

\* The number of bytes that have left the buffer.
Given == Len(input) - Len(buffer)

\* No byte is delivered twice, or before one that came earlier, and none comes
\* back: unless reset() is called, a frame is a piece of the input that leaves
\* the buffer with it.  This goes on after an overlong frame was given up,
\* where Decoded ends.
EachByteOnce ==
  [][\/ input' = <<>> /\ frames' = <<>>
     \/ /\ Given <= Given'
        /\ \/ frames' = frames
           \/ \E i \in Given + 1..Given', j \in Given..Given' :
                frames' = Append(frames, SubSeq(input, i, j))]_vars

\* feed() returns.
FeedReturns == pc = "scan" ~> pc = "idle"
=============================================================================
