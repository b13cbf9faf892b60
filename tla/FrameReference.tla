---------------------------- MODULE FrameReference ----------------------------
(***************************************************************************)
(* What FrameParser is meant to compute: decoders that see the bytes one   *)
(* by one and know nothing of chunks, and the property that the parser     *)
(* agrees with them.                                                       *)
(***************************************************************************)
EXTENDS FrameParser

NewDecoder == [out |-> <<>>, rest |-> <<>>, inside |-> FALSE, long |-> FALSE]

Emit(d, f) == [d EXCEPT !.out = Append(@, f), !.rest = <<>>, !.inside = FALSE]
Keep(d, s) ==
  [d EXCEPT !.rest = s,
            !.long = @ \/ (config.type = "marked"
                              /\ Len(s) > config.max_frame_length)]

DecodeFixed(d, b) ==
  LET s == Append(d.rest, b)
  IN  IF Len(s) = config.fixed_length THEN Emit(d, s) ELSE Keep(d, s)

DecodeDelimited(d, b) ==
  IF b = config.delimiter THEN Emit(d, d.rest) ELSE Keep(d, Append(d.rest, b))

\* The number written in the length field: each byte times its weight, from
\* the byte of weight 1 up.
Weight[k \in 0..8] == IF k = 0 THEN 1 ELSE 256 * Weight[k - 1]
ByteOf(s, k) ==
  s[config.length_offset + (IF config.length_big_endian
                            THEN config.length_size - k ELSE k + 1)]
Announced(s) ==
  LET sum[k \in 0..config.length_size] ==
        IF k = 0 THEN 0 ELSE sum[k - 1] + ByteOf(s, k - 1) * Weight[k - 1]
  IN  sum[config.length_size]

DecodePrefixed(d, b) ==
  LET s == Append(d.rest, b) IN
  IF Len(s) < HeaderSize THEN Keep(d, s)
  ELSE IF ~ValidLength(Announced(s)) THEN Keep(d, Tail(s))
  ELSE IF Len(s) < HeaderSize + Announced(s) THEN Keep(d, s)
  ELSE Emit(d, SubSeq(s, HeaderSize + 1, Len(s)))

DecodeMarked(d, b) ==
  CASE d.inside /\ b = config.end_marker -> Emit(d, d.rest)
    [] ~d.inside /\ b = config.start_marker ->
         [d EXCEPT !.rest = <<>>, !.inside = TRUE]
    [] OTHER -> Keep(d, Append(d.rest, b))

DecodeByte(d, b) ==
  CASE config.type = "fixed"     -> DecodeFixed(d, b)
    [] config.type = "delimited" -> DecodeDelimited(d, b)
    [] config.type = "prefixed"  -> DecodePrefixed(d, b)
    [] config.type = "marked"    -> DecodeMarked(d, b)

Decode(s) ==
  LET after[n \in 0..Len(s)] ==
        IF n = 0 THEN NewDecoder ELSE DecodeByte(after[n - 1], s[n])
  IN  after[Len(s)]

\* When feed() returns, the frames delivered and the bytes kept are those the
\* decoder has after the same bytes: they depend on the bytes, not on how
\* these were cut into chunks.  With markers this ends when a frame, or what
\* lies between two frames, has grown longer than max_frame_length.
Decoded ==
  pc = "idle" =>
    LET d == Decode(input) IN
      d.long \/ /\ frames = d.out
                /\ buffer = d.rest
                /\ in_frame = d.inside
=============================================================================
