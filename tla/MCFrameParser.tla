---------------------------- MODULE MCFrameParser ----------------------------
(* FrameParser for TLC: one configuration, or two, of each framing, over    *)
(* the bytes 0, 1 and 2.                                                    *)
EXTENDS FrameReference

Default == [type |-> "fixed", fixed_length |-> 0, delimiter |-> 0,
            max_frame_length |-> 2, start_marker |-> 1, end_marker |-> 1,
            length_offset |-> 0, length_size |-> 2, length_big_endian |-> TRUE]

\* Both markers the same, as by default, and different; a length of two
\* bytes, high byte first as by default and low byte first, and one of one
\* byte behind a header byte.
MCConfigs == {
  Default,
  [Default EXCEPT !.fixed_length = 3],
  [Default EXCEPT !.type = "delimited"],
  [Default EXCEPT !.type = "marked"],
  [Default EXCEPT !.type = "marked", !.end_marker = 2],
  [Default EXCEPT !.type = "prefixed"],
  [Default EXCEPT !.type = "prefixed", !.length_big_endian = FALSE],
  [Default EXCEPT !.type = "prefixed", !.length_offset = 1, !.length_size = 1,
                  !.max_frame_length = 1]}
=============================================================================
