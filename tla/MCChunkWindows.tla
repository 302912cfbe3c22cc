--------------------------- MODULE MCChunkWindows ---------------------------
(* Instances of ChunkWindows for TLC. *)
EXTENDS ChunkWindows

Line(chars, bytes, redacted) == [chars |-> chars, bytes |-> bytes, redacted |-> redacted]

(* Lines of one character, of three ASCII ones, of two wide ones, and a line *)
(* of six bytes behind a sentinel of two characters.                         *)
PlainLines == {Line(1, 1, FALSE), Line(3, 3, FALSE), Line(2, 4, FALSE)}
RedactedLines == PlainLines \cup {Line(2, 6, TRUE)}
=============================================================================
