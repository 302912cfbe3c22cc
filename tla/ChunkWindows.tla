---------------------------- MODULE ChunkWindows ----------------------------
(***************************************************************************)
(* How a region of a file becomes chunks (_window_projection and            *)
(* _build_chunks of _retrieval.py).  The projection of a file has its       *)
(* redacted lines replaced by a sentinel; a region with too many tokens is  *)
(* cut into windows that overlap, at complete lines where that fits and     *)
(* never inside a sentinel; the windows are mapped to bytes of the file.    *)
(*                                                                         *)
(* An offset of the projection is a number of characters.  The tokenizer is *)
(* given by the characters that begin a token, go on with one or separate   *)
(* two words.                                                               *)
(***************************************************************************)
EXTENDS Integers, Sequences, FiniteSets

CONSTANTS
  Lines,    \* the lines a file may have
  MaxLines, \* how many of them
  Marks,    \* what a character may be to the tokenizer
  Limit,    \* chunk_tokens
  Overlap,  \* chunk_overlap_tokens
  Special,  \* the tokens added to every text
  Fragile   \* whether a word that is cut may fall apart

(* A line is [chars, bytes, redacted]: its length in the projection and in  *)
(* the file, where a character is one byte or more.                         *)
LinesAssumption ==
  /\ Lines \subseteq [chars : Nat \ {0}, bytes : Nat \ {0}, redacted : BOOLEAN]
  /\ \A line \in Lines : line.redacted \/ line.chars <= line.bytes
  /\ MaxLines \in Nat

(* _validate_configuration allows for the two tokens of the fixed model. *)
BudgetAssumption ==
  /\ {Limit, Overlap, Special} \subseteq Nat /\ Overlap < Limit - Special
  /\ Fragile \subseteq BOOLEAN

VARIABLES
  lines,     \* the lines of the file
  marks,     \* what its characters are to the tokenizer
  fragile,   \* whether a word that is cut falls apart
  at,        \* where the next window begins
  end,       \* where it may end
  windows,   \* the windows so far
  chunks,    \* the ranges of bytes they are
  phase

vars == <<lines, marks, fragile, at, end, windows, chunks, phase>>

-----------------------------------------------------------------------------
(* The projection: where a line begins and ends, in characters and bytes.   *)
ProjectedEnds ==
  LET upTo[k \in 0 .. Len(lines)] == IF k = 0 THEN 0 ELSE upTo[k - 1] + lines[k].chars IN upTo
OriginalEnds ==
  LET upTo[k \in 0 .. Len(lines)] == IF k = 0 THEN 0 ELSE upTo[k - 1] + lines[k].bytes IN upTo
ProjectedEnd(k) == ProjectedEnds[k]
OriginalEnd(k) == OriginalEnds[k]
ProjectedStart(k) == ProjectedEnd(k - 1)
OriginalStart(k) == OriginalEnd(k - 1)
RegionEnd == ProjectedEnd(Len(lines))
Inside(k, offset) == ProjectedStart(k) < offset /\ offset < ProjectedEnd(k)
InRedacted(offset) == \E k \in DOMAIN lines : lines[k].redacted /\ Inside(k, offset)

(* _token_spans of a slice: where its tokens begin.  A word is tokenized as *)
(* a whole, and what is left of one that was cut may be a token each.       *)
Word(p, q) == p < q => \A k \in p .. q : marks[k + 1] # "gap"
CutWord(p, from, to) ==
  \/ from > 0 /\ Word(from - 1, p)
  \/ to < RegionEnd /\ Word(p, to)
Starts(from, to) ==
  {p \in from .. to - 1 :
    \/ marks[p + 1] = "start"
    \/ marks[p + 1] = "in" /\ (p = from \/ (fragile /\ CutWord(p, from, to)))}
Tokens(from, to) == Cardinality(Starts(from, to)) + Special
Nth(set, n) == CHOOSE p \in set : Cardinality({q \in set : q <= p}) = n
(* spans[-n]: with n = 0 this is the first one. *)
FromLast(set, n) == Nth(set, IF n = 0 THEN 1 ELSE Cardinality(set) + 1 - n)

(* A token begins before it goes on. *)
Sensible(m) == \A p \in DOMAIN m : m[p] = "in" => p > 1 /\ m[p - 1] # "gap"

Init ==
  /\ lines \in UNION {[1 .. n -> Lines] : n \in 1 .. MaxLines}
  /\ marks \in {m \in [1 .. RegionEnd -> Marks] : Sensible(m)}
  /\ fragile \in Fragile
  /\ at = 0 /\ end = 0
  /\ windows = <<>>
  /\ chunks = <<>>
  /\ phase = "region"

Stop(outcome) == phase' = outcome /\ UNCHANGED <<lines, marks, fragile, at, end, windows, chunks>>

(* A region that fits is one window. *)
Whole ==
  /\ phase = "region"
  /\ IF Tokens(0, RegionEnd) <= Limit
       THEN windows' = <<<<0, RegionEnd>>>> /\ phase' = "map"
       ELSE phase' = "cut" /\ UNCHANGED windows
  /\ UNCHANGED <<lines, marks, fragile, at, end, chunks>>

-----------------------------------------------------------------------------
Capacity == Limit - Special

Cuttable ==
  /\ Capacity > Overlap
  /\ Starts(at, RegionEnd) # {}
  /\ Tokens(at, RegionEnd) > Limit => Cardinality(Starts(at, RegionEnd)) > Capacity

FirstEnd ==
  IF Tokens(at, RegionEnd) <= Limit THEN RegionEnd
  ELSE Nth(Starts(at, RegionEnd), Capacity + 1)

(* _containing_line_end, _protect_redacted_boundaries *)
LineEnd(offset) ==
  IF \E k \in DOMAIN lines : Inside(k, offset)
    THEN ProjectedEnd(CHOOSE k \in DOMAIN lines : Inside(k, offset))
    ELSE offset
ProtectedStart(offset) ==
  IF InRedacted(offset) THEN ProjectedStart(CHOOSE k \in DOMAIN lines : Inside(k, offset)) ELSE offset
ProtectedEnd(offset) ==
  IF InRedacted(offset) THEN LineEnd(offset) ELSE offset

(* _expand_to_complete_lines: the first candidate that fits.  The window    *)
(* begins at a line or stays where it is, for at was protected before.      *)
Expanded(first) ==
  IF Tokens(at, LineEnd(first)) <= Limit THEN LineEnd(first)
  ELSE IF Tokens(at, first) <= Limit THEN first
  ELSE ProtectedEnd(first)

Cut ==
  /\ phase = "cut"
  /\ IF Cuttable
       THEN /\ end' = Expanded(FirstEnd) /\ phase' = "fit"
            /\ UNCHANGED <<lines, marks, fragile, at, windows, chunks>>
       ELSE Stop("embedding_failed")

(* _fit_projection_window: cut again until what is cut off fits. *)
Shorter ==
  LET next == Nth(Starts(at, end), Capacity + 1)
  IN  IF ~InRedacted(next) THEN next
      ELSE IF ProtectedStart(next) > at THEN ProtectedStart(next)
      ELSE ProtectedEnd(next)

CutAgain ==
  /\ phase = "fit"
  /\ at >= end \/ Tokens(at, end) > Limit
  /\ IF /\ at < end /\ Capacity > 0 /\ Cardinality(Starts(at, end)) > Capacity
        /\ at < Shorter /\ Shorter < end
       THEN end' = Shorter /\ UNCHANGED <<lines, marks, fragile, at, windows, chunks, phase>>
       ELSE Stop("embedding_failed")

NextStart == ProtectedStart(FromLast(Starts(at, end), Overlap))

(* The window fits.  The next one begins with its last tokens. *)
Window ==
  /\ phase = "fit" /\ at < end
  /\ Tokens(at, end) <= Limit
  /\ \/ /\ end = RegionEnd
        /\ windows' = Append(windows, <<at, end>>)
        /\ phase' = "map"
        /\ UNCHANGED <<lines, marks, fragile, at, end, chunks>>
     \/ /\ end # RegionEnd
        /\ Cardinality(Starts(at, end)) > Overlap
        /\ at < NextStart /\ NextStart < end
        /\ windows' = Append(windows, <<at, end>>)
        /\ at' = NextStart
        /\ phase' = "cut"
        /\ UNCHANGED <<lines, marks, fragile, end, chunks>>
     \/ /\ end # RegionEnd
        /\ Cardinality(Starts(at, end)) <= Overlap \/ ~(at < NextStart /\ NextStart < end)
        /\ Stop("embedding_failed")

-----------------------------------------------------------------------------
LineOf(offset) == CHOOSE k \in DOMAIN lines : ProjectedStart(k) <= offset /\ offset < ProjectedEnd(k)

(* _projection_byte_offset: an offset inside a sentinel is no byte.         *)
None == -1
ByteOffset(offset) ==
  IF offset = RegionEnd THEN OriginalEnd(Len(lines))
  ELSE LET k == LineOf(offset)
       IN  IF lines[k].redacted /\ offset # ProjectedStart(k) THEN None
           ELSE OriginalStart(k)
                + (offset - ProjectedStart(k)) * (lines[k].bytes \div lines[k].chars)

(* The windows become ranges of bytes, which must cover the file. *)
Mapped(window) == <<ByteOffset(window[1]), ByteOffset(window[2])>>
RangesCover(ranges, size) ==
  /\ \E i \in DOMAIN ranges : ranges[i][1] = 0
  /\ \A i \in DOMAIN ranges : ranges[i][2] < size
       => \E j \in DOMAIN ranges : ranges[j][1] <= ranges[i][2] /\ ranges[i][2] < ranges[j][2]

Map ==
  LET ranges == [i \in DOMAIN windows |-> Mapped(windows[i])]
  IN  /\ phase = "map"
      /\ IF /\ \A i \in DOMAIN ranges : None # ranges[i][1] /\ ranges[i][1] < ranges[i][2]
            /\ \A i, j \in DOMAIN ranges : i # j => ranges[i] # ranges[j]
            /\ RangesCover(ranges, OriginalEnd(Len(lines)))
           THEN /\ chunks' = ranges
                /\ phase' = "done"
                /\ UNCHANGED <<lines, marks, fragile, at, end, windows>>
           ELSE Stop("backend_failed")

Next == Whole \/ Cut \/ CutAgain \/ Window \/ Map
Spec == Init /\ [][Next]_vars

-----------------------------------------------------------------------------
Phases == {"region", "cut", "fit", "map", "done", "embedding_failed", "backend_failed"}
TypeOK ==
  /\ lines \in Seq(Lines)
  /\ marks \in [1 .. RegionEnd -> Marks]
  /\ fragile \in Fragile
  /\ at \in 0 .. RegionEnd - 1
  /\ end \in 0 .. RegionEnd
  /\ \A i \in DOMAIN windows : windows[i] \in (0 .. RegionEnd) \X (1 .. RegionEnd)
  /\ \A i \in DOMAIN chunks : chunks[i] \in Nat \X Nat
  /\ phase \in Phases

(* No window has more tokens than the model takes (_retrieval.py:1947).     *)
WindowsFit == \A i \in DOMAIN windows : Tokens(windows[i][1], windows[i][2]) <= Limit

(***************************************************************************)
(* A window that is not the last one shares its last tokens with the next:  *)
(* no context is lost where a region is cut (M4:244).                       *)
(***************************************************************************)
WindowsOverlap ==
  \A i \in 1 .. Len(windows) - 1 :
    /\ Cardinality({p \in Starts(windows[i][1], windows[i][2]) : p >= windows[i + 1][1]}) >= Overlap
    /\ windows[i][1] < windows[i + 1][1] /\ windows[i + 1][1] < windows[i][2]

(***************************************************************************)
(* Every byte of the file is in a chunk, and a chunk has the whole of a     *)
(* redacted line or nothing of it (M4:256).                                 *)
(***************************************************************************)
ChunksAreWhole ==
  phase = "done" =>
    /\ \A b \in 0 .. OriginalEnd(Len(lines)) - 1 :
         \E i \in DOMAIN chunks : chunks[i][1] <= b /\ b < chunks[i][2]
    /\ \A i \in DOMAIN chunks, k \in DOMAIN lines : lines[k].redacted =>
         \/ chunks[i][2] <= OriginalStart(k) \/ OriginalEnd(k) <= chunks[i][1]
         \/ chunks[i][1] <= OriginalStart(k) /\ OriginalEnd(k) <= chunks[i][2]

(***************************************************************************)
(* Whatever the file, its bytes end up in chunks: neither the tokenizer's   *)
(* budget nor the checks of the code on its own work refuse it (M4:256,     *)
(* "Every non-empty original byte belongs to at least one chunk").          *)
(***************************************************************************)
EveryFileIsChunked == phase \notin {"embedding_failed", "backend_failed"}
=============================================================================
