---------------------------- MODULE FrameReader -----------------------------
(***************************************************************************)
(* The bounded reader of newline-delimited frames,                         *)
(* crates/zeta-ipc/src/frame.rs.  Bytes arrive in chunks of any size; a    *)
(* byte is a newline, a carriage return or data.  What a line says is      *)
(* abstracted to its bytes: parsing a line does not depend on the others.  *)
(***************************************************************************)
EXTENDS Naturals, SequencesExt

CONSTANTS MaxFrameBytes, Streams

NL == "newline"
CR == "return"

VARIABLES
  stream,      \* all the bytes the peer writes
  input,       \* the bytes not read yet
  buffer,      \* FrameReader.buffer
  eof,         \* FrameReader.eof
  discarding,  \* inside discard_until_newline
  frames,      \* the frames returned
  ended        \* read_frame returned None

vars == <<stream, input, buffer, eof, discarding, frames, ended>>

Overlong == [rule |-> "frame_too_long"]

(* The trailing carriage returns of a line go; the rest is the text.       *)
Trim(line) ==
  LET kept == {n \in 0 .. Len(line) :
                 \A m \in n + 1 .. Len(line) : line[m] = CR}
  IN  SubSeq(line, 1, CHOOSE n \in kept : \A m \in kept : n <= m)

DecodeLine(line) ==
  IF Trim(line) = <<>> THEN [rule |-> "empty_line"]
  ELSE [rule |-> "decoded", text |-> Trim(line)]

BoundedFrame(line) ==
  IF Len(line) > MaxFrameBytes THEN Overlong ELSE DecodeLine(line)

PositionsOfNewline(bytes) == {n \in 1 .. Len(bytes) : bytes[n] = NL}
HasNewline(bytes) == PositionsOfNewline(bytes) # {}
FirstNewline(bytes) ==
  CHOOSE n \in PositionsOfNewline(bytes) :
    \A m \in PositionsOfNewline(bytes) : n <= m
Before(bytes, n) == SubSeq(bytes, 1, n - 1)
After(bytes, n) == SubSeq(bytes, n + 1, Len(bytes))

Init ==
  /\ stream \in Streams
  /\ input = stream
  /\ buffer = <<>> /\ frames = <<>>
  /\ eof = FALSE /\ discarding = FALSE /\ ended = FALSE

Return(frame) == frames' = Append(frames, frame)

(* read_frame: a complete line is in the buffer.                           *)
TakeLine ==
  /\ ~ended /\ ~discarding /\ HasNewline(buffer)
  /\ Return(BoundedFrame(Before(buffer, FirstNewline(buffer))))
  /\ buffer' = After(buffer, FirstNewline(buffer))
  /\ UNCHANGED <<stream, input, eof, discarding, ended>>

(* read_frame at the end of the stream: the last object needs no newline.  *)
TakeRest ==
  /\ ~ended /\ ~discarding /\ ~HasNewline(buffer) /\ eof
  /\ IF buffer = <<>>
     THEN ended' = TRUE /\ UNCHANGED <<frames, buffer>>
     ELSE Return(BoundedFrame(buffer)) /\ buffer' = <<>> /\ UNCHANGED ended
  /\ UNCHANGED <<stream, input, eof, discarding>>

Incomplete == ~ended /\ ~discarding /\ ~HasNewline(buffer) /\ ~eof

ReadChunk(count) ==
  /\ Incomplete /\ Len(buffer) <= MaxFrameBytes
  /\ count <= Len(input) /\ (count = 0 => input = <<>>)
  /\ eof' = (count = 0)
  /\ buffer' = buffer \o SubSeq(input, 1, count)
  /\ input' = After(input, count)
  /\ UNCHANGED <<stream, discarding, frames, ended>>

StartDiscard ==
  /\ Incomplete /\ Len(buffer) > MaxFrameBytes
  /\ discarding' = TRUE /\ buffer' = <<>>
  /\ UNCHANGED <<stream, input, eof, frames, ended>>

(* discard_until_newline: what follows the newline stays for the next call *)
DiscardChunk_DropsRest(count) ==
  LET chunk == SubSeq(input, 1, count)
  IN  /\ discarding
      /\ count <= Len(input) /\ (count = 0 => input = <<>>)
      /\ input' = After(input, count)
      /\ eof' = (count = 0)
      /\ IF count = 0 \/ HasNewline(chunk)
         THEN Return(Overlong) /\ discarding' = FALSE
         ELSE UNCHANGED <<frames, discarding>>
      /\ UNCHANGED <<stream, ended, buffer>>
DiscardChunk(count) ==
  LET chunk == SubSeq(input, 1, count)
  IN  /\ discarding
      /\ count <= Len(input) /\ (count = 0 => input = <<>>)
      /\ input' = After(input, count)
      /\ eof' = (count = 0)
      /\ IF count = 0 \/ HasNewline(chunk)
         THEN /\ Return(Overlong)
              /\ discarding' = FALSE
              /\ buffer' = IF count = 0 THEN <<>>
                           ELSE After(chunk, FirstNewline(chunk))
         ELSE UNCHANGED <<frames, discarding, buffer>>
      /\ UNCHANGED <<stream, ended>>

Next ==
  \/ TakeLine \/ TakeRest \/ StartDiscard
  \/ \E count \in 0 .. Len(input) : ReadChunk(count) \/ DiscardChunk(count)

Spec == Init /\ [][Next]_vars

----------------------------------------------------------------------------
(* The reference splits the whole stream at its newlines; a last line that *)
(* is empty is no line.                                                    *)
Cuts(bytes) == {0, Len(bytes) + 1} \cup PositionsOfNewline(bytes)
Cut(bytes, n) ==
  CHOOSE c \in Cuts(bytes) : Cardinality({d \in Cuts(bytes) : d < c}) = n
AllLines(bytes) ==
  [n \in 1 .. Cardinality(Cuts(bytes)) - 1 |->
     SubSeq(bytes, Cut(bytes, n - 1) + 1, Cut(bytes, n) - 1)]
Lines(bytes) ==
  IF Last(AllLines(bytes)) = <<>> THEN Front(AllLines(bytes))
  ELSE AllLines(bytes)

(* Every variable holds a value of its type, and the buffer is bounded by  *)
(* one line and one chunk: a receiver bounds memory (read_frame).          *)
TypeOK ==
  /\ eof \in BOOLEAN /\ discarding \in BOOLEAN /\ ended \in BOOLEAN
  /\ IsSuffix(input, stream)
  /\ discarding => buffer = <<>>

(* Chunking is invisible: however the bytes are cut, the frames are the    *)
(* lines of the stream in order, the overlong ones reported once each and  *)
(* never swallowing the line after them.                                   *)
FramesAreLines ==
  /\ Len(frames) <= Len(Lines(stream))
  /\ ended => Len(frames) = Len(Lines(stream))
  /\ \A n \in 1 .. Len(frames) :
       LET line == Lines(stream)[n]
       IN  IF Len(line) > MaxFrameBytes THEN frames[n] = Overlong
           ELSE frames[n] = DecodeLine(line)
=============================================================================
