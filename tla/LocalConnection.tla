--------------------------- MODULE LocalConnection --------------------------
(***************************************************************************)
(* One accepted connection of a local socket: serve_local_connection,      *)
(* drive_local_actions and read_local_frame of crates/zeta/src/lib.rs.     *)
(* The task selects over the host's shutdown, the next frame and the next  *)
(* event notification; a branch that wins drops the others, and with them  *)
(* what read_local_frame had taken from the reader.  A request is two      *)
(* pieces of a line and its newline, so that a read can end inside it.     *)
(***************************************************************************)
EXTENDS Naturals, SequencesExt

CONSTANTS
  None,
  Purpose,        \* "application" or "control"
  Kinds,          \* kinds of request the client writes
  MaxRequests,    \* bound on the requests written
  MaxEvents       \* bound on the notifications

VARIABLES
  written,     \* requests the client wrote, in order: their kinds
  wire,        \* bytes written and not yet received
  available,   \* the BufReader's buffer
  line,        \* read_local_frame's line
  overlong,    \* read_local_frame's flag
  initialized, \* the session is initialized
  status,      \* "open" or "closed"
  stopping,    \* the host was asked to stop
  replies,     \* messages written back, in order
  events       \* notifications broadcast so far

vars == <<written, wire, available, line, overlong, initialized, status,
          stopping, replies, events>>
reader == <<wire, available, line, overlong>>

NL == [id |-> 0, piece |-> 0]

(* The pieces of the n-th request: two fit the limit of a frame, and       *)
(* "oversized" has two more.                                               *)
MaxPieces == 2
Pieces(n, kind) ==
  [m \in 1 .. (IF kind = "oversized" THEN 4 ELSE 2) |-> [id |-> n, piece |-> m]]

(* A line is the request it was written as only when it is whole.          *)
IsWhole(bytes) == bytes # <<>> /\ bytes = Pieces(bytes[1].id, "list")
Decode(bytes, long) ==
  IF ~long /\ IsWhole(bytes) THEN bytes[1].id ELSE None

Init ==
  /\ written = <<>> /\ wire = <<>> /\ available = <<>> /\ line = <<>>
  /\ overlong = FALSE /\ initialized = FALSE
  /\ status = "open" /\ stopping = FALSE
  /\ replies = <<>> /\ events = 0

Write(kind) ==
  /\ Len(written) < MaxRequests
  /\ written' = Append(written, kind)
  /\ wire' = wire \o Append(Pieces(Len(written) + 1, kind), NL)
  /\ UNCHANGED <<available, line, overlong, initialized, status, stopping,
                 replies, events>>

(* fill_buf: some of the bytes have arrived.                               *)
Fill(count) ==
  /\ status = "open" /\ available = <<>> /\ count \in 1 .. Len(wire)
  /\ available' = SubSeq(wire, 1, count)
  /\ wire' = SubSeq(wire, count + 1, Len(wire))
  /\ UNCHANGED <<written, line, overlong, initialized, status, stopping,
                 replies, events>>

(* The bytes of this buffer that belong to the line, copied up to one past *)
(* the limit.                                                              *)
Newlines(bytes) == {n \in 1 .. Len(bytes) : bytes[n] = NL}
Taken(bytes) ==
  IF Newlines(bytes) = {} THEN bytes
  ELSE SubSeq(bytes, 1, (CHOOSE n \in Newlines(bytes) :
                           \A m \in Newlines(bytes) : n <= m) - 1)
Copied(bytes) ==
  LET remaining == MaxPieces + 1 - Len(line)
  IN  SubSeq(Taken(bytes), 1,
             IF Len(Taken(bytes)) < remaining THEN Len(Taken(bytes))
             ELSE remaining)
NextLine == IF overlong THEN line ELSE line \o Copied(available)
NextOverlong ==
  \/ overlong
  \/ Len(Taken(available)) > Len(Copied(available)) \/ Len(NextLine) > MaxPieces

(* read_local_frame without a newline: the piece is consumed and waits in  *)
(* the line of this call.                                                  *)
ReadPiece ==
  /\ status = "open" /\ available # <<>> /\ Newlines(available) = {}
  /\ line' = NextLine /\ overlong' = NextOverlong
  /\ available' = <<>>
  /\ UNCHANGED <<written, wire, initialized, status, stopping, replies, events>>

Reply(id, answer) == Append(replies, [id |-> id, answer |-> answer])

(* session.receive and drive_local_actions for one frame: the replies, the *)
(* session and connection afterwards, and whether the host is asked to     *)
(* stop.  A refused request is answered and then ends the connection; a    *)
(* frame that is no message is answered without an identifier.             *)
Drive(id, kind) ==
  IF id = None
  THEN [answer |-> "error", initialized |-> initialized, ends |-> FALSE,
        stops |-> FALSE]
  ELSE IF ~initialized
  THEN [answer |-> IF kind = "initialize" THEN "success" ELSE "error",
        initialized |-> kind = "initialize", ends |-> kind # "initialize",
        stops |-> FALSE]
  ELSE CASE kind = "initialize" ->
              [answer |-> "error", initialized |-> TRUE, ends |-> TRUE,
               stops |-> FALSE]
         [] kind = "shutdown" ->
              [answer |-> IF Purpose = "control" THEN "success" ELSE "error",
               initialized |-> TRUE, ends |-> TRUE,
               stops |-> Purpose = "control"]
         [] OTHER ->
              [answer |-> IF Purpose = "control" THEN "error" ELSE "success",
               initialized |-> TRUE, ends |-> FALSE, stops |-> FALSE]

ReadLine_DropsRest ==
  /\ status = "open" /\ Newlines(available) # {}
  /\ LET id == Decode(NextLine, NextOverlong)
         out == Drive(id, IF id = None THEN None ELSE written[id])
     IN  /\ replies' = Reply(id, out.answer)
         /\ initialized' = out.initialized
         /\ status' = IF out.ends THEN "closed" ELSE "open"
         /\ stopping' = (stopping \/ out.stops)
  /\ available' = <<>> /\ line' = <<>> /\ overlong' = FALSE
  /\ UNCHANGED <<written, wire, events>>
ReadLine ==
  /\ status = "open" /\ Newlines(available) # {}
  /\ LET id == Decode(NextLine, NextOverlong)
         out == Drive(id, IF id = None THEN None ELSE written[id])
     IN  /\ replies' = Reply(id, out.answer)
         /\ initialized' = out.initialized
         /\ status' = IF out.ends THEN "closed" ELSE "open"
         /\ stopping' = (stopping \/ out.stops)
  /\ available' = SubSeq(available, Len(Taken(available)) + 2, Len(available))
  /\ line' = <<>> /\ overlong' = FALSE
  /\ UNCHANGED <<written, wire, events>>

(* The notification branch wins while the read waits for bytes: the read   *)
(* is dropped, and the next iteration starts one with an empty line.  A    *)
(* control connection ignores the notification, an application one sends   *)
(* it once it is initialized; a lagging receiver skips it.                 *)
Notify ==
  /\ status = "open" /\ events < MaxEvents /\ available = <<>>
  /\ events' = events + 1
  /\ line' = <<>> /\ overlong' = FALSE
  /\ \/ /\ initialized /\ Purpose = "application"
        /\ replies' = Reply(None, "event")
     \/ UNCHANGED replies
  /\ UNCHANGED <<written, wire, available, initialized, status, stopping>>

(* The host stops: the connection's task ends at its next select.          *)
HostStops ==
  /\ status = "open"
  /\ stopping' = TRUE /\ status' = "closed"
  /\ UNCHANGED <<written, reader, initialized, replies, events>>

Next ==
  \/ \E kind \in Kinds : Write(kind)
  \/ \E count \in 1 .. Len(wire) : Fill(count)
  \/ ReadPiece \/ ReadLine \/ Notify \/ HostStops

Spec == Init /\ [][Next]_vars

----------------------------------------------------------------------------
(* Every variable holds a value of its type, and a line never exceeds its  *)
(* limit by more than the byte that proves it too long.                    *)
TypeOK ==
  /\ status \in {"open", "closed"} /\ initialized \in BOOLEAN
  /\ Len(line) <= MaxPieces + 1
  /\ overlong => Len(line) = MaxPieces + 1
  /\ events \in 0 .. MaxEvents

Answered == SelectSeq(replies, LAMBDA r : r.id # None)

(* Answers come in the order of the requests, one each: a request line is  *)
(* never taken for another and never answered twice.                       *)
AnswersInOrder ==
  \A m, n \in DOMAIN Answered : m < n => Answered[m].id < Answered[n].id

(* "One line contains exactly one JSON object" (spec/ipc-v0.md): when the  *)
(* server has read everything the client wrote, every request it could     *)
(* read has been answered under its own identifier.                        *)
EveryRequestIsAnswered ==
  (status = "open" /\ wire = <<>> /\ available = <<>> /\ line = <<>>
   /\ ~overlong)
  => \A n \in DOMAIN written :
       written[n] # "oversized" => \E m \in DOMAIN replies : replies[m].id = n

(* Without notifications in between, the same holds of the code.           *)
UndisturbedRequestIsAnswered == events = 0 => EveryRequestIsAnswered
=============================================================================
