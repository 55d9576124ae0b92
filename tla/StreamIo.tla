------------------------------ MODULE StreamIo ------------------------------
(***************************************************************************)
(* Scatter/gather I/O on one TCP connection.  A call moves a sequence of    *)
(* buffers through system calls that take or give any number of bytes:      *)
(* TcpSocket::Send and Recv, which keep their place in an IoVecCursor and   *)
(* serve blocking and non-blocking sockets, and TcpSocketUtil::Send and     *)
(* Recv, behind WriteVExact and ReadVExact, with an optional deadline.  A   *)
(* byte is known by its address at the sender.  An interrupted system call  *)
(* is made again and changes nothing.                                       *)
(***************************************************************************)
EXTENDS Integers, SequencesExt

CONSTANTS
    Layouts,       \* the lengths of the buffers of a call, as sequences
    Capacity       \* bytes the connection holds

ASSUME StreamAssumption ==
    /\ \A l \in Layouts : l # <<>> /\ \A j \in 1 .. Len(l) : l[j] \in Nat \ {0}
    /\ Capacity \in Nat \ {0}

VARIABLES
    writer, reader,   \* the two calls
    wire,             \* the bytes on their way
    landed,           \* the bytes stored at the reader, by address
    gone              \* the ends whose process has closed the connection

streamVars == <<writer, reader, wire, landed, gone>>

\* The calls: through a TcpSocket or TcpSocketUtil, and what they do when they would block.
Kinds == {[via |-> "socket", wait |-> "blocking"], [via |-> "socket", wait |-> "nonblocking"],
          [via |-> "util", wait |-> "blocking"], [via |-> "util", wait |-> "deadline"]}

\* Buffers lie apart from each other.
Buffers(layout) == [j \in 1 .. Len(layout) |-> [base |-> 100 * j, len |-> layout[j]]]
Covered(items) == FlattenSeq([j \in 1 .. Len(items) |-> [k \in 1 .. items[j].len |-> items[j].base + k - 1]])
TotalLength(items) == Len(Covered(items))

StartCall(layout, kind) ==
    [kind |-> kind, layout |-> layout, at |-> "io", items |-> Buffers(layout), cur |-> 1,
     left |-> TotalLength(Buffers(layout))]
Remaining(call) == Covered(SubSeq(call.items, call.cur, Len(call.items)))

\* A reader asks for no more than is written: a header before its payload.
StreamInit ==
    /\ \E l \in Layouts, m \in Layouts, k \in Kinds, h \in Kinds :
         /\ TotalLength(Buffers(m)) <= TotalLength(Buffers(l))
         /\ writer = StartCall(l, k) /\ reader = StartCall(m, h)
    /\ wire = <<>> /\ landed = << >> /\ gone = {}

\* IoVecCursor::Advance, and the same loop over `vecs` in TcpSocketUtil: pass the buffers that
\* are full, trim the next one.
Advance_untrimmed(call, bytes) ==
    LET Upto(j) == TotalLength(SubSeq(call.items, call.cur, j))
        next == CHOOSE j \in call.cur .. Len(call.items) + 1 :
                    Upto(j - 1) <= bytes /\ (j <= Len(call.items) => bytes < Upto(j))
    IN  [call EXCEPT !.left = @ - bytes, !.cur = next]
Advance(call, bytes) ==
    IF bytes = call.left THEN [call EXCEPT !.left = 0, !.cur = Len(call.items) + 1]
    ELSE LET Upto(j) == TotalLength(SubSeq(call.items, call.cur, j))
             next == CHOOSE j \in call.cur .. Len(call.items) : Upto(j - 1) <= bytes /\ bytes < Upto(j)
             skip == bytes - Upto(next - 1)
         IN  [call EXCEPT !.left = @ - bytes, !.cur = next,
                          !.items[next] = [base |-> @.base + skip, len |-> @.len - skip]]

Moved(call, bytes) ==
    LET c == Advance(call, bytes) IN IF c.left = 0 THEN [c EXCEPT !.at = "ok"] ELSE c

-----------------------------------------------------------------------------
\* Send: sendmsg takes some bytes.
Sendmsg ==
    /\ writer.at = "io" /\ gone = {}
    /\ \E bytes \in 1 .. writer.left :
         /\ Len(wire) + bytes <= Capacity
         /\ wire' = wire \o SubSeq(Remaining(writer), 1, bytes)
         /\ writer' = Moved(writer, bytes)
    /\ UNCHANGED <<reader, landed, gone>>

\* Recv: recvmsg or readv gives some bytes.
Recvmsg ==
    /\ reader.at = "io" /\ "reader" \notin gone
    /\ \E bytes \in 1 .. reader.left :
         LET where == SubSeq(Remaining(reader), 1, bytes)
         IN  /\ bytes <= Len(wire)
             /\ landed' = [a \in DOMAIN landed \cup ToSet(where) |->
                             IF a \in ToSet(where)
                             THEN wire[CHOOSE k \in 1 .. bytes : where[k] = a] ELSE landed[a]]
             /\ wire' = SubSeq(wire, bytes + 1, Len(wire))
             /\ reader' = Moved(reader, bytes)
    /\ UNCHANGED <<writer, gone>>

\* EAGAIN: a non-blocking call returns what it has moved, one with a deadline waits; a
\* blocking one sleeps in the kernel.
WouldBlock(call) ==
    CASE call.kind.wait = "nonblocking" -> [call EXCEPT !.at = "partial"]
      [] call.kind.wait = "deadline" -> [call EXCEPT !.at = "wait"]
      [] OTHER -> call
SendBlocks ==
    /\ writer.at = "io" /\ gone = {} /\ Len(wire) = Capacity
    /\ writer' = WouldBlock(writer)
    /\ UNCHANGED <<reader, wire, landed, gone>>
RecvBlocks ==
    /\ reader.at = "io" /\ gone = {} /\ wire = <<>>
    /\ reader' = WouldBlock(reader)
    /\ UNCHANGED <<writer, wire, landed, gone>>

\* Wait: poll says that the socket is ready or in error, or the deadline passes or poll fails.
SendWaits ==
    /\ writer.at = "wait"
    /\ \/ (Len(wire) < Capacity \/ gone # {}) /\ writer' = [writer EXCEPT !.at = "io"]
       \/ writer' = [writer EXCEPT !.at = "error"]
    /\ UNCHANGED <<reader, wire, landed, gone>>
RecvWaits ==
    /\ reader.at = "wait"
    /\ \/ (wire # <<>> \/ gone # {}) /\ reader' = [reader EXCEPT !.at = "io"]
       \/ reader' = [reader EXCEPT !.at = "error"]
    /\ UNCHANGED <<writer, wire, landed, gone>>

\* The caller of a non-blocking socket tries again with the rest of the cursor.
CallAgain ==
    \/ /\ writer.at = "partial" /\ writer' = [writer EXCEPT !.at = "io"]
       /\ UNCHANGED <<reader, wire, landed, gone>>
    \/ /\ reader.at = "partial" /\ reader' = [reader EXCEPT !.at = "io"]
       /\ UNCHANGED <<writer, wire, landed, gone>>

\* sendmsg fails once the reader has closed.
SendFails ==
    /\ writer.at = "io" /\ gone = {"reader"}
    /\ writer' = [writer EXCEPT !.at = "error"]
    /\ UNCHANGED <<reader, wire, landed, gone>>
\* recvmsg returns 0 at the end of the stream: TcpSocket::Recv returns the bytes it has,
\* TcpSocketUtil::Recv an error.
EndOfStream ==
    /\ reader.at = "io" /\ wire = <<>> /\ gone = {"writer"}
    /\ reader' = [reader EXCEPT !.at = IF reader.kind.via = "socket" THEN "short" ELSE "error"]
    /\ UNCHANGED <<writer, wire, landed, gone>>

\* A process ends, or closes the connection after its call.
Hangup(end) ==
    /\ end \notin gone /\ gone' = gone \cup {end}
    /\ UNCHANGED <<writer, reader, wire, landed>>

WriterStep == Sendmsg \/ SendBlocks \/ SendFails \/ SendWaits
ReaderStep == Recvmsg \/ RecvBlocks \/ EndOfStream \/ RecvWaits
StreamNext ==
    \/ WriterStep \/ ReaderStep \/ CallAgain
    \/ \E end \in {"writer", "reader"} : Hangup(end)

-----------------------------------------------------------------------------
(* However the system calls split the transfer, no byte is lost, repeated or
   moved: what the reader has stored, in the order of its buffers, then what is
   on the wire, then what the writer has left, is the message.  A Send that
   reports success has nothing left, and a Recv that does has filled its
   buffers, also when the connection ends early: the short count of
   TcpSocket::Recv is not a success to its callers. *)
StreamIsIntact ==
    LET message == Covered(Buffers(writer.layout))
        room == Covered(Buffers(reader.layout))
        stored == [k \in 1 .. TotalLength(Buffers(reader.layout)) - reader.left |-> landed[room[k]]]
    IN  /\ Cardinality(DOMAIN landed) = Len(stored)
        /\ stored \o wire \o Remaining(writer) = message
        /\ writer.at = "ok" => Len(stored) + Len(wire) = Len(message)
        /\ reader.at = "ok" => DOMAIN landed = ToSet(room)

=============================================================================
