----------------------------- MODULE SocketReads -----------------------------
(***************************************************************************)
(* The reads of a socket other than the relay's: ReceiveLine, RecvBlocking *)
(* and Receive of Socket (socket/Socket.cpp), and ReceiveLine,             *)
(* RecvBlocking and ReceiveBytes of SSLSocket (socket/SSLSocket.cpp).      *)
(*                                                                         *)
(* The two classes have the same loops over recv() and SSL_read().  A      *)
(* stream of bytes has no boundaries, and recv() takes any part of what    *)
(* has arrived; SSL_read() takes a record from the stream as a whole, and  *)
(* what it does not return of it stays in the SSL object, where select()   *)
(* cannot see it.                                                          *)
(*                                                                         *)
(* Bytes are numbered in the order the peer writes them.  A socket has a   *)
(* receive timeout (ThreadHandler sets one second), so a read that waits   *)
(* may fail; and there are errors after which every read fails.  A size_t  *)
(* has Word values, and a read of -1 bytes is one of Word - 1.             *)
(***************************************************************************)
EXTENDS Naturals, Sequences

CONSTANTS
  MaxBytes,      \* bound: how many bytes the peer writes
  Newlines,      \* which of them are line ends
  MaxRecord,     \* bound: how many bytes one write of the peer has
  ReadBuffer,    \* SSL_READ_BUFFER
  Word,          \* 2^64: how many values a size_t has
  Lengths,       \* bound: what RecvBlocking and Receive are asked for
  MaxFailures    \* bound: how often a read times out or is interrupted, and
                 \* how many failed reads are counted

ASSUME ReadsAssumption ==
  /\ MaxBytes \in Nat /\ MaxRecord \in Nat /\ MaxFailures \in Nat
  /\ Newlines \subseteq 1..MaxBytes
  /\ ReadBuffer \in Nat \ {0}
  /\ Word \in Nat \ {0}
  /\ \A l \in Lengths : l \in 1..(Word - 1) /\ l + MaxFailures < Word

VARIABLES
  secure,     \* whether this is an SSLSocket; never changes
  written,    \* how many bytes the peer has written
  wire,       \* the sizes of what has arrived: of records, or of the stream
  fin,        \* the peer has closed
  broken,     \* an error has come that stays: a descriptor that is no
              \* connection (any more), an SSL object in its error state
  pending,    \* SSL_pending: what is left of the record taken last
  taken,      \* how many bytes have been received
  failures,   \* how many reads have failed, as far as they are counted
  call,       \* "none", or the call under way: "line", "block", "bytes"
  from,       \* how many bytes had been received when the call began
  faulted,    \* a read of this call failed
  length,     \* RecvBlocking: length,
  remaining,  \* recv_remaining,
  at,         \* where in the caller's buffer the next byte goes,
  buffer,     \* and the byte at each offset (0: none)
  result      \* the last call that returned: its kind, the bytes it reported
              \* (after first, up to last), its value and whether a read failed

stream == <<written, wire, fin, broken>>
received == <<pending, taken, failures>>
block == <<length, remaining, at, buffer>>
vars == <<secure, stream, received, call, from, faulted, block, result>>

Empty == [o \in 0..(Word - 1) |-> 0]

Init ==
  /\ secure \in BOOLEAN
  /\ written = 0 /\ wire = <<>> /\ fin = FALSE /\ broken = FALSE
  /\ pending = 0 /\ taken = 0 /\ failures = 0
  /\ call = "none" /\ from = 0 /\ faulted = FALSE
  /\ length = 0 /\ remaining = 0 /\ at = 0 /\ buffer = Empty
  /\ result = [call |-> "none", first |-> 0, last |-> 0, value |-> 0, faulted |-> FALSE]

-------------------------------------------------------------------------------
(* The peer and the connection. *)

PeerWrites(n) ==
  /\ ~fin
  /\ written + n <= MaxBytes
  /\ written' = written + n
  /\ wire' = IF secure \/ wire = <<>> THEN Append(wire, n) ELSE <<wire[1] + n>>
  /\ UNCHANGED <<secure, fin, broken, received, call, from, faulted, block, result>>

PeerCloses ==
  /\ ~fin
  /\ fin' = TRUE
  /\ UNCHANGED <<secure, written, wire, broken, received, call, from, faulted, block, result>>

Breaks ==
  /\ ~broken
  /\ broken' = TRUE
  /\ UNCHANGED <<secure, written, wire, fin, received, call, from, faulted, block, result>>

-------------------------------------------------------------------------------
(* recv() and SSL_read(). *)

(* What can be read without waiting. *)
Available ==
  IF pending > 0 THEN pending ELSE IF wire = <<>> THEN 0 ELSE Head(wire)

AtMost(n) == IF n < Available THEN n ELSE Available

(* What the caller does not take is not taken off the stream either. *)
Take_Again(n) ==
  /\ n \in 1..Available
  /\ taken' = taken + n
  /\ LET rest == Available - n IN
     IF secure
     THEN /\ pending' = rest
          /\ wire' = wire
     ELSE /\ pending' = 0
          /\ wire' = IF rest = 0 THEN <<>> ELSE <<rest>>
  /\ UNCHANGED <<secure, written, fin, broken>>

(* A read that returns n bytes. *)
Take(n) ==
  /\ ~broken
  /\ n \in 1..Available
  /\ taken' = taken + n
  /\ LET rest == Available - n IN
     IF secure
     THEN /\ pending' = rest
          /\ wire' = IF pending > 0 THEN wire ELSE Tail(wire)
     ELSE /\ pending' = 0
          /\ wire' = IF rest = 0 THEN <<>> ELSE <<rest>>
  /\ UNCHANGED <<secure, written, fin, broken>>

(* A read that returns 0: the end of the stream. *)
Ends == Available = 0 /\ fin /\ ~broken

(* A read that returns -1: once, after its timeout, an interruption or a    *)
(* reset, or again and again, whatever there would be to read.              *)
Fails ==
  /\ broken \/ (Available = 0 /\ failures < MaxFailures)
  /\ failures' = IF failures < MaxFailures THEN failures + 1 ELSE failures
  /\ UNCHANGED <<secure, stream, pending, taken>>

(* A call begins. *)
Call(kind) ==
  /\ call = "none"
  /\ call' = kind
  /\ from' = taken
  /\ faulted' = FALSE
  /\ UNCHANGED <<secure, stream, received, result>>

(* It returns value, having reported the bytes after from up to last. *)
Return(last, value, failed) ==
  /\ call' = "none"
  /\ result' = [call |-> call, first |-> from, last |-> last, value |-> value,
                faulted |-> failed]
  /\ UNCHANGED <<from, faulted>>

Continue == UNCHANGED <<call, from, result>>

-------------------------------------------------------------------------------
(* ReceiveLine: one byte at a time. *)

CallReceiveLine == Call("line") /\ UNCHANGED block

(* A line is taken to end with its first byte after the newline. *)
LineByte_LooksBack ==
  /\ call = "line"
  /\ Take(1)
  /\ IF taken \in Newlines
     THEN Return(taken', 0, FALSE)
     ELSE Continue /\ UNCHANGED faulted
  /\ UNCHANGED <<failures, block>>

LineByte ==
  /\ call = "line"
  /\ Take(1)
  /\ IF taken' \in Newlines
     THEN Return(taken', 0, FALSE)
     ELSE Continue /\ UNCHANGED faulted
  /\ UNCHANGED <<failures, block>>

(* A line is only done with its line end. *)
LineEnds_Retries ==
  /\ call = "line"
  /\ Ends
  /\ Continue
  /\ UNCHANGED <<secure, stream, received, block, faulted>>

(* The last line need not end in a newline. *)
LineEnds ==
  /\ call = "line"
  /\ Ends
  /\ Return(taken, 0, FALSE)
  /\ UNCHANGED <<secure, stream, received, block>>

(* The empty string, whatever was received of the line. *)
LineFails ==
  /\ call = "line"
  /\ Fails
  /\ Return(from, 0, TRUE)
  /\ UNCHANGED block

-------------------------------------------------------------------------------
(* RecvBlocking. *)

CallRecvBlocking(l) ==
  /\ Call("block")
  /\ length' = l /\ remaining' = l
  /\ at' = 0 /\ buffer' = Empty

Minus(a, b) == (a + Word - b) % Word

(* recv_remaining and buffer after a read of n bytes, as a size_t. *)
Advance(n) ==
  /\ remaining' = Minus(remaining, n)
  /\ at' = (at + n) % Word
  /\ UNCHANGED length

(* Bytes are put at the start of the buffer again. *)
Store_AtStart(n) ==
  buffer' = [o \in DOMAIN buffer |-> IF o < n THEN taken + 1 + o ELSE buffer[o]]

(* The next n bytes go to buffer. *)
Store(n) ==
  buffer' = [o \in DOMAIN buffer |->
               IF Minus(o, at) < n THEN taken + 1 + Minus(o, at) ELSE buffer[o]]

(* MSG_WAITALL waits for all that is asked for, unless the stream ends or   *)
(* the wait is interrupted; SSL_read returns what its record has.           *)
WaitsForAll == ~secure /\ Available < remaining /\ ~fin

BlockData ==
  LET n == AtMost(remaining) IN
  /\ call = "block"
  /\ \/ ~WaitsForAll /\ UNCHANGED failures
     \/ WaitsForAll /\ failures < MaxFailures /\ failures' = failures + 1
  /\ Take(n)
  /\ Store(n)
  /\ Advance(n)
  /\ IF remaining = n
     THEN Return(taken', length, faulted)
     ELSE Continue /\ UNCHANGED faulted

(* A failed read is counted as one byte received and dropped. *)
BlockFails_Counts ==
  /\ call = "block"
  /\ Fails
  /\ remaining' = Minus(remaining, 1)
  /\ UNCHANGED <<at, length, buffer>>
  /\ faulted' = TRUE
  /\ IF remaining = 1 THEN Return(taken, length, TRUE) ELSE Continue

(* A failed read is -1 as a size_t, which is not <= 0: the loop goes on, a  *)
(* byte further back and with one more byte to go.  When no more failures   *)
(* are counted, it goes round where it is.                                  *)
BlockFails ==
  /\ call = "block"
  /\ Fails
  /\ IF failures < MaxFailures
     THEN Advance(Word - 1)
     ELSE UNCHANGED <<length, remaining, at>>
  /\ faulted' = TRUE
  /\ Continue
  /\ UNCHANGED buffer

(* What was received so far is not reported. *)
BlockEnds ==
  /\ call = "block"
  /\ Ends
  /\ Return(from, 0, faulted)
  /\ UNCHANGED <<secure, stream, received, block>>

-------------------------------------------------------------------------------
(* SSLSocket::ReceiveBytes, and Receive, which is one recv(). *)

CallReceiveBytes == secure /\ Call("bytes") /\ UNCHANGED block

(* A read that did not fill the buffer is the last. *)
BytesData_ShortRead ==
  /\ call = "bytes"
  /\ Take(AtMost(ReadBuffer))
  /\ IF pending' = 0 \/ taken' - taken <= ReadBuffer
     THEN Return(taken', 0, FALSE)
     ELSE Continue /\ UNCHANGED faulted
  /\ UNCHANGED <<failures, block>>

(* The loop goes on for as long as SSL_pending says there is more. *)
BytesData ==
  /\ call = "bytes"
  /\ Take(AtMost(ReadBuffer))
  /\ IF pending' = 0
     THEN Return(taken', 0, FALSE)
     ELSE Continue /\ UNCHANGED faulted
  /\ UNCHANGED <<failures, block>>

(* SSL_read returns 0 at the end, which adds nothing. *)
BytesEnds ==
  /\ call = "bytes"
  /\ Ends
  /\ Return(taken, 0, FALSE)
  /\ UNCHANGED <<secure, stream, received, block>>

BytesFails ==
  /\ call = "bytes"
  /\ Fails
  /\ Return(taken, 0, TRUE)
  /\ UNCHANGED block

(* The number of bytes is returned in len; at the end and after a failure   *)
(* the call returns false.                                                  *)
Receive(len) ==
  /\ call = "none" /\ ~secure
  /\ Take(AtMost(len))
  /\ result' = [call |-> "receive", first |-> taken, last |-> taken',
                value |-> taken' - taken, faulted |-> FALSE]
  /\ UNCHANGED <<failures, call, from, faulted, block>>

-------------------------------------------------------------------------------
Reading ==
  \/ LineByte \/ LineEnds \/ LineFails
  \/ BlockData \/ BlockFails \/ BlockEnds
  \/ BytesData \/ BytesEnds \/ BytesFails

Next ==
  \/ \E n \in 1..MaxRecord : PeerWrites(n)
  \/ PeerCloses \/ Breaks
  \/ CallReceiveLine \/ CallReceiveBytes
  \/ \E l \in Lengths : CallRecvBlocking(l) \/ Receive(l)
  \/ Reading

Spec == Init /\ [][Next]_vars

(* The caller's thread is run. *)
FairSpec == Spec /\ WF_vars(Reading)

-------------------------------------------------------------------------------
(* Properties. *)

TypeOK ==
  /\ secure \in BOOLEAN
  /\ written \in 0..MaxBytes
  /\ wire \in Seq(1..MaxBytes)
  /\ fin \in BOOLEAN /\ broken \in BOOLEAN
  /\ pending \in 0..MaxRecord
  /\ taken \in 0..written
  /\ failures \in 0..MaxFailures
  /\ call \in {"none", "line", "block", "bytes"}
  /\ from \in 0..taken
  /\ faulted \in BOOLEAN
  /\ length \in 0..(Word - 1) /\ remaining \in 0..(Word - 1) /\ at \in 0..(Word - 1)
  /\ buffer \in [0..(Word - 1) -> 0..MaxBytes]
  /\ ~secure => pending = 0 /\ Len(wire) <= 1

Reported == (result.first + 1)..result.last

(* What ReceiveLine returns has no line end but as its last byte, and ends  *)
(* with one unless the stream has ended or the string is empty: it is never *)
(* more than a line, though a read that failed may have cost its start.     *)
AtMostOneLine ==
  result.call = "line" /\ Reported # {} =>
    /\ Reported \cap Newlines \subseteq {result.last}
    /\ result.last \in Newlines \/ fin

(* RecvBlocking that returns its length has filled the buffer with the next *)
(* bytes of the stream, however they came, if none of its reads failed.     *)
BlockFilled ==
  result.call = "block" /\ call = "none" /\ result.value # 0 /\ ~result.faulted =>
    \A i \in 0..(length - 1) : buffer[i] = result.first + 1 + i

(* Failed reads move RecvBlocking back, to before the buffer if nothing was *)
(* received yet, but never make it write past the end: what is still to be  *)
(* received always ends where the buffer does.                              *)
EndKept == call = "block" => (at + remaining) % Word = length

(* When ReceiveBytes returns without a failure, nothing is left in the SSL  *)
(* object: a select() on the descriptor then tells whether there is more.   *)
NothingHidden ==
  result.call = "bytes" /\ call = "none" /\ ~result.faulted => pending = 0

(* Once the peer has closed, or an error has come that stays, every call    *)
(* returns, with one exception: RecvBlocking, which never takes a failed    *)
(* read for one, goes on for ever on a socket whose reads all fail.         *)
CallsReturn == (fin \/ broken) ~> (call = "none" \/ (call = "block" /\ broken))
===============================================================================
