------------------------------- MODULE Telefig -------------------------------
(***************************************************************************)
(* hw25/telefig.c: connects to the first address that answers, skips what  *)
(* the server says, sends a command and prints the answer.  It takes a     *)
(* second without data for the end, in both loops.  A byte is its number   *)
(* in the banner or in the answer, which begins with the command's echo.   *)
(***************************************************************************)
EXTENDS Integers, SequencesExt

CONSTANTS Addresses, Banner, Answer, Echo, BUF_SIZE

\* Banner, Answer and Echo are numbers of bytes; the echo is a part of the
\* answer, which is longer.

VARIABLES
  pc,       \* "connect", "skip", "collect", "done", "failed", "crashed"
  rp,       \* the address tried
  coming,   \* what the server has yet to deliver
  socket,   \* what was delivered and not received yet
  buf,      \* the first len bytes
  printed,
  late      \* history: a recv timed out while something was still to come

vars == <<pc, rp, coming, socket, buf, printed, late>>

Bytes(of, n) == [k \in 1..n |-> <<of, k>>]

Init ==
  /\ pc = "connect" /\ rp = 1
  /\ coming = Bytes("banner", Banner)
  /\ socket = <<>> /\ buf = <<>> /\ printed = <<>> /\ late = FALSE

\* TCP delivers in segments of any size.
Deliver ==
  /\ pc \in {"skip", "collect"}
  /\ \E k \in 1 .. Len(coming) :
       /\ socket' = socket \o SubSeq(coming, 1, k)
       /\ coming' = SubSeq(coming, k + 1, Len(coming))
  /\ UNCHANGED <<pc, rp, buf, printed, late>>

Connect ==
  /\ pc = "connect"
  /\ IF rp > Addresses THEN pc' = "failed" /\ UNCHANGED rp
     ELSE \/ pc' = "skip" /\ UNCHANGED rp
          \/ rp' = rp + 1 /\ UNCHANGED pc
  /\ UNCHANGED <<coming, socket, buf, printed, late>>

Skip ==
  /\ pc = "skip" /\ socket # <<>>
  /\ socket' = SubSeq(socket, BUF_SIZE + 1, Len(socket))
  /\ UNCHANGED <<pc, rp, coming, buf, printed, late>>

\* The command is sent as soon as a recv times out.
SendCommand ==
  /\ pc = "skip" /\ socket = <<>>
  /\ late' = (coming # <<>>)
  /\ coming' = coming \o Bytes("answer", Answer)
  /\ pc' = "collect"
  /\ UNCHANGED <<rp, socket, buf, printed>>

\* Mutant of Received: every recv writes to the start of the buffer.
ReceivedOver(n) == SubSeq(socket, 1, n) \o SubSeq(buf, n + 1, Len(buf))

Received(n) == buf \o SubSeq(socket, 1, n)

Collect ==
  /\ pc = "collect" /\ socket # <<>> /\ Len(buf) < BUF_SIZE
  /\ LET room == BUF_SIZE - Len(buf)
         n == IF Len(socket) < room THEN Len(socket) ELSE room IN
     /\ buf' = Received(n)
     /\ socket' = SubSeq(socket, n + 1, Len(socket))
  /\ UNCHANGED <<pc, rp, coming, printed, late>>

\* A full buffer makes recv return 0, no data makes it fail; without any data,
\* len - 1 is the largest size_t and the loop runs off the buffer.
PrintAnswer ==
  /\ pc = "collect" /\ (socket = <<>> \/ Len(buf) = BUF_SIZE)
  /\ late' = (late \/ (socket = <<>> /\ Len(buf) < BUF_SIZE /\ coming # <<>>))
  /\ IF buf = <<>> THEN pc' = "crashed" /\ UNCHANGED printed
     ELSE pc' = "done" /\ printed' = SubSeq(buf, Echo + 1, Len(buf) - 1)
  /\ UNCHANGED <<rp, coming, socket, buf>>

Next == Deliver \/ Connect \/ Skip \/ SendCommand \/ Collect \/ PrintAnswer

-----------------------------------------------------------------------------
\* However the answer is cut into segments, if the server never pauses for a
\* second while it has something to say, what is printed is the answer behind the
\* echo, as far as the buffer goes, without its last byte.
PromptAnswerIsShown ==
  pc \in {"done", "crashed"} /\ ~ late =>
    /\ pc = "done"
    /\ printed = [k \in 1 .. Min({Answer, BUF_SIZE}) - 1 - Echo |-> <<"answer", Echo + k>>]
=============================================================================
