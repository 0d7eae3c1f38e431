-------------------------------- MODULE Fifo --------------------------------
(***************************************************************************)
(* What a pipe promises to its two ends: a bounded first-in first-out      *)
(* queue of bytes, end-of-file when it is empty and can no longer be       *)
(* filled.  Pipe.tla implements it with the ring buffer of vfs.c as long   *)
(* as no timer tick falls inside a copy.                                   *)
(***************************************************************************)
EXTENDS Naturals, Sequences

CONSTANTS Size,    \* PIPE_BUF_SIZE
          Bytes

VARIABLES queue,       \* bytes in flight
          delivered,   \* all bytes handed to the reader, in order
          wopen,       \* some write descriptor is open
          ropen,       \* some read descriptor is open
          eof,         \* the reader was told end-of-file
          epipe        \* the writer was told -EPIPE

vars == <<queue, delivered, wopen, ropen, eof, epipe>>

Init ==
  /\ queue = <<>> /\ delivered = <<>>
  /\ wopen = TRUE /\ ropen = TRUE /\ eof = FALSE /\ epipe = FALSE

Put ==
  /\ wopen /\ ropen
  /\ \E n \in 1 .. Size - Len(queue) : \E s \in [1 .. n -> Bytes] :
       queue' = queue \o s
  /\ UNCHANGED <<delivered, wopen, ropen, eof, epipe>>

Get ==
  /\ ropen
  /\ \E n \in 1 .. Len(queue) :
       /\ delivered' = delivered \o SubSeq(queue, 1, n)
       /\ queue' = SubSeq(queue, n + 1, Len(queue))
  /\ UNCHANGED <<wopen, ropen, eof, epipe>>

Eof ==
  /\ ropen /\ ~wopen /\ queue = <<>>
  /\ eof' = TRUE
  /\ UNCHANGED <<queue, delivered, wopen, ropen, epipe>>

Epipe ==
  /\ wopen /\ ~ropen
  /\ epipe' = TRUE
  /\ UNCHANGED <<queue, delivered, wopen, ropen, eof>>

CloseWrite ==
  /\ wopen' = FALSE
  /\ UNCHANGED <<queue, delivered, ropen, eof, epipe>>

CloseRead ==
  /\ ropen' = FALSE
  /\ UNCHANGED <<queue, delivered, wopen, eof, epipe>>

Next == Put \/ Get \/ Eof \/ Epipe \/ CloseWrite \/ CloseRead

Spec == Init /\ [][Next]_vars
=============================================================================
