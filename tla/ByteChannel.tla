---------------------------- MODULE ByteChannel ----------------------------
(***************************************************************************)
(* What a pipe promises (stream/Pipe.h: "a pipe of input/output queues"):  *)
(* the bytes put in at one end come out at the other, in order, each once. *)
(* The writer may still change whatever has not been delivered, which is   *)
(* how a ByteWriter patches block sizes into what it has written.          *)
(***************************************************************************)
EXTENDS Sequences, SequencesExt

VARIABLES contents,   \* the bytes in the channel, from address 0 on
          delivered,  \* the part of them that the reader may see
          taken,      \* what the reader has read
          closed

vars == << contents, delivered, taken, closed >>

Init ==
  /\ contents = << >> /\ delivered = << >> /\ taken = << >>
  /\ closed = FALSE

\* The writer adds, cuts or changes bytes, and some of them are let through.
Put ==
  /\ ~closed /\ ~closed'
  /\ IsPrefix(delivered, delivered')
  /\ IsPrefix(delivered', contents')
  /\ UNCHANGED taken

\* Closing lets everything through.
Close ==
  /\ ~closed /\ closed'
  /\ IsPrefix(delivered, contents)
  /\ contents' = contents /\ delivered' = contents
  /\ UNCHANGED taken

Take ==
  /\ Len(taken) < Len(delivered)
  /\ taken' = Append(taken, delivered[Len(taken) + 1])
  /\ UNCHANGED << contents, delivered, closed >>

Next == Put \/ Close \/ Take

Spec == Init /\ [][Next]_vars
=============================================================================
