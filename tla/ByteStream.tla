----------------------------- MODULE ByteStream -----------------------------
(***************************************************************************)
(* What a connection's send path promises: the bytes handed to it are put  *)
(* on the wire in the order they were handed over, without gaps or        *)
(* repeats, each send possibly transmitting a prefix at once; once the      *)
(* stream is closed, what was not yet transmitted is dropped and nothing   *)
(* more is accepted.  TcpConnection (sendInLoop, handleWrite, the output    *)
(* buffer) is checked to implement it.                                      *)
(***************************************************************************)
EXTENDS Naturals, Sequences

CONSTANT Data        \* the byte sequences a caller may hand over

VARIABLES wire,      \* bytes given to the kernel, in order
          queued,    \* bytes accepted but not yet given to the kernel
          closed     \* the stream is shut or the connection is down

vars == <<wire, queued, closed>>

Init == wire = <<>> /\ queued = <<>> /\ closed = FALSE

\* Move the first k bytes of q to the wire and keep the rest queued.
Emit(q, k) == wire' = wire \o SubSeq(q, 1, k) /\ queued' = SubSeq(q, k + 1, Len(q))

\* send(d): d joins the queue, and a prefix of the queue may go out at once.
Send(d) ==
    /\ ~closed
    /\ \E k \in 0..(Len(queued) + Len(d)) : Emit(queued \o d, k)
    /\ UNCHANGED closed

\* Some queued bytes are transmitted.
Transmit ==
    /\ ~closed /\ queued # <<>>
    /\ \E k \in 1..Len(queued) : Emit(queued, k)
    /\ UNCHANGED closed

\* The stream closes; untransmitted bytes are dropped.
Close ==
    /\ ~closed
    /\ closed' = TRUE /\ queued' = <<>>
    /\ UNCHANGED wire

Next == (\E d \in Data : Send(d)) \/ Transmit \/ Close

\* Queued bytes do go out while the stream stays open.
Spec == Init /\ [][Next]_vars /\ WF_vars(Transmit)
=============================================================================
