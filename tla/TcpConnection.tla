---------------------------- MODULE TcpConnection ----------------------------
(***************************************************************************)
(* burger::net::TcpConnection (src/burger/net/TcpConnection.cc), the        *)
(* connection of the reactor (EventLoop) path.  Its handlers run on the    *)
(* loop thread; send() and shutdown() may also be called from another      *)
(* thread, in which case they queue a functor with runInLoop.              *)
(*                                                                         *)
(* Actors: the loop thread (channel events, the functor queue, and user    *)
(* callbacks that call send/shutdown in the loop), one user thread off the *)
(* loop, and the peer, which may close its side.  EventLoop and TcpServer  *)
(* are outside src/: runInLoop from another thread appends to a FIFO of    *)
(* functors the loop runs in order; TcpServer's close callback queues      *)
(* connectDestroyed, after which the object may be freed.  The connection  *)
(* callbacks and the write-complete/high-water callbacks are user code and *)
(* change nothing here.                                                     *)
(***************************************************************************)
EXTENDS Naturals, Sequences, FiniteSets

CONSTANTS Msgs,               \* messages the user sends, each once
          MsgLen,             \* bytes per message
          HighWaterMark,      \* highWaterMark_
          ShutdownFromThread  \* whether shutdown() is called off the loop

ASSUME MsgLen \in Nat \ {0} /\ HighWaterMark \in Nat
       /\ ShutdownFromThread \in BOOLEAN

Byte == Msgs \X (1..MsgLen)
Bytes(m) == [i \in 1..MsgLen |-> <<m, i>>]
NBytes == MsgLen * Cardinality(Msgs)   \* all bytes the user can send
Status == {"kDisconnected", "kConnecting", "kConnected", "kDisconnecting"}

\* Functors queued on the loop.
SendF(m)       == <<"send", m>>
ShutdownF      == <<"shutdown">>
EstablishF     == <<"establish">>
DestroyF       == <<"destroy">>
WriteCompleteF == <<"writeComplete">>
HighWaterF     == <<"highWater">>

VARIABLES
    status,       \* status_
    reading,      \* channel_ has read interest
    writing,      \* channel_->isWriting()
    removed,      \* channel_->remove() done
    outBuf,       \* outputBuffer_
    wire,         \* bytes accepted by the kernel, in order
    writeShut,    \* socket_->shutdownWrite() done
    peerFin,      \* the peer has closed: a read returns 0
    functors,     \* the EventLoop's queue of pending functors
    used,         \* messages already handed to send()
    uPc,          \* the off-loop user thread
    uMsg,         \* message it is sending
    shutdownCalled, \* history: shutdown() found kConnected
    freed,        \* the TcpConnection object has been destroyed
    assertFailed, \* history: handleClose's assert failed
    useAfterFree  \* history: a functor bound to the raw this ran after free

connVars == <<status, reading, writing, removed>>
sendVars == <<outBuf, wire, writeShut>>
userVars == <<used, uPc, uMsg, shutdownCalled>>
histVars == <<assertFailed, useAfterFree>>
vars == <<connVars, sendVars, peerFin, functors, userVars, freed, histVars>>

(* The constructor: kConnecting, no channel interest yet.  TcpServer has   *)
(* queued connectEstablished on the loop before anyone holds the object.   *)
Init ==
    /\ status = "kConnecting" /\ reading = FALSE /\ writing = FALSE
    /\ removed = FALSE /\ outBuf = <<>> /\ wire = <<>> /\ writeShut = FALSE
    /\ peerFin = FALSE /\ functors = <<EstablishF>> /\ used = {}
    /\ uPc = "idle" /\ uMsg = CHOOSE m \in Msgs : TRUE
    /\ shutdownCalled = FALSE /\ freed = FALSE
    /\ assertFailed = FALSE /\ useAfterFree = FALSE

-----------------------------------------------------------------------------
BufferRest(d, n, fq) ==
    LET old == Len(outBuf)
        rem == Len(d) - n
    IN /\ functors' = IF old + rem >= HighWaterMark /\ old < HighWaterMark
                      THEN Append(fq, HighWaterF) ELSE fq
       /\ outBuf' = outBuf \o SubSeq(d, n + 1, Len(d))
       /\ writing' = TRUE

DirectWrite == ~writing /\ outBuf = <<>>

SendInLoop(m, fq) ==
    LET d == Bytes(m) IN
    \/ status = "kDisconnected"                  \* give up writing
       /\ functors' = fq /\ UNCHANGED <<outBuf, wire, writing>>
    \/ status # "kDisconnected" /\ ~DirectWrite
       /\ BufferRest(d, 0, fq) /\ UNCHANGED wire
    \/ status # "kDisconnected" /\ DirectWrite /\ writeShut   \* EPIPE
       /\ functors' = fq /\ UNCHANGED <<outBuf, wire, writing>>
    \/ status # "kDisconnected" /\ DirectWrite /\ ~writeShut
       /\ \E n \in 0..Len(d) :
             /\ wire' = wire \o SubSeq(d, 1, n)
             /\ IF n = Len(d)
                THEN functors' = Append(fq, WriteCompleteF)
                     /\ UNCHANGED <<outBuf, writing>>
                ELSE BufferRest(d, n, fq)

\* Mutant: shutdownInLoop shuts the write side even with data still queued.
ShutdownInLoopAlways ==
    writeShut' = TRUE

\* shutdownInLoop: half-close only when no write is pending.
ShutdownInLoop ==
    writeShut' = (writeShut \/ ~writing)

(* connectEstablished: sets kConnected and enables reading.  Its assert on *)
(* kConnecting holds: it is the first functor, before any user call.       *)
ConnectEstablished ==
    status' = "kConnected" /\ reading' = TRUE

(* connectDestroyed: a still connected connection is marked down and its  *)
(* channel disabled; the channel is removed from the loop.                  *)
ConnectDestroyed ==
    /\ IF status = "kConnected"
       THEN status' = "kDisconnected" /\ reading' = FALSE /\ writing' = FALSE
       ELSE UNCHANGED <<status, reading, writing>>
    /\ removed' = TRUE

-----------------------------------------------------------------------------
(* Loop thread.                                                              *)

(* The loop runs the oldest queued functor.  send and shutdown functors    *)
(* were bound to the raw this pointer.                                      *)
RunFunctor ==
    /\ functors # <<>>
    /\ LET f == Head(functors)
           fq == Tail(functors)
       IN /\ useAfterFree' = (useAfterFree \/ (freed /\ f[1] \in {"send", "shutdown"}))
          /\ CASE f[1] = "send" ->
                    SendInLoop(f[2], fq)
                    /\ UNCHANGED <<status, reading, removed, writeShut>>
               [] f[1] = "shutdown" ->
                    ShutdownInLoop /\ functors' = fq
                    /\ UNCHANGED <<connVars, outBuf, wire>>
               [] f[1] = "establish" ->
                    ConnectEstablished /\ functors' = fq
                    /\ UNCHANGED <<writing, removed, sendVars>>
               [] f[1] = "destroy" ->
                    ConnectDestroyed /\ functors' = fq /\ UNCHANGED sendVars
               [] OTHER ->                       \* a user callback
                    functors' = fq /\ UNCHANGED <<connVars, sendVars>>
    /\ UNCHANGED <<peerFin, userVars, freed, assertFailed>>

(* Mutant: the written bytes are not retrieved from outputBuffer_.        *)
HandleWriteNoRetrieve ==
    /\ writing /\ ~removed /\ outBuf # <<>>
    /\ \E n \in 1..Len(outBuf) :
          /\ wire' = wire \o SubSeq(outBuf, 1, n)
          /\ UNCHANGED <<outBuf, writing, functors, writeShut>>
    /\ UNCHANGED <<status, reading, removed, peerFin, userVars, freed, histVars>>

(* handleWrite: EPOLLOUT while writing; the kernel takes n > 0 bytes.  When *)
(* the buffer empties, write interest is dropped, the write-complete        *)
(* callback queued, and a kDisconnecting connection is shut down.           *)
HandleWrite ==
    /\ writing /\ ~removed /\ outBuf # <<>>
    /\ \E n \in 1..Len(outBuf) :
          /\ wire' = wire \o SubSeq(outBuf, 1, n)
          /\ outBuf' = SubSeq(outBuf, n + 1, Len(outBuf))
          /\ IF n = Len(outBuf)
             THEN /\ writing' = FALSE
                  /\ functors' = Append(functors, WriteCompleteF)
                  /\ writeShut' = (writeShut \/ status = "kDisconnecting")
             ELSE UNCHANGED <<writing, functors, writeShut>>
    /\ UNCHANGED <<status, reading, removed, peerFin, userVars, freed, histVars>>

\* handleRead: the channel is readable and readFd returns 0 (peer closed).
ReadsEof == reading /\ peerFin /\ ~removed

(* handleClose, called by handleRead on 0 bytes: asserts kConnected or     *)
(* kDisconnecting, sets kDisconnected, disables the channel, and the close *)
(* callback (TcpServer::removeConnection) queues connectDestroyed.          *)
HandleClose ==
    /\ ReadsEof
    /\ assertFailed' = (assertFailed
                        \/ status \notin {"kConnected", "kDisconnecting"})
    /\ status' = "kDisconnected" /\ reading' = FALSE /\ writing' = FALSE
    /\ functors' = Append(functors, DestroyF)
    /\ UNCHANGED <<removed, sendVars, peerFin, userVars, freed, useAfterFree>>

(* A message callback on the loop calls send(): with kConnected it runs    *)
(* sendInLoop at once.                                                      *)
LoopSend(m) ==
    /\ reading /\ m \notin used /\ status = "kConnected"
    /\ used' = used \cup {m}
    /\ SendInLoop(m, functors)
    /\ UNCHANGED <<status, reading, removed, writeShut, peerFin, uPc, uMsg,
                   shutdownCalled, freed, histVars>>

(* A callback on the loop calls shutdown(): with kConnected it sets status *)
(* kConnecting and runInLoop runs shutdownInLoop at once.                   *)
LoopShutdown ==
    /\ reading /\ ~shutdownCalled /\ status = "kConnected"
    /\ status' = "kConnecting" /\ shutdownCalled' = TRUE
    /\ ShutdownInLoop
    /\ UNCHANGED <<reading, writing, removed, outBuf, wire, peerFin, functors,
                   used, uPc, uMsg, freed, histVars>>

-----------------------------------------------------------------------------
(* The user thread off the loop.  send(): if status_ reads kConnected,     *)
(* queue sendInLoop; shutdown(): if status_ reads kConnected, set it and   *)
(* queue shutdownInLoop.  The test and the act are separate steps.          *)
SendCheck(m) ==
    /\ uPc = "idle" /\ ~freed /\ m \notin used /\ status = "kConnected"
    /\ used' = used \cup {m} /\ uMsg' = m /\ uPc' = "send"
    /\ UNCHANGED <<connVars, sendVars, peerFin, functors, shutdownCalled,
                   freed, histVars>>

SendQueue ==
    /\ uPc = "send"
    /\ functors' = Append(functors, SendF(uMsg)) /\ uPc' = "idle"
    /\ UNCHANGED <<connVars, sendVars, peerFin, used, uMsg, shutdownCalled,
                   freed, histVars>>

ShutdownCheck ==
    /\ ShutdownFromThread
    /\ uPc = "idle" /\ ~freed /\ ~shutdownCalled /\ status = "kConnected"
    /\ shutdownCalled' = TRUE /\ uPc' = "shutdown"
    /\ UNCHANGED <<connVars, sendVars, peerFin, functors, used, uMsg, freed,
                   histVars>>

ShutdownSet ==
    /\ uPc = "shutdown"
    /\ status' = "kConnecting"
    /\ functors' = Append(functors, ShutdownF) /\ uPc' = "idle"
    /\ UNCHANGED <<reading, writing, removed, sendVars, peerFin, used, uMsg,
                   shutdownCalled, freed, histVars>>

(* After connectDestroyed, TcpServer's reference is gone; once the user    *)
(* thread is not inside a call it holds none either, and the object is     *)
(* destroyed.                                                               *)
Release ==
    /\ removed /\ uPc = "idle" /\ ~freed
    /\ freed' = TRUE
    /\ UNCHANGED <<connVars, sendVars, peerFin, functors, userVars, histVars>>

(* The peer closes its side of the connection.                              *)
PeerClose ==
    /\ ~peerFin
    /\ peerFin' = TRUE
    /\ UNCHANGED <<connVars, sendVars, functors, userVars, freed, histVars>>

LoopStep == RunFunctor \/ HandleWrite \/ HandleClose

Next ==
    \/ LoopStep
    \/ \E m \in Msgs : LoopSend(m) \/ SendCheck(m)
    \/ LoopShutdown \/ ShutdownCheck
    \/ SendQueue \/ ShutdownSet
    \/ PeerClose \/ Release

(* The loop thread keeps handling ready events and queued functors, the   *)
(* peer keeps reading (so EPOLLOUT recurs), and a send() or shutdown()     *)
(* under way on the user thread completes.  Whether the user sends or      *)
(* shuts down, and whether the peer closes, is not forced.                 *)
Fairness ==
    /\ WF_vars(LoopStep)
    /\ WF_vars(SendQueue \/ ShutdownSet)

Spec == Init /\ [][Next]_vars /\ Fairness

-----------------------------------------------------------------------------
(***************************************************************************)
(* Properties                                                              *)
(***************************************************************************)
(* Every variable holds a value of its type; the wire never carries more   *)
(* bytes than the user handed to send().                                   *)
TypeOK ==
    /\ status \in Status
    /\ {reading, writing, removed, writeShut, peerFin, freed} \subseteq BOOLEAN
    /\ outBuf \in Seq(Byte)
    /\ wire \in Seq(Byte) /\ Len(wire) <= NBytes
    /\ used \subseteq Msgs /\ uPc \in {"idle", "send", "shutdown"}

(* sendInLoop, the output buffer and handleWrite implement ByteStream:     *)
(* bytes reach the kernel in send order, without gaps or repeats, and      *)
(* buffered bytes do go out while the connection is open.  The stream is  *)
(* closed once the write side is shut or the connection is down.            *)
Closed == writeShut \/ status = "kDisconnected"

Stream == INSTANCE ByteStream
              WITH Data <- {Bytes(m) : m \in Msgs},
                   queued <- IF Closed THEN <<>> ELSE outBuf,
                   closed <- Closed

NoWriteInterestAfterShutdown == writeShut => ~writing

(* handleClose asserts status_ is kConnected or kDisconnecting when the    *)
(* peer closes.                                                              *)
HandleCloseAssertHolds == ~assertFailed

(* No functor queued by send() or shutdown() off the loop runs on a freed  *)
(* TcpConnection (they bind the raw this; shutdown's FIXME:                 *)
(* "shared_from_this()?").                                                  *)
NoUseAfterFree == ~useAfterFree
=============================================================================
