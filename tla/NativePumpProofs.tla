--------------------------- MODULE NativePumpProofs ---------------------------
(***************************************************************************)
(* One hop for every number of chunks, every capacity and every number of   *)
(* cancellations: the worker owns its descriptors, and a hop that ends well  *)
(* has passed every chunk on.                                               *)
(*                                                                          *)
(* Owned says which descriptors are open at every step of hop and worker;   *)
(* Ways, what the state of the hop tells about its ends; Carried, that      *)
(* while nothing has gone wrong the chunks written so far are in one of the *)
(* places on the way, each in one.  The places are not in order: the worker *)
(* may overtake what the transport has still in its buffer.                 *)
(***************************************************************************)
EXTENDS NativePump, TLAPS, SequenceTheorems

-----------------------------------------------------------------------------
\* The worker runs from Start on, and what it uses is closed once.
Over == {"returned", "raised"}

Owned ==
    /\ fd \in [Fds -> {"none", "open", "closed"}]
    /\ ~ twice
    /\ guard \in BOOLEAN /\ completed \in BOOLEAN
    /\ worker \in {"none", "moving"} \cup Over
    /\ worker = "none" =>
         /\ guard <=> pc = "start"
         /\ fd["naR"] = "none" /\ fd["naW"] = "none"
         /\ IF guard THEN fd["stR"] = "open" /\ fd["stW"] = "open"
            ELSE fd["stR"] # "open" /\ fd["stW"] # "open"
         /\ pc \notin {"native", "grace", "cleanup"}
    /\ worker # "none" => pc \in {"native", "grace", "cleanup", "close", "closing", "done"}
    /\ worker = "moving" => guard /\ \A f \in Fds : fd[f] = "open"
    /\ worker \in Over =>
         /\ fd["naW"] = "closed"
         /\ \A f \in {"naR", "stR", "stW"} : fd[f] = IF guard THEN "open" ELSE "closed"
    /\ completed => worker \in Over /\ ~ guard
    /\ callback \in {"none", "scheduled", "ran", "lost"}
    /\ callback # "none" => completed
    /\ pc \in {"settle", "drain", "create", "start"} \/ guard => rtr # "reading"
    /\ deferred => rtr = "closed"
    /\ callback = "ran" => rtr # "paused"
    /\ worker = "none" /\ rtr = "paused" => pc \in {"settle", "drain", "create", "start"}
    /\ ~ loop => pc = "done"
    /\ callback = "lost" => ~ loop
    /\ pc = "grace" => err = "cancelled"
    /\ unwaited => pc \in {"close", "closing", "done"} /\ err = "cancelled"
    /\ worker # "none" /\ pc \in {"close", "closing", "done"} =>
         deferred \/ unwaited \/ callback = "ran"

-----------------------------------------------------------------------------
Hopeful == {"begin", "dispatch", "settle", "drain", "create", "start", "native",
            "py_read", "py_write", "py_discard"}
Ending == {"close", "closing", "done"}

\* What the place of the hop tells about its two ends.
Ways ==
    /\ pc \in Hopeful \cup Ending \cup {"grace", "cleanup"}
    /\ pc = "begin" => backend = "none"
    /\ pc \in Hopeful => err = "none"
    /\ pc = "grace" => err # "none"
    /\ pc \in {"cleanup"} \cup Ending /\ worker = "raised" => err # "none"
    /\ pc = "cleanup" => worker \in Over
    /\ worker = "moving" /\ pc # "native" => err # "none"
    /\ wtr \in {"open", "closing", "closed"}
    /\ pc = "closing" => wtr # "open"
    /\ pc = "done" /\ backend # "none" => wtr # "open"
    /\ downOpen /\ pc \notin {"closing", "done"} => wtr = "open"
    /\ downOpen /\ wtr = "closed" => wbuf = << >>
    /\ pc = "py_discard" => ~ downOpen
    /\ latched => ~ downOpen
    /\ worker = "none" => hand = << >>
    /\ pc = "drain" => arriving = << >>
    /\ pc \in {"create", "start"} => rbuf = << >> /\ arriving = << >>
    /\ worker \in {"moving", "returned"} /\ err = "none" => rbuf = << >> /\ arriving = << >>
    /\ worker = "returned" => hand = << >> /\ up = << >> /\ ~ upOpen
    /\ rtr = "closed" /\ err = "none" => up = << >> /\ ~ upOpen /\ arriving = << >>
    /\ pc \in Ending /\ err = "none" /\ downOpen /\ worker # "raised" =>
         up = << >> /\ ~ upOpen /\ arriving = << >> /\ rbuf = << >> /\ hand = << >>
    /\ pc = "done" /\ err = "none" => wtr = "closed"

-----------------------------------------------------------------------------
SeqTypes ==
    /\ produced \in Nat
    /\ received \in Seq(Nat) /\ down \in Seq(Nat) /\ wbuf \in Seq(Nat)
    /\ hand \in Seq(Nat) /\ rbuf \in Seq(Nat) /\ arriving \in Seq(Nat)
    /\ up \in Seq(Nat)
    /\ Len(down) <= PipeCapacity /\ Len(hand) \in {0, 1}

In(n, s) == \E i \in 1..Len(s) : s[i] = n

\* The reader's buffer is emptied only after its copy was written.
ToWrite == IF pc = "drain" THEN << >> ELSE rbuf

Intact == downOpen /\ err = "none" /\ worker # "raised"

Carried ==
    Intact =>
      /\ Len(received) + Len(down) + Len(wbuf) + Len(hand) + Len(ToWrite)
           + Len(arriving) + Len(up) = produced
      /\ \A n \in 1..produced :
           \/ In(n, received) \/ In(n, down) \/ In(n, wbuf) \/ In(n, hand)
           \/ In(n, ToWrite) \/ In(n, arriving) \/ In(n, up)

IInv == Owned /\ SeqTypes /\ Ways /\ Carried

-----------------------------------------------------------------------------
\* Every step is one of these.
LEMMA Steps ==
    ASSUME Next
    PROVE  \/ Produce \/ UpstreamCloses \/ Receive \/ DownstreamCloses \/ Resolve
           \/ Decline \/ Pause \/ DrainBuffer \/ BufferDrained \/ Create
           \/ Start \/ NativeDone \/ CleanupDone \/ GraceExpires \/ PyReads
           \/ PyWrites \/ PyDiscards \/ CloseWriter \/ WriterClosed \/ CreateFails
           \/ StartFails \/ Cancel \/ WorkerReads \/ WorkerWrites \/ WorkerReturns
           \/ Finalize \/ CompleteCleanup \/ SignalCompletion \/ WorkerFails \/ LoopReads
           \/ LoopDelivers \/ LoopReadsEof \/ LoopWrites \/ WriterTransportCloses \/ ResumeReader
           \/ LoopCloses
  BY DEF Next, HopSteps, WorkerSteps, LoopSteps

\* What a cancellation does, by the await that it meets.
LEMMA CancelMeans ==
    ASSUME Ways, Cancel
    PROVE  /\ \/ /\ pc \in {"settle", "drain"} /\ pc' = "close" /\ err' = "cancelled"
                 /\ rtr' = Resumed
              \/ pc = "native" /\ pc' = "grace" /\ err' = "cancelled" /\ rtr' = rtr
              \/ /\ pc \in {"cleanup", "py_read", "py_write", "py_discard"}
                 /\ pc' = "close" /\ err' = "cancelled" /\ rtr' = rtr
              \/ /\ pc \in {"begin", "closing"} /\ pc' = "done" /\ err' = "cancelled"
                 /\ rtr' = rtr
              \/ pc = "grace" /\ pc' = pc /\ err' = err /\ rtr' = rtr
           /\ unwaited' = (unwaited \/ (pc = "cleanup" /\ callback # "ran"))
           /\ UNCHANGED << backend, stages, arriving, rbuf, writing, descriptors, thread,
                           completed, deferred, callback, loop >>
<1> USE DEF Ways, Hopeful, Ending
<1>1. CASE pc \in {"settle", "drain"}
  BY <1>1 DEF Cancel
<1>2. CASE pc = "native"
  BY <1>2 DEF Cancel
<1>3. CASE pc \in {"cleanup", "py_read", "py_write", "py_discard"}
  BY <1>3 DEF Cancel
<1>4. CASE pc \in {"begin", "closing"}
  BY <1>4 DEF Cancel
<1>5. CASE pc = "grace"
  BY <1>5 DEF Cancel
<1> QED
  BY <1>1, <1>2, <1>3, <1>4, <1>5 DEF Cancel

\* The worker and the hop keep the descriptors as Owned says.
LEMMA OwnedStep ==
    ASSUME Owned, Ways, [Next]_vars
    PROVE  Owned'
<1> USE DEF Owned, Over, Fds, task, stages, reading, writing, descriptors,
            thread, cleanup
<1>1. CASE Produce \/ UpstreamCloses \/ Receive \/ DownstreamCloses \/ LoopReads
           \/ LoopDelivers \/ LoopWrites \/ WriterTransportCloses \/ WorkerReads
           \/ WorkerWrites
  <2>1. UNCHANGED << pc, err, rtr, fd, twice, guard, worker, completed, deferred,
                     unwaited, callback, loop >>
    BY <1>1
       DEF Produce, UpstreamCloses, Receive, DownstreamCloses, LoopReads,
           LoopDelivers, LoopWrites, WriterTransportCloses, WorkerReads,
           WorkerWrites
  <2> QED
    BY <2>1
<1>2. CASE Resolve
  BY <1>2 DEF Resolve, Goes
<1>3. CASE Decline
  BY <1>3 DEF Decline, Goes
<1>4. CASE Pause
  BY <1>4 DEF Pause, Goes
<1>5. CASE DrainBuffer
  BY <1>5 DEF DrainBuffer, Goes
<1>6. CASE BufferDrained
  BY <1>6 DEF BufferDrained, Goes
<1>7. CASE Create
  BY <1>7 DEF Create, Goes, Open
<1>8. CASE Start
  BY <1>8 DEF Start, Goes, Open
<1>9. CASE NativeDone
  BY <1>9 DEF NativeDone
<1>10. CASE CleanupDone
  BY <1>10 DEF CleanupDone, Goes
<1>11. CASE GraceExpires
  BY <1>11 DEF GraceExpires, Goes
<1>12. CASE PyReads
  BY <1>12 DEF PyReads, Goes
<1>13. CASE PyWrites
  BY <1>13 DEF PyWrites, Goes
<1>14. CASE PyDiscards
  BY <1>14 DEF PyDiscards, Goes
<1>15. CASE CloseWriter
  BY <1>15 DEF CloseWriter, Goes
<1>16. CASE WriterClosed
  BY <1>16 DEF WriterClosed, Goes
<1>17. CASE CreateFails
  BY <1>17 DEF CreateFails, Goes, Resumed
<1>18. CASE StartFails
  BY <1>18 DEF StartFails, Raises, Close, Resumed
<1>19. CASE Cancel
  <2>1. /\ unwaited' = (unwaited \/ (pc = "cleanup" /\ callback # "ran"))
        /\ UNCHANGED << fd, twice, guard, worker, completed, deferred, callback, loop >>
    BY <1>19, CancelMeans
  <2>2. CASE /\ pc \in {"settle", "drain"} /\ pc' = "close" /\ err' = "cancelled"
             /\ rtr' = Resumed
    BY <2>1, <2>2 DEF Resumed
  <2>3. CASE pc = "native" /\ pc' = "grace" /\ err' = "cancelled" /\ rtr' = rtr
    BY <2>1, <2>3
  <2>4. CASE pc = "cleanup" /\ pc' = "close" /\ err' = "cancelled" /\ rtr' = rtr
    BY <2>1, <2>4
  <2>5. CASE /\ pc \in {"py_read", "py_write", "py_discard"}
             /\ pc' = "close" /\ err' = "cancelled" /\ rtr' = rtr
    BY <2>1, <2>5
  <2>6. CASE /\ pc \in {"begin", "closing"} /\ pc' = "done" /\ err' = "cancelled"
             /\ rtr' = rtr
    BY <2>1, <2>6
  <2>7. CASE pc = "grace" /\ pc' = pc /\ err' = err /\ rtr' = rtr
    BY <2>1, <2>7
  <2> QED
    BY <1>19, CancelMeans, <2>2, <2>3, <2>4, <2>5, <2>6, <2>7
<1>20. CASE WorkerReturns
  BY <1>20 DEF WorkerReturns, Close
<1>21. CASE Finalize
  BY <1>21 DEF Finalize, Close
<1>22. CASE CompleteCleanup
  BY <1>22 DEF CompleteCleanup
<1>23. CASE SignalCompletion
  BY <1>23 DEF SignalCompletion
<1>24. CASE WorkerFails
  BY <1>24 DEF WorkerFails, Close
<1>25. CASE LoopReadsEof
  BY <1>25 DEF LoopReadsEof
<1>26. CASE ResumeReader
  BY <1>26 DEF ResumeReader, Resumed
<1>27. CASE LoopCloses
  BY <1>27 DEF LoopCloses
<1>28. CASE UNCHANGED vars
  BY <1>28 DEF vars
<1> QED
  BY Steps,
     <1>1, <1>2, <1>3, <1>4, <1>5, <1>6, <1>7, <1>8, <1>9, <1>10, <1>11,
     <1>12, <1>13, <1>14, <1>15, <1>16, <1>17, <1>18, <1>19, <1>20, <1>21,
     <1>22, <1>23, <1>24, <1>25, <1>26, <1>27, <1>28

-----------------------------------------------------------------------------
\* Where a chunk is when a sequence grows or shrinks.
LEMMA InConcat ==
    ASSUME NEW s \in Seq(Nat), NEW t \in Seq(Nat)
    PROVE  /\ s \o t \in Seq(Nat) /\ Len(s \o t) = Len(s) + Len(t)
           /\ \A n : In(n, s) \/ In(n, t) => In(n, s \o t)
<1>1. s \o t \in Seq(Nat) /\ Len(s \o t) = Len(s) + Len(t)
  BY ConcatProperties
<1>2. ASSUME NEW n, In(n, s) PROVE In(n, s \o t)
  <2>1. PICK i \in 1..Len(s) : s[i] = n
    BY <1>2 DEF In
  <2>2. i \in 1..Len(s \o t) /\ (s \o t)[i] = n
    BY <1>1, <2>1, ConcatProperties
  <2> QED
    BY <2>2 DEF In
<1>3. ASSUME NEW n, In(n, t) PROVE In(n, s \o t)
  <2>1. PICK i \in 1..Len(t) : t[i] = n
    BY <1>3 DEF In
  <2>2. Len(s) + i \in 1..Len(s \o t) /\ (s \o t)[Len(s) + i] = n
    BY <1>1, <2>1, ConcatProperties
  <2> QED
    BY <2>2 DEF In
<1> QED
  BY <1>1, <1>2, <1>3

LEMMA InAppend ==
    ASSUME NEW s \in Seq(Nat), NEW e \in Nat
    PROVE  /\ Append(s, e) \in Seq(Nat) /\ Len(Append(s, e)) = Len(s) + 1
           /\ In(e, Append(s, e))
           /\ \A n : In(n, s) => In(n, Append(s, e))
<1>1. /\ Append(s, e) \in Seq(Nat) /\ Len(Append(s, e)) = Len(s) + 1
      /\ \A i \in 1..Len(s) : Append(s, e)[i] = s[i]
      /\ Append(s, e)[Len(s) + 1] = e
  BY AppendProperties
<1>2. In(e, Append(s, e))
  BY <1>1 DEF In
<1>3. ASSUME NEW n, In(n, s) PROVE In(n, Append(s, e))
  BY <1>1, <1>3 DEF In
<1> QED
  BY <1>1, <1>2, <1>3

LEMMA InTail ==
    ASSUME NEW s \in Seq(Nat), s # << >>
    PROVE  /\ Tail(s) \in Seq(Nat) /\ Len(Tail(s)) = Len(s) - 1 /\ Len(s) \in Nat \ {0}
           /\ Head(s) \in Nat
           /\ \A n : In(n, s) => n = Head(s) \/ In(n, Tail(s))
<1>1. /\ Tail(s) \in Seq(Nat) /\ Len(Tail(s)) = Len(s) - 1 /\ Len(s) \in Nat \ {0}
      /\ Head(s) \in Nat /\ Head(s) = s[1]
      /\ \A i \in 1..Len(Tail(s)) : Tail(s)[i] = s[i + 1]
  BY HeadTailProperties
<1>2. ASSUME NEW n, In(n, s) PROVE n = Head(s) \/ In(n, Tail(s))
  <2>1. PICK i \in 1..Len(s) : s[i] = n
    BY <1>2 DEF In
  <2>2. CASE i = 1
    BY <1>1, <2>1, <2>2
  <2>3. CASE i # 1
    <3>1. i - 1 \in 1..Len(Tail(s)) /\ Tail(s)[i - 1] = n
      BY <1>1, <2>1, <2>3
    <3> QED
      BY <3>1 DEF In
  <2> QED
    BY <2>2, <2>3
<1> QED
  BY <1>1, <1>2

LEMMA InOne ==
    ASSUME NEW e \in Nat
    PROVE  << e >> \in Seq(Nat) /\ Len(<< e >>) = 1 /\ In(e, << e >>)
  BY DEF In

LEMMA InNone ==
    << >> \in Seq(Nat) /\ Len(<< >>) = 0 /\ \A n : ~ In(n, << >>)
  BY DEF In

\* What is left of chunks when the first n are gone.
LEMMA RestElements ==
    ASSUME NEW c \in Seq(Nat), NEW n \in 0..Len(c)
    PROVE  /\ SubSeq(c, n + 1, Len(c)) \in Seq(Nat)
           /\ Len(SubSeq(c, n + 1, Len(c))) = Len(c) - n
           /\ \A i \in 1..(Len(c) - n) : SubSeq(c, n + 1, Len(c))[i] = c[n + i]
<1> DEFINE f == n + 1
           l == Len(c)
           r == SubSeq(c, f, l)
<1>1. l \in Nat /\ \A i \in 1..l : c[i] \in Nat
  BY LenProperties, ElementOfSeq
<1>2. f \in Int /\ l \in Int /\ \A i \in f..l : c[i] \in Nat
  BY <1>1
<1>3. /\ r \in Seq(Nat) /\ Len(r) = IF f <= l THEN l - f + 1 ELSE 0
      /\ \A i \in 1..(l - f + 1) : r[i] = c[f + i - 1]
  <2> HIDE DEF f, l
  <2> QED
    BY <1>2, SubSeqProperties
<1>4. f <= l <=> n < l
  BY <1>1
<1>5. l - f + 1 = l - n /\ \A i \in Int : f + i - 1 = n + i
  BY <1>1
<1>6. l \in Nat /\ n \in 0..l
  BY <1>1
<1> HIDE DEF f, l, r
<1>7. r \in Seq(Nat) /\ Len(r) = l - n
  BY <1>3, <1>4, <1>5, <1>6
<1>8. \A i \in 1..(l - n) : r[i] = c[n + i]
  <2> SUFFICES ASSUME NEW i \in 1..(l - n) PROVE r[i] = c[n + i]
    OBVIOUS
  <2>1. i \in Int /\ i \in 1..(l - f + 1)
    BY <1>5, <1>6
  <2>2. r[i] = c[f + i - 1]
    BY <2>1, <1>3
  <2>3. f + i - 1 = n + i
    BY <2>1, <1>5
  <2> QED
    BY <2>2, <2>3
<1> QED
  BY <1>7, <1>8 DEF f, l, r

\* writer.write takes all of its chunks, into the pipe or into the buffer.
LEMMA WrittenKeeps ==
    ASSUME SeqTypes, NEW c \in Seq(Nat), Written(c)
    PROVE  /\ down' \in Seq(Nat) /\ wbuf' \in Seq(Nat) /\ Len(down') <= PipeCapacity
           /\ ~ downOpen \/ wtr # "open" => down' = down /\ wbuf' = wbuf
           /\ downOpen /\ wtr = "open" =>
                /\ Len(down') + Len(wbuf') = Len(down) + Len(wbuf) + Len(c)
                /\ \A n : In(n, down) => In(n, down')
                /\ \A n : In(n, wbuf) => In(n, wbuf')
                /\ \A n : In(n, c) => In(n, down') \/ In(n, wbuf')
<1> USE DEF SeqTypes
<1>1. CASE ~ (wtr = "open" /\ downOpen)
  BY <1>1 DEF Written
<1>2. CASE wtr = "open" /\ downOpen
  <2> DEFINE room == IF wbuf = << >> /\ downOpen THEN PipeCapacity - Len(down) ELSE 0
             now == IF room < Len(c) THEN room ELSE Len(c)
             first == SubSeq(c, 1, now)
             rest == SubSeq(c, now + 1, Len(c))
  <2>1. down' = down \o first /\ wbuf' = wbuf \o rest
    BY <1>2 DEF Written
  <2>2. room \in Nat /\ now \in 0..Len(c) /\ Len(down) \in Nat
        /\ Len(down) + now <= PipeCapacity
    BY PumpAssumption, LenProperties
  <2> HIDE DEF room, now
  <2>3. /\ first \in Seq(Nat) /\ Len(first) = now
        /\ \A i \in 1..now : first[i] = c[i]
    BY <2>2, SubSeqProperties, SMTT(30)
  <2>4. /\ rest \in Seq(Nat) /\ Len(rest) = Len(c) - now
        /\ \A i \in 1..(Len(c) - now) : rest[i] = c[now + i]
    BY <2>2, RestElements
  <2>5. ASSUME NEW n, In(n, c) PROVE In(n, first) \/ In(n, rest)
    <3>1. PICK i \in 1..Len(c) : c[i] = n
      BY <2>5 DEF In
    <3>2. CASE i <= now
      <4>1. i \in 1..Len(first) /\ first[i] = n
        BY <2>2, <2>3, <3>1, <3>2, SMTT(30)
      <4> QED
        BY <4>1 DEF In
    <3>3. CASE i > now
      <4>1. i - now \in 1..Len(rest) /\ rest[i - now] = n
        BY <2>2, <2>4, <3>1, <3>3
      <4> QED
        BY <4>1 DEF In
    <3> QED
      BY <2>2, <3>2, <3>3
  <2> HIDE DEF first, rest
  <2>6. /\ down' \in Seq(Nat) /\ Len(down') = Len(down) + Len(first)
        /\ \A n : In(n, down) \/ In(n, first) => In(n, down')
    BY <2>1, <2>3, InConcat
  <2>7. /\ wbuf' \in Seq(Nat) /\ Len(wbuf') = Len(wbuf) + Len(rest)
        /\ \A n : In(n, wbuf) \/ In(n, rest) => In(n, wbuf')
    BY <2>1, <2>4, InConcat
  <2>8. Len(wbuf) \in Nat /\ Len(c) \in Nat
    BY LenProperties
  <2> QED
    BY <1>2, <2>2, <2>3, <2>4, <2>5, <2>6, <2>7, <2>8, SMTT(30)
<1> QED
  BY <1>1, <1>2

\* The steps that leave every chunk where it is.
LEMMA DataAtRest ==
    ASSUME \/ UpstreamCloses \/ Resolve \/ Decline \/ Pause \/ Create
           \/ Start \/ NativeDone \/ CleanupDone \/ GraceExpires \/ PyWrites
           \/ CloseWriter \/ WriterClosed \/ CreateFails \/ StartFails \/ Cancel
           \/ WorkerReturns \/ Finalize \/ CompleteCleanup \/ SignalCompletion \/ WorkerFails
           \/ LoopReadsEof \/ ResumeReader \/ LoopCloses
    PROVE  UNCHANGED << up, down, produced, received, downOpen, arriving, rbuf, wbuf, hand >>
  BY DEF UpstreamCloses, Resolve, Goes, Decline, Pause, Create, Start,
         NativeDone, CleanupDone, GraceExpires, PyWrites, CloseWriter,
         WriterClosed, CreateFails, StartFails, Raises, Cancel,
         WorkerReturns, Finalize, CompleteCleanup, SignalCompletion,
         WorkerFails, LoopReadsEof, ResumeReader, LoopCloses, task,
         stages, reading, writing, descriptors, thread, cleanup

LEMMA TypesStep ==
    ASSUME SeqTypes, [Next]_vars
    PROVE  SeqTypes'
<1> USE PumpAssumption, InNone
    DEF SeqTypes, task, stages, reading, writing, descriptors, thread,
        cleanup
<1>1. CASE \/ UpstreamCloses \/ Resolve \/ Decline \/ Pause \/ Create
           \/ Start \/ NativeDone \/ CleanupDone \/ GraceExpires \/ PyWrites
           \/ CloseWriter \/ WriterClosed \/ CreateFails \/ StartFails \/ Cancel
           \/ WorkerReturns \/ Finalize \/ CompleteCleanup \/ SignalCompletion \/ WorkerFails
           \/ LoopReadsEof \/ ResumeReader \/ LoopCloses
  BY <1>1, DataAtRest
<1>2. CASE Produce
  BY <1>2, InAppend DEF Produce
<1>3. CASE Receive
  BY <1>3, InAppend, InTail DEF Receive
<1>4. CASE DownstreamCloses
  BY <1>4 DEF DownstreamCloses
<1>5. CASE LoopReads
  BY <1>5, InTail, InOne DEF LoopReads
<1>6. CASE LoopDelivers
  BY <1>6, InConcat DEF LoopDelivers
<1>7. CASE LoopWrites
  BY <1>7, InAppend, InTail DEF LoopWrites
<1>8. CASE WriterTransportCloses
  BY <1>8 DEF WriterTransportCloses
<1>9. CASE DrainBuffer
  BY <1>9, WrittenKeeps DEF DrainBuffer
<1>10. CASE BufferDrained
  BY <1>10 DEF BufferDrained
<1>11. CASE WorkerReads
  BY <1>11, InTail, InOne DEF WorkerReads
<1>12. CASE WorkerWrites
  <2>1. Len(hand) \in Nat /\ Len(hand) # 0 /\ Len(down) \in Nat
    BY <1>12, InTail, LenProperties DEF WorkerWrites
  <2>2. down \o hand \in Seq(Nat) /\ Len(down \o hand) = Len(down) + Len(hand)
    BY InConcat
  <2>3. hand' = << >> /\ UNCHANGED << up, produced, received, arriving, rbuf, wbuf >>
    BY <1>12 DEF WorkerWrites
  <2>4. down' = down \/ (down' = down \o hand /\ Len(down) < PipeCapacity)
    BY <1>12 DEF WorkerWrites
  <2>5. Len(hand) = 1 /\ PipeCapacity \in Nat
    BY <2>1, PumpAssumption
  <2>6. CASE down' = down
    BY <2>3, <2>6
  <2>7. CASE down' = down \o hand /\ Len(down) < PipeCapacity
    <3>1. down' \in Seq(Nat) /\ Len(down') <= PipeCapacity
      BY <2>1, <2>2, <2>5, <2>7
    <3> QED
      BY <2>3, <3>1
  <2> QED
    BY <2>4, <2>6, <2>7
<1>13. CASE PyReads
  BY <1>13, WrittenKeeps, InTail, InOne DEF PyReads
<1>14. CASE PyDiscards
  BY <1>14, InTail DEF PyDiscards
<1>15. CASE UNCHANGED vars
  BY <1>15, SMTT(30) DEF vars
<1> QED
  BY Steps, <1>1, <1>2, <1>3, <1>4, <1>5, <1>6, <1>7, <1>8, <1>9, <1>10, <1>11,
     <1>12, <1>13, <1>14, <1>15

\* What the place of the hop tells stays true.
LEMMA WaysStep ==
    ASSUME Owned, SeqTypes, Ways, [Next]_vars
    PROVE  Ways'
<1> USE DEF Ways, Hopeful, Ending, Over, task, stages, reading, writing,
            descriptors, thread, cleanup
<1>1. CASE Produce
  BY <1>1 DEF Produce, Owned, SeqTypes
<1>2. CASE UpstreamCloses
  BY <1>2 DEF UpstreamCloses, Owned, SeqTypes
<1>3. CASE Receive
  BY <1>3 DEF Receive, Owned, SeqTypes
<1>4. CASE DownstreamCloses
  BY <1>4 DEF DownstreamCloses, Owned, SeqTypes
<1>5. CASE Resolve
  BY <1>5, ZenonT(60) DEF Resolve, Goes, Owned, SeqTypes
<1>6. CASE Decline
  BY <1>6 DEF Decline, Goes, Owned, SeqTypes
<1>7. CASE Pause
  BY <1>7 DEF Pause, Goes, Owned, SeqTypes
<1>8. CASE DrainBuffer
  BY <1>8, WrittenKeeps DEF DrainBuffer, Goes, Owned, SeqTypes
<1>9. CASE BufferDrained
  BY <1>9 DEF BufferDrained, Goes, Drained, Owned, SeqTypes
<1>10. CASE Create
  BY <1>10 DEF Create, Goes, Owned, SeqTypes
<1>11. CASE Start
  BY <1>11 DEF Start, Goes, Owned, SeqTypes
<1>12. CASE NativeDone
  BY <1>12 DEF NativeDone, Owned, SeqTypes
<1>13. CASE CleanupDone
  BY <1>13 DEF CleanupDone, Goes, Owned, SeqTypes
<1>14. CASE GraceExpires
  BY <1>14 DEF GraceExpires, Goes, Owned, SeqTypes
<1>15. CASE PyReads
  BY <1>15, WrittenKeeps, InTail, InOne DEF PyReads, Goes, Owned, SeqTypes
<1>16. CASE PyWrites
  BY <1>16 DEF PyWrites, Goes, Drained, Owned, SeqTypes
<1>17. CASE PyDiscards
  BY <1>17 DEF PyDiscards, Goes, Owned, SeqTypes
<1>18. CASE CloseWriter
  BY <1>18 DEF CloseWriter, Goes, Owned, SeqTypes
<1>19. CASE WriterClosed
  BY <1>19 DEF WriterClosed, Goes, Owned, SeqTypes
<1>20. CASE CreateFails
  BY <1>20 DEF CreateFails, Goes, Resumed, Owned, SeqTypes
<1>21. CASE StartFails
  BY <1>21 DEF StartFails, Raises, Resumed, Owned, SeqTypes
<1>22. CASE Cancel
  <2>1. /\ UNCHANGED << backend, stages, arriving, rbuf, writing, thread >>
        /\ rtr' = "closed" => rtr = "closed"
    BY <1>22, CancelMeans DEF Resumed
  <2>2. CASE pc = "grace" /\ pc' = pc /\ err' = err /\ rtr' = rtr
    BY <2>1, <2>2
  <2>3. CASE pc = "native" /\ pc' = "grace" /\ err' = "cancelled"
    BY <2>1, <2>3
  <2>4. CASE /\ pc \in {"settle", "drain", "cleanup", "py_read", "py_write", "py_discard"}
             /\ pc' = "close" /\ err' = "cancelled"
    BY <2>1, <2>4
  <2>5. CASE pc \in {"begin", "closing"} /\ pc' = "done" /\ err' = "cancelled"
    BY <2>1, <2>5
  <2> QED
    BY <1>22, CancelMeans, <2>2, <2>3, <2>4, <2>5
<1>23. CASE WorkerReads
  BY <1>23 DEF WorkerReads, Owned, SeqTypes
<1>24. CASE WorkerWrites
  BY <1>24 DEF WorkerWrites, Owned, SeqTypes
<1>25. CASE WorkerReturns
  BY <1>25 DEF WorkerReturns, Owned, SeqTypes
<1>26. CASE Finalize
  BY <1>26 DEF Finalize, Owned, SeqTypes
<1>27. CASE CompleteCleanup
  BY <1>27 DEF CompleteCleanup, Owned, SeqTypes
<1>28. CASE SignalCompletion
  BY <1>28 DEF SignalCompletion, Owned, SeqTypes
<1>29. CASE WorkerFails
  BY <1>29 DEF WorkerFails, Owned, SeqTypes
<1>30. CASE LoopReads
  BY <1>30 DEF LoopReads, Owned, SeqTypes
<1>31. CASE LoopDelivers
  BY <1>31 DEF LoopDelivers, Owned, SeqTypes
<1>32. CASE LoopReadsEof
  BY <1>32 DEF LoopReadsEof, Owned, SeqTypes
<1>33. CASE LoopWrites
  BY <1>33 DEF LoopWrites, Owned, SeqTypes
<1>34. CASE WriterTransportCloses
  BY <1>34 DEF WriterTransportCloses, Owned, SeqTypes
<1>35. CASE ResumeReader
  BY <1>35 DEF ResumeReader, Resumed, Owned, SeqTypes
<1>36. CASE LoopCloses
  BY <1>36 DEF LoopCloses, Owned, SeqTypes
<1>37. CASE UNCHANGED vars
  BY <1>37 DEF vars
<1> QED
  BY Steps,
     <1>1, <1>2, <1>3, <1>4, <1>5, <1>6, <1>7, <1>8, <1>9, <1>10, <1>11,
     <1>12, <1>13, <1>14, <1>15, <1>16, <1>17, <1>18, <1>19, <1>20, <1>21,
     <1>22, <1>23, <1>24, <1>25, <1>26, <1>27, <1>28, <1>29, <1>30, <1>31,
     <1>32, <1>33, <1>34, <1>35, <1>36, <1>37

\* A step after which nothing has gone wrong started from such a state.
LEMMA IntactBefore ==
    ASSUME Owned, Ways, [Next]_vars, Intact'
    PROVE  Intact
<1> USE DEF Intact, task, stages, reading, writing, descriptors, thread, cleanup
<1>1. worker # "raised" /\ downOpen
  BY Steps, ZenonT(60) DEF Produce, UpstreamCloses, Receive, DownstreamCloses, Resolve,
         Decline, Pause, DrainBuffer, BufferDrained, Create, Start,
         NativeDone, CleanupDone, GraceExpires, PyReads, PyWrites,
         PyDiscards, CloseWriter, WriterClosed, CreateFails, StartFails,
         WorkerReads, WorkerWrites, WorkerReturns, Finalize, CompleteCleanup,
         SignalCompletion, WorkerFails, LoopReads, LoopDelivers,
         LoopReadsEof, LoopWrites, WriterTransportCloses, ResumeReader,
         LoopCloses, Cancel, vars, Owned
<1>2. CASE NativeDone
  BY <1>1, <1>2 DEF NativeDone, Ways, Hopeful
<1>3. CASE ~ NativeDone
  <2>1. err' = "none" => err = "none"
    BY Steps, <1>3, CancelMeans
       DEF Goes, Raises, Produce, UpstreamCloses, Receive, DownstreamCloses, Resolve,
           Decline, Pause, DrainBuffer, BufferDrained, Create, Start,
           CleanupDone, GraceExpires, PyReads, PyWrites, PyDiscards,
           CloseWriter, WriterClosed, CreateFails, StartFails, WorkerReads,
           WorkerWrites, WorkerReturns, Finalize, CompleteCleanup,
           SignalCompletion, WorkerFails, LoopReads, LoopDelivers,
           LoopReadsEof, LoopWrites, WriterTransportCloses, ResumeReader,
           LoopCloses, vars
  <2> QED
    BY <1>1, <2>1
<1> QED
  BY <1>2, <1>3

\* While nothing has gone wrong no step loses a chunk, and none doubles one.
LEMMA CarriedStep ==
    ASSUME Owned, SeqTypes, Ways, Carried, [Next]_vars
    PROVE  Carried'
<1> DEFINE places == Len(received) + Len(down) + Len(wbuf) + Len(hand) + Len(ToWrite)
                       + Len(arriving) + Len(up)
           placed(n) == \/ In(n, received) \/ In(n, down) \/ In(n, wbuf) \/ In(n, hand)
                        \/ In(n, ToWrite) \/ In(n, arriving) \/ In(n, up)
<1> SUFFICES ASSUME Intact'
             PROVE  places' = produced' /\ \A n \in 1..produced' : placed(n)'
  BY Zenon DEF Carried
<1>0. Intact
  BY IntactBefore
<1>1. places = produced /\ \A n \in 1..produced : placed(n)
  BY <1>0 DEF Carried
<1>2. /\ Len(received) \in Nat /\ Len(down) \in Nat /\ Len(wbuf) \in Nat /\ Len(hand) \in Nat
      /\ Len(rbuf) \in Nat /\ Len(arriving) \in Nat /\ Len(up) \in Nat
      /\ Len(ToWrite) \in Nat
  BY LenProperties, InNone DEF SeqTypes, ToWrite
<1>3. \/ downOpen /\ err = "none" /\ wtr = "open"
      \/ pc \in {"closing", "done"}
  BY <1>0 DEF Ways, Intact
<1> USE DEF task, stages, reading, writing, descriptors, thread, cleanup
<1>4. CASE \/ UpstreamCloses \/ Resolve \/ Decline \/ Pause \/ Create
           \/ Start \/ NativeDone \/ CleanupDone \/ GraceExpires \/ PyWrites
           \/ CloseWriter \/ WriterClosed \/ CreateFails \/ StartFails \/ Cancel
           \/ WorkerReturns \/ Finalize \/ CompleteCleanup \/ SignalCompletion \/ WorkerFails
           \/ LoopReadsEof \/ ResumeReader \/ LoopCloses
  <2>1. UNCHANGED << up, down, produced, received, arriving, rbuf, wbuf, hand >>
    BY <1>4, DataAtRest
  <2>2. (pc = "drain") <=> (pc' = "drain")
    BY <1>4, CancelMeans
       DEF Intact, UpstreamCloses, Resolve, Goes, Decline, Pause, Create, Start,
           NativeDone, CleanupDone, GraceExpires, PyWrites, CloseWriter,
           WriterClosed, CreateFails, StartFails, Raises, WorkerReturns,
           Finalize, CompleteCleanup, SignalCompletion, WorkerFails,
           LoopReadsEof, ResumeReader, LoopCloses
  <2>3. ToWrite' = ToWrite
    BY <2>1, <2>2 DEF ToWrite
  <2> QED
    BY <1>1, <2>1, <2>3
<1>5. CASE Produce
  <2>1. UNCHANGED << down, received, arriving, rbuf, wbuf, hand, pc >>
    BY <1>5 DEF Produce
  <2>2. /\ produced' = produced + 1 /\ Len(up') = Len(up) + 1 /\ In(produced + 1, up')
        /\ \A n : In(n, up) => In(n, up')
    BY <1>5, InAppend DEF Produce, SeqTypes
  <2>3. ToWrite' = ToWrite /\ produced \in Nat
    BY <2>1 DEF ToWrite, SeqTypes
  <2>4. places' = produced'
    BY <1>1, <1>2, <2>1, <2>2, <2>3, SMTT(30)
  <2>5. ASSUME NEW n \in 1..produced' PROVE placed(n)'
    BY <1>1, <2>1, <2>2, <2>3
  <2> QED
    BY <2>4, <2>5
<1>6. CASE Receive
  <2>1. UNCHANGED << up, arriving, rbuf, wbuf, hand, pc, produced >>
    BY <1>6 DEF Receive
  <2>2. /\ Len(down') = Len(down) - 1 /\ Len(received') = Len(received) + 1
        /\ \A n : In(n, down) \/ In(n, received) => In(n, down') \/ In(n, received')
    BY <1>6, InAppend, InTail DEF Receive, SeqTypes
  <2>3. ToWrite' = ToWrite
    BY <2>1 DEF ToWrite
  <2>8. places' = produced'
    BY <1>1, <1>2, <2>1, <2>2, <2>3
  <2>9. ASSUME NEW n \in 1..produced' PROVE placed(n)'
    BY <1>1, <1>2, <2>1, <2>2, <2>3
  <2> QED
    BY <2>8, <2>9
<1>7. CASE DownstreamCloses
  BY <1>7 DEF DownstreamCloses, Intact
<1>8. CASE LoopReads
  <2>1. UNCHANGED << received, down, rbuf, wbuf, hand, pc, produced >> /\ arriving = << >>
    BY <1>8 DEF LoopReads
  <2>2. /\ Len(up') = Len(up) - 1 /\ Len(arriving') = 1
        /\ \A n : In(n, up) => In(n, up') \/ In(n, arriving')
    BY <1>8, InTail, InOne DEF LoopReads, SeqTypes
  <2>3. ToWrite' = ToWrite
    BY <2>1 DEF ToWrite
  <2>8. places' = produced'
    BY <1>1, <1>2, <2>1, <2>2, <2>3, InNone
  <2>9. ASSUME NEW n \in 1..produced' PROVE placed(n)'
    BY <1>1, <1>2, <2>1, <2>2, <2>3, InNone
  <2> QED
    BY <2>8, <2>9
<1>9. CASE LoopDelivers
  <2>1. UNCHANGED << received, down, up, wbuf, hand, pc, produced >> /\ arriving' = << >>
    BY <1>9 DEF LoopDelivers
  <2>2. /\ Len(rbuf') = Len(rbuf) + Len(arriving)
        /\ \A n : In(n, rbuf) \/ In(n, arriving) => In(n, rbuf')
    BY <1>9, InConcat DEF LoopDelivers, SeqTypes
  <2>3. pc # "drain"
    BY <1>9 DEF LoopDelivers, Ways
  <2>4. ToWrite = rbuf /\ ToWrite' = rbuf'
    BY <2>1, <2>3 DEF ToWrite
  <2>8. places' = produced'
    BY <1>1, <1>2, <2>1, <2>2, <2>4, InNone
  <2>9. ASSUME NEW n \in 1..produced' PROVE placed(n)'
    BY <1>1, <1>2, <2>1, <2>2, <2>4, InNone
  <2> QED
    BY <2>8, <2>9
<1>10. CASE LoopWrites
  <2>1. UNCHANGED << received, up, arriving, rbuf, hand, pc, produced >>
    BY <1>10 DEF LoopWrites
  <2>2. /\ Len(wbuf') = Len(wbuf) - 1 /\ Len(down') = Len(down) + 1
        /\ \A n : In(n, wbuf) \/ In(n, down) => In(n, wbuf') \/ In(n, down')
    BY <1>10, InAppend, InTail DEF LoopWrites, SeqTypes
  <2>3. ToWrite' = ToWrite
    BY <2>1 DEF ToWrite
  <2>8. places' = produced'
    BY <1>1, <1>2, <2>1, <2>2, <2>3
  <2>9. ASSUME NEW n \in 1..produced' PROVE placed(n)'
    BY <1>1, <1>2, <2>1, <2>2, <2>3
  <2> QED
    BY <2>8, <2>9
<1>11. CASE WriterTransportCloses
  <2>1. UNCHANGED << received, down, up, arriving, rbuf, hand, pc, produced >>
        /\ wbuf = << >> /\ wbuf' = << >>
    BY <1>0, <1>11 DEF WriterTransportCloses, Intact
  <2>2. ToWrite' = ToWrite
    BY <2>1 DEF ToWrite
  <2> QED
    BY <1>1, <2>1, <2>2
<1>12. CASE DrainBuffer
  <2>1. UNCHANGED << received, up, arriving, rbuf, hand, produced >>
        /\ pc = "settle" /\ (pc' = "drain" \/ rbuf = << >>) /\ downOpen /\ wtr = "open"
    BY <1>3, <1>12 DEF DrainBuffer, Goes
  <2>2. /\ Len(down') + Len(wbuf') = Len(down) + Len(wbuf) + Len(rbuf)
        /\ Len(down') \in Nat /\ Len(wbuf') \in Nat
        /\ \A n : In(n, down) \/ In(n, wbuf) \/ In(n, rbuf) => In(n, down') \/ In(n, wbuf')
    BY <1>12, <2>1, WrittenKeeps, LenProperties DEF DrainBuffer, SeqTypes
  <2>3. ToWrite = rbuf /\ ToWrite' = << >>
    BY <2>1 DEF ToWrite
  <2>8. places' = produced'
    BY <1>1, <1>2, <2>1, <2>2, <2>3, InNone, SMTT(30)
  <2>9. ASSUME NEW n \in 1..produced' PROVE placed(n)'
    BY <1>1, <2>1, <2>2, <2>3
  <2> QED
    BY <2>8, <2>9
<1>13. CASE BufferDrained
  <2>1. UNCHANGED << received, down, up, arriving, wbuf, hand, produced >>
        /\ pc = "drain" /\ rbuf' = << >>
    BY <1>13 DEF BufferDrained
  <2>2. ToWrite = << >> /\ ToWrite' = << >>
    BY <2>1 DEF ToWrite
  <2> QED
    BY <1>1, <2>1, <2>2
<1>14. CASE WorkerReads
  <2>1. UNCHANGED << received, down, rbuf, wbuf, arriving, pc, produced >> /\ hand = << >>
    BY <1>14 DEF WorkerReads
  <2>2. ~ latched
    BY <1>0 DEF Intact, Ways
  <2>3. /\ Len(up') = Len(up) - 1 /\ Len(hand') = 1
        /\ \A n : In(n, up) => In(n, up') \/ In(n, hand')
    BY <1>14, <2>2, InTail, InOne DEF WorkerReads, SeqTypes
  <2>4. ToWrite' = ToWrite
    BY <2>1 DEF ToWrite
  <2>8. places' = produced'
    BY <1>1, <1>2, <2>1, <2>3, <2>4, InNone
  <2>9. ASSUME NEW n \in 1..produced' PROVE placed(n)'
    BY <1>1, <1>2, <2>1, <2>3, <2>4, InNone
  <2> QED
    BY <2>8, <2>9
<1>15. CASE WorkerWrites
  <2>1. UNCHANGED << received, up, rbuf, wbuf, arriving, pc, produced >> /\ hand' = << >>
        /\ down' = down \o hand
    BY <1>0, <1>15 DEF WorkerWrites, Intact
  <2>2. /\ Len(down') = Len(down) + Len(hand)
        /\ \A n : In(n, down) \/ In(n, hand) => In(n, down')
    BY <2>1, InConcat DEF SeqTypes
  <2>3. ToWrite' = ToWrite
    BY <2>1 DEF ToWrite
  <2>8. places' = produced'
    BY <1>1, <1>2, <2>1, <2>2, <2>3, InNone
  <2>9. ASSUME NEW n \in 1..produced' PROVE placed(n)'
    BY <1>1, <1>2, <2>1, <2>2, <2>3, InNone
  <2> QED
    BY <2>8, <2>9
<1>16. CASE PyReads
  <2>1. UNCHANGED << received, up, hand, arriving, produced >> /\ pc = "py_read"
        /\ pc' # "drain" /\ wtr = "open"
    BY <1>3, <1>16 DEF PyReads, Goes
  <2>2. CASE rbuf = << >>
    <3>1. UNCHANGED << down, wbuf, rbuf >>
      BY <1>16, <2>2 DEF PyReads
    <3> QED
      BY <1>1, <2>1, <3>1 DEF ToWrite
  <2>3. CASE rbuf # << >>
    <3>1. Written(<< Head(rbuf) >>) /\ rbuf' = Tail(rbuf)
      BY <1>16, <2>3 DEF PyReads
    <3>2. << Head(rbuf) >> \in Seq(Nat) /\ Len(<< Head(rbuf) >>) = 1
          /\ In(Head(rbuf), << Head(rbuf) >>)
      BY <2>3, InTail, InOne DEF SeqTypes
    <3>3. /\ Len(down') + Len(wbuf') = Len(down) + Len(wbuf) + 1
          /\ Len(down') \in Nat /\ Len(wbuf') \in Nat
          /\ \A n : In(n, down) \/ In(n, wbuf) \/ n = Head(rbuf)
                      => In(n, down') \/ In(n, wbuf')
      BY <1>0, <2>1, <3>1, <3>2, WrittenKeeps, LenProperties DEF Intact
    <3>4. /\ Len(rbuf') = Len(rbuf) - 1
          /\ \A n : In(n, rbuf) => n = Head(rbuf) \/ In(n, rbuf')
      BY <2>3, <3>1, InTail DEF SeqTypes
    <3> QED
      BY <1>1, <1>2, <2>1, <3>3, <3>4, SMTT(30) DEF ToWrite
  <2> QED
    BY <2>2, <2>3
<1>17. CASE PyDiscards
  BY <1>0, <1>17 DEF PyDiscards, Intact, Ways
<1>18. CASE UNCHANGED vars
  BY <1>1, <1>18 DEF vars, ToWrite
<1> QED
  BY Steps, <1>4, <1>5, <1>6, <1>7, <1>8, <1>9, <1>10, <1>11, <1>12, <1>13, <1>14,
     <1>15, <1>16, <1>17, <1>18

-----------------------------------------------------------------------------
LEMMA InitIInv == Init => IInv
<1> SUFFICES ASSUME Init PROVE IInv
  OBVIOUS
<1>1. Owned
  BY DEF Init, Owned, Over, Fds
<1>2. SeqTypes
  BY PumpAssumption, InNone DEF Init, SeqTypes
<1>3. Ways
  BY DEF Init, Ways, Hopeful, Ending, Over
<1>4. Carried
  BY InNone DEF Init, Carried, ToWrite
<1> QED
  BY <1>1, <1>2, <1>3, <1>4 DEF IInv

\* The invariant holds in every reachable state of a hop.
THEOREM Invariance == Spec => []IInv
<1>1. IInv /\ [Next]_vars => IInv'
  BY OwnedStep, TypesStep, WaysStep, CarriedStep DEF IInv
<1> QED
  BY InitIInv, <1>1, PTL DEF Spec

\* Whatever becomes of the hop and of its loop, the worker's descriptors are
\* open while it moves data, closed once, and closed when hop and worker are
\* over.  The reader is then resumed or closed, unless the hop was cancelled and
\* went without its cleanup when there was nothing to defer, and the loop closed
\* before the callback that resumes the reader.
THEOREM DescriptorsAreOwned == Spec => []WorkerOwnsDescriptors
<1>1. IInv => WorkerOwnsDescriptors
  BY DEF IInv, Owned, WorkerOwnsDescriptors, WorkerBusy, Fds, Over
<1> QED
  BY <1>1, Invariance, PTL

\* A hop that is over has closed its writer if it had a backend, and one that
\* ended well has given the downstream stage every chunk exactly once.
THEOREM NoChunkIsLost == Spec => []NothingLost
<1>1. IInv => NothingLost
  <2> SUFFICES ASSUME IInv PROVE NothingLost
    OBVIOUS
  <2> DEFINE out == received \o down
  <2>1. pc = "done" /\ backend # "none" => wtr # "open"
    BY DEF IInv, Ways
  <2>2. ASSUME pc = "done", err = "none", downOpen
        PROVE  /\ Len(out) = produced
               /\ \A n \in 1..produced : \E i \in 1..Len(out) : out[i] = n
    <3>1. worker # "raised"
      BY <2>2 DEF IInv, Ways, Ending
    <3>2. Intact /\ ToWrite = rbuf
      BY <2>2, <3>1 DEF Intact, ToWrite
    <3>3. up = << >> /\ arriving = << >> /\ rbuf = << >> /\ hand = << >> /\ wbuf = << >>
      BY <2>2, <3>1 DEF IInv, Ways, Ending
    <3>4. Len(received) + Len(down) = produced
          /\ \A n \in 1..produced : In(n, received) \/ In(n, down)
      BY <3>2, <3>3, InNone, LenProperties DEF IInv, Carried, SeqTypes
    <3>5. Len(out) = Len(received) + Len(down)
          /\ \A n : In(n, received) \/ In(n, down) => In(n, out)
      BY InConcat DEF IInv, SeqTypes
    <3> QED
      BY <3>4, <3>5 DEF In
  <2> QED
    BY <2>1, <2>2 DEF NothingLost
<1> QED
  BY <1>1, Invariance, PTL
=============================================================================
