----------------------------- MODULE StreamDrain -----------------------------
(***************************************************************************)
(* One drain of a child's stream (cuprum/_streams.py): every chunk is        *)
(* absorbed by the capture, then echoed, then observed as lines.  A          *)
(* file-backed capture (_capture_file.py, _capture_spill_io.py) moves to     *)
(* disk through calls on a worker thread that may fail, and the drain may be *)
(* cancelled at each of them: such a call runs to its end, and then the      *)
(* cancellation wins over its outcome.  The run that owns the drain releases *)
(* what is left (_capture_cleanup.py).                                       *)
(***************************************************************************)
EXTENDS StreamText

CONSTANTS
    Runs,       \* the configurations a drain is started with
    MaxBytes,   \* bytes the child writes
    MaxChunk,   \* bytes one read returns
    MaxCancels  \* how often the drain is cancelled

ASSUME DrainAssumption ==
    /\ MaxBytes \in Nat /\ MaxChunk \in Nat \ {0} /\ MaxCancels \in Nat
    /\ \A r \in Runs :
         /\ r.capture \in {"none", "full", "bounded", "file"}
         /\ r.codec \in {"utf8", "utf8sig", "utf16", "utf16le", "utf16be",
                         "latin1", "sjis", "bytes"}
         /\ r.echo \in {"off", "bytes", "text"}
         /\ {r.lines, r.keep, r.readBack, r.discard, r.settled, r.bestEffort}
              \subseteq BOOLEAN
         /\ r.threshold \in Nat   \* 0: spill at once

VARIABLES
    config,       \* the configuration
    pc,        \* where the drain is suspended
    cancels,   \* cancellations left
    consumed,  \* every byte read
    chunk,     \* the chunk in hand
    fanned,    \* the bytes echo and lines have seen
    decoder,   \* bytes the line decoder holds back
    acc,       \* the line accumulator
    observed,  \* the lines handed to the observer
    lim,       \* the echo limiter
    echoed,    \* the lines handed to the echo sink
    echoing,   \* the echo guard is not disabled
    tail,      \* the bounded capture
    file,      \* the file-backed capture
    hidden,    \* a write failed under a cancellation
    returned,    \* what the drain returned, << >> when it raised
    finished   \* lines and echo were brought to their end

views == << fanned, decoder, acc, observed, lim, echoed, echoing >>
drainVars == << config, pc, cancels, consumed, chunk, views, tail, file, hidden, returned,
           finished >>

\* _reject_unsupported_bounded_captures, before anything is spawned.
Accepted(r) ==
    r.capture = "bounded" => BoundedEncodingAllowed(r.codec, r.codec = "bytes")

DrainInit ==
    /\ config \in Runs
    /\ pc = IF Accepted(config) THEN "read" ELSE "refused"
    /\ cancels = MaxCancels
    /\ consumed = << >> /\ chunk = << >> /\ fanned = << >>
    /\ decoder = << >> /\ acc = NoLine /\ observed = << >>
    /\ lim = NoEcho /\ echoed = << >> /\ echoing = TRUE
    /\ tail = NoTail
    /\ file = [mem |-> << >>, data |-> << >>, path |-> FALSE, handle |-> FALSE,
               keep |-> FALSE, open |-> FALSE, exists |-> FALSE, failed |-> FALSE]
    /\ hidden = FALSE /\ returned = << >> /\ finished = FALSE

\* A cancellation may arrive at the await; the awaited call ends first.
Hit(hit) ==
    /\ hit => cancels > 0
    /\ cancels' = IF hit THEN cancels - 1 ELSE cancels

Symbols ==
    CASE config.capture = "file" -> {"a"}
      [] config.codec = "utf16" -> {"a", "h", "w", "m", "n"}
      [] config.codec \in FixedWidth -> {"a", "h", "w"}
      [] config.lines -> {"a", "lf", "cr", "L", "C"}
      [] OTHER -> {"a", "L", "C"}

-----------------------------------------------------------------------------
\* absorb: _FullAccumulator keeps everything, _BoundedAccumulator the tail, and
\* _FileAccumulator buffers until _should_spill.
Absorb(bytes) ==
    LET mem == file.mem \o bytes
        spills == ~ file.failed /\ Len(mem) > config.threshold
    IN  /\ tail' = IF config.capture = "bounded" THEN AbsorbTail(tail, bytes) ELSE tail
        /\ file' = IF config.capture = "file" /\ ~ file.path
                   THEN [file EXCEPT !.mem = mem] ELSE file
        /\ pc' = CASE config.capture # "file" -> "fan"
                   [] file.path -> IF file.failed THEN "fan" ELSE "append"
                   [] OTHER -> IF spills THEN "create" ELSE "fan"

\* _drain_chunks and _deliver_chunk.
Read ==
    /\ pc = "read"
    /\ \E n \in 1..MaxChunk : \E bytes \in [1..n -> Symbols] :
         /\ Len(consumed) + n <= MaxBytes
         /\ consumed' = consumed \o bytes
         /\ chunk' = bytes
         /\ Absorb(bytes)
    /\ UNCHANGED << config, cancels, views, hidden, returned, finished >>

CancelRead ==
    /\ pc = "read"
    /\ Hit(TRUE)
    /\ pc' = "stop"
    /\ UNCHANGED << config, consumed, chunk, views, tail, file, hidden, returned,
                    finished >>

-----------------------------------------------------------------------------
\* _FileAccumulator.

\* _create_published_spill: a file that exists is adopted before anything
\* escapes, and is not kept until it holds the capture.
Create(ok, hit) ==
    /\ pc = "create"
    /\ Hit(hit)
    /\ file' = IF ok THEN [file EXCEPT !.handle = TRUE, !.open = TRUE,
                                       !.exists = TRUE]
               ELSE [file EXCEPT !.failed = ~ hit]
    /\ pc' = IF hit THEN "stop" ELSE IF ok THEN "write" ELSE "fan"
    /\ UNCHANGED << config, consumed, chunk, views, tail, hidden, returned, finished >>

\* _spill: the buffer is written and flushed, then given up.
WriteSpill(ok, hit) ==
    /\ pc = "write"
    /\ Hit(hit)
    /\ file' = IF ok /\ ~ hit
               THEN [file EXCEPT !.data = file.mem, !.mem = << >>,
                                 !.path = TRUE, !.keep = config.keep]
               ELSE file
    /\ pc' = IF hit THEN "stop" ELSE IF ok THEN "fan" ELSE "discard"
    /\ UNCHANGED << config, consumed, chunk, views, tail, hidden, returned, finished >>

\* _discard_failed_spill: closed, removed, then disowned; the last two are not
\* reached when the close is cancelled.
Discard(hit, gone) ==
    /\ pc = "discard"
    /\ Hit(hit)
    /\ hit \/ gone
    /\ file' = [file EXCEPT !.open = FALSE, !.exists = ~ gone, !.handle = hit,
                            !.failed = ~ hit]
    /\ pc' = IF hit THEN "stop" ELSE "fan"
    /\ UNCHANGED << config, consumed, chunk, views, tail, hidden, returned, finished >>

\* _append: a write that fails may have written part of the chunk.
Append_(ok, hit) ==
    /\ pc = "append"
    /\ Hit(hit)
    /\ \E n \in (IF ok THEN {Len(chunk)} ELSE 0..Len(chunk) - 1) :
         file' = [file EXCEPT !.data = @ \o Upto(chunk, n),
                              !.failed = ~ ok /\ ~ hit]
    /\ hidden' = (hidden \/ (~ ok /\ hit))
    /\ pc' = IF hit THEN "stop" ELSE "fan"
    /\ UNCHANGED << config, consumed, chunk, views, tail, returned, finished >>

-----------------------------------------------------------------------------
\* _echo_write: the sink takes the first k lines and may refuse the next, which
\* disables the echo or, under a strict policy, fails the drain.
Echo(out, k, next) ==
    /\ k < Len(out) => echoing
    /\ echoed' = IF echoing THEN echoed \o Upto(out, k) ELSE echoed
    /\ echoing' = (echoing /\ k = Len(out))
    /\ pc' = IF k < Len(out) /\ ~ config.bestEffort THEN "ended" ELSE next

\* _fan_out_chunk: echo, then the line publisher (feed_decoder).
FanOut ==
    /\ pc = "fan"
    /\ LET text == config.echo = "text"
           limited == IF config.echo = "off" \/ ~ echoing THEN [lim EXCEPT !.out = << >>]
                      ELSE EchoChunk(lim, chunk, text)
       IN  \E k \in 0..Len(limited.out) :
             /\ Echo(limited.out, k, "read")
             /\ lim' = [limited EXCEPT !.out = << >>]
    /\ IF config.lines /\ pc' # "ended"
       THEN LET decoded == DecodeChunk(decoder, chunk, FALSE)
                fed == Feed(acc, decoded.text)
            IN  /\ decoder' = decoded.pending
                /\ acc' = [fed EXCEPT !.lines = << >>]
                /\ observed' = observed \o fed.lines
       ELSE UNCHANGED << decoder, acc, observed >>
    /\ fanned' = fanned \o chunk
    /\ chunk' = << >>
    /\ UNCHANGED << config, cancels, consumed, tail, file, hidden, returned, finished >>

-----------------------------------------------------------------------------
\* _finish_drain: at the end of the stream, or after a cancellation that is to
\* preserve what was captured.
Finish ==
    /\ pc = "read" \/ (pc = "stop" /\ config.capture # "none" /\ ~ config.discard)
    /\ LET flushed == IF config.echo = "off" \/ ~ echoing
                      THEN [lim EXCEPT !.out = << >>]
                      ELSE FlushEcho(lim, config.echo = "text")
       IN  \E k \in 0..Len(flushed.out) :
             /\ Echo(flushed.out, k,
                     IF config.capture = "none" THEN "finish" ELSE "finalize")
             /\ lim' = [flushed EXCEPT !.out = << >>]
    /\ UNCHANGED << config, cancels, consumed, chunk, fanned, decoder, acc, observed,
                    tail, file, hidden, returned, finished >>

DiscardOnCancel ==
    /\ pc = "stop"
    /\ config.capture = "none" \/ config.discard
    /\ pc' = "ended"
    /\ UNCHANGED << config, cancels, consumed, chunk, views, tail, file, hidden,
                    returned, finished >>

\* _finalize: the payload, the codec it is rendered with and the record.
Returns(kept, codec, dropped, failed) ==
    /\ returned' = << [kept |-> kept, codec |-> codec, dropped |-> dropped,
                     failed |-> failed] >>
    /\ pc' = "finish"

\* finalize.
Finalize ==
    /\ pc = "finalize"
    /\ CASE config.capture = "full" -> Returns(consumed, config.codec, 0, FALSE)
         [] config.capture = "bounded" ->
              LET final == FinalTail(tail, config.codec)
              IN  Returns(final.kept, final.codec, final.dropped, FALSE)
         [] config.capture = "file" /\ ~ file.path ->
              Returns(file.mem, config.codec, 0, file.failed)
         [] OTHER -> pc' = "flush" /\ UNCHANGED returned
    /\ UNCHANGED << config, cancels, consumed, chunk, views, tail, file, hidden,
                    finished >>

\* _finalize_cancelled_capture: a settlement that preserves tries once more.
FinalizeCancelled ==
    /\ pc' = IF config.lines /\ config.settled /\ ~ config.discard THEN "finalize" ELSE "ended"
    /\ UNCHANGED returned

\* Fault: a flush that fails is not reported.
FlushUnreported(ok, hit) ==
    /\ pc = "flush"
    /\ Hit(hit)
    /\ file' = IF ok THEN file ELSE [file EXCEPT !.data = << >>]
    /\ IF hit THEN FinalizeCancelled
       ELSE IF config.readBack THEN pc' = "readBack" /\ UNCHANGED returned
       ELSE Returns(file'.data, config.codec, 0, file'.failed)
    /\ UNCHANGED << config, consumed, chunk, views, tail, hidden, finished >>

\* _flush_before_reading: what was not flushed before may be lost.
Flush(ok, hit) ==
    /\ pc = "flush"
    /\ Hit(hit)
    /\ \E n \in (IF ok THEN {Len(file.data)} ELSE 0..Len(file.data)) :
         file' = [file EXCEPT !.data = Upto(@, n),
                              !.failed = @ \/ (~ ok /\ ~ hit)]
    /\ hidden' = (hidden \/ (~ ok /\ hit))
    /\ IF hit THEN FinalizeCancelled
       ELSE IF config.readBack THEN pc' = "readBack" /\ UNCHANGED returned
       ELSE Returns(file'.data, config.codec, 0, file'.failed)
    /\ UNCHANGED << config, consumed, chunk, views, tail, finished >>

\* _read_back.
ReadBack(ok, hit) ==
    /\ pc = "readBack"
    /\ Hit(hit)
    /\ file' = [file EXCEPT !.failed = @ \/ (~ ok /\ ~ hit)]
    /\ IF hit THEN FinalizeCancelled ELSE Returns(file.data, config.codec, 0, file'.failed)
    /\ UNCHANGED << config, consumed, chunk, views, tail, hidden, finished >>

\* _LinePublisher.finish.
FinishLineView ==
    /\ pc = "finish"
    /\ IF config.lines
       THEN LET decoded == DecodeChunk(decoder, << >>, TRUE)
                fed == Feed(acc, decoded.text)
            IN  /\ decoder' = << >>
                /\ acc' = NoLine
                /\ observed' = observed \o fed.lines \o FinishLines(fed)
       ELSE UNCHANGED << decoder, acc, observed >>
    /\ finished' = TRUE
    /\ pc' = "ended"
    /\ UNCHANGED << config, cancels, consumed, chunk, fanned, lim, echoed, echoing,
                    tail, file, hidden, returned >>

-----------------------------------------------------------------------------
\* Fault: only the handles that the drains returned are closed.
CleanupResultsOnly ==
    /\ pc = "ended"
    /\ file' = IF returned # << >> /\ file.path
               THEN [file EXCEPT !.open = FALSE, !.exists = @ /\ file.keep]
               ELSE file
    /\ pc' = "clean"
    /\ UNCHANGED << config, cancels, consumed, chunk, views, tail, hidden, returned,
                    finished >>

\* _finalize_capture_handles, under the owner's shield: the handle the result
\* names, then whatever handle the accumulator still has.
Cleanup ==
    /\ pc = "ended"
    /\ file' = IF file.handle
               THEN [file EXCEPT !.open = FALSE, !.exists = @ /\ file.keep]
               ELSE file
    /\ pc' = "clean"
    /\ UNCHANGED << config, cancels, consumed, chunk, views, tail, hidden, returned,
                    finished >>

DrainNext ==
    \/ Read \/ CancelRead \/ FanOut \/ Finish \/ DiscardOnCancel \/ Finalize
    \/ FinishLineView \/ Cleanup
    \/ \E ok, hit \in BOOLEAN :
         Create(ok, hit) \/ WriteSpill(ok, hit) \/ Append_(ok, hit)
           \/ Flush(ok, hit) \/ ReadBack(ok, hit)
    \/ \E hit, gone \in BOOLEAN : Discard(hit, gone)

DrainSpec == DrainInit /\ [][DrainNext]_drainVars

-----------------------------------------------------------------------------
\* However the stream is cut into chunks, the observer sees the lines of the
\* whole text: no terminator split by a chunk is taken for two, no character
\* split by a chunk is lost, and no fragment is longer than the bound.
LinesExact ==
    config.lines =>
      LET lines == ObservedLines(Decoded(fanned))
      IN  /\ IsPrefix(observed, lines)
          /\ finished => observed = lines

\* However the stream is cut into chunks, the echo is that of the whole stream
\* until the sink refuses it, and no echoed line is longer than the bound, its
\* truncation marker included.
EchoExact ==
    config.echo # "off" =>
      LET lines == EchoedLines(fanned, config.echo = "text")
      IN  /\ IsPrefix(echoed, lines)
          /\ finished /\ echoing => echoed = lines
          /\ \A i \in 1..Len(echoed) : echoed[i].length <= EchoMax

\* A bounded capture keeps the longest run of whole characters at the end of
\* the stream that fits its bound, counts every byte it does not keep, and reads
\* what it kept in the byte order of the whole stream; an encoding in which that
\* cannot be done is refused.
TailExact ==
    config.capture = "bounded" /\ returned # << >> =>
      LET r == returned[1]
          codec == StreamCodec(consumed, config.codec)
      IN  /\ Len(r.kept) <= TailMax
          /\ Len(r.kept) + r.dropped = Len(consumed)
          /\ r.codec = (IF r.kept = consumed THEN config.codec ELSE codec)
          /\ WellFormed(consumed, codec) => r.kept = LongestTail(consumed, codec)

\* What is made of a stream - its lines, its echo and its bounded tail - depends
\* on its bytes and not on the chunks they arrive in.
TextExact == LinesExact /\ EchoExact /\ TailExact

\* A file-backed capture that does not report a storage failure is complete,
\* whichever calls failed or were cancelled on the way, and what the file holds
\* is always a prefix of the stream.  (A write that fails under a cancellation
\* is not reported: the cancellation wins.)
CompleteUnlessReported ==
    /\ config.capture = "file" /\ returned # << >> /\ ~ hidden /\ ~ returned[1].failed =>
         returned[1].kept = consumed
    /\ IsPrefix(file.data, consumed)

\* Once the run has cleaned up, no spill file is open, and one is left on disk
\* only if the caller asked to keep it and it became the capture's storage.
SpillReclaimed ==
    pc = "clean" => ~ file.open /\ (file.exists => config.keep /\ file.path)
=============================================================================
