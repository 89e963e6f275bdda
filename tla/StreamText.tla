------------------------------ MODULE StreamText ------------------------------
(***************************************************************************)
(* What a stream's bytes become while they are read in chunks: text          *)
(* (rust/cuprum-streams/src/utf8.rs and the codecs' incremental decoders),   *)
(* observed lines (_stream_line_boundaries.py), bounded echo                 *)
(* (_stream_echo.py, _echo_truncation.py) and the retained tail of a bounded *)
(* capture (_capture_accumulators.py, _capture_decode.py); and, for each,    *)
(* what the whole stream should have become.                                 *)
(*                                                                           *)
(* Bytes are symbols.  UTF-8: "a", "lf" and "cr" stand for themselves, "L"   *)
(* leads a two-byte character and "C" continues it.  UTF-16: one byte of a   *)
(* unit, the first or the second by the byte order, says whether it is a     *)
(* high ("h") or a low ("w") surrogate; the other may be any symbol, and the *)
(* mark is "m" "n" in the one order and "n" "m" in the other.  Shift-JIS:    *)
(* "L" leads a two-byte character whose second byte may be any symbol.       *)
(***************************************************************************)
EXTENDS Integers, Sequences, SequencesExt, FiniteSetsExt

CONSTANTS
    MaxLine,     \* max_line_chars of line observation
    EchoMax,     \* max_line_bytes of bounded echo
    MarkerStep,  \* from this count on, a truncation marker is one byte longer
    TailMax      \* max_bytes of a bounded capture

ASSUME TextAssumption ==
    /\ MaxLine \in Nat \ {0} /\ EchoMax \in Nat \ {0} /\ TailMax \in Nat \ {0}
    /\ MarkerStep \in Nat

Upto(s, n) == SubSeq(s, 1, n)
From(s, n) == SubSeq(s, n, Len(s))

-----------------------------------------------------------------------------
\* Decoding with errors="replace"; "e" is the two-byte character, "?" is U+FFFD.

DecodedAt(bytes, i) ==
    CASE bytes[i] = "L" ->
           IF i < Len(bytes) /\ bytes[i + 1] = "C" THEN << "e" >> ELSE << "?" >>
      [] bytes[i] = "C" ->
           IF i > 1 /\ bytes[i - 1] = "L" THEN << >> ELSE << "?" >>
      [] OTHER -> << bytes[i] >>

Decoded(bytes) == FlattenSeq([i \in 1..Len(bytes) |-> DecodedAt(bytes, i)])

\* The bytes a decoder holds back: an incomplete sequence at the end.
PendingBytes(bytes) == IF bytes # << >> /\ Last(bytes) = "L" THEN 1 ELSE 0

\* decode_utf8_replace over the pending bytes and the next chunk.
DecodeChunk(pending, chunk, final) ==
    LET bytes == pending \o chunk
        done == Len(bytes) - (IF final THEN 0 ELSE PendingBytes(bytes))
    IN  [text |-> Decoded(Upto(bytes, done)), pending |-> From(bytes, done + 1)]

-----------------------------------------------------------------------------
\* _LineAccumulator.

Boundaries == {"lf", "cr"}

NoLine == [pending |-> << >>, skip |-> FALSE, lines |-> << >>]

\* _split_overflow: full fragments, and a remainder that is never empty.
SplitOverflow(pending) ==
    LET n == IF Len(pending) > MaxLine THEN (Len(pending) - 1) \div MaxLine ELSE 0
    IN  [fragments |-> [i \in 1..n |->
                          SubSeq(pending, (i - 1) * MaxLine + 1, i * MaxLine)],
         rest |-> From(pending, n * MaxLine + 1)]

CompleteLine(pending) ==
    LET split == SplitOverflow(pending) IN Append(split.fragments, split.rest)

\* The boundary loop of feed, from each position it reaches; "\r\n" is one boundary.
ScanLines(pending, text, start, lines) ==
    LET loop[from \in start..Len(text) + 1] ==
          LET found == {i \in from..Len(text) : text[i] \in Boundaries}
              at == Min(found)
              width == IF text[at] = "cr" /\ at < Len(text) /\ text[at + 1] = "lf"
                       THEN 2 ELSE 1
              before == IF from = start THEN pending ELSE << >>
              rest == loop[at + width]
          IN  IF found = {}
              THEN [pending |-> before \o From(text, from), lines |-> << >>]
              ELSE [rest EXCEPT !.lines =
                      CompleteLine(before \o SubSeq(text, from, at - 1)) \o @]
        scanned == loop[start]
    IN  [scanned EXCEPT !.lines = lines \o @]

\* Fault: a carriage return at the end of a chunk is taken for a whole boundary.
FeedWithoutHold(acc, text) ==
    LET scanned == ScanLines(acc.pending, text, 1, << >>)
        over == SplitOverflow(scanned.pending)
    IN  [pending |-> over.rest, skip |-> FALSE,
         lines |-> scanned.lines \o over.fragments]

\* feed: a carriage return that ends the text may be half of a boundary.
Feed(acc, text) ==
    LET held == acc.skip
        start == IF held /\ text[1] = "lf" THEN 2 ELSE 1
        holds == Last(text) = "cr"
        scanned == ScanLines(IF held THEN << >> ELSE acc.pending,
                             IF holds THEN Front(text) ELSE text, start,
                             IF held THEN CompleteLine(acc.pending) ELSE << >>)
        over == SplitOverflow(scanned.pending)
    IN  IF text = << >> THEN [acc EXCEPT !.lines = << >>]
        ELSE [pending |-> over.rest, skip |-> holds,
              lines |-> scanned.lines \o over.fragments]

\* finish.
FinishLines(acc) ==
    IF acc.skip \/ acc.pending # << >> THEN << acc.pending >> ELSE << >>

\* The lines of a whole text: str.splitlines, each cut after MaxLine characters.
TextLines(text) ==
    LET ends == SetToSortSeq(
                  {i \in 1..Len(text) :
                     \/ text[i] = "lf"
                     \/ text[i] = "cr" /\ (i = Len(text) \/ text[i + 1] # "lf")},
                  <)
        start == [k \in 1..Len(ends) + 1 |-> IF k = 1 THEN 1 ELSE ends[k - 1] + 1]
        body == [k \in 1..Len(ends) |->
                   SelectSeq(SubSeq(text, start[k], ends[k]),
                             LAMBDA c : c \notin Boundaries)]
        rest == From(text, start[Len(ends) + 1])
    IN  body \o (IF rest = << >> THEN << >> ELSE << rest >>)

Pieces(line) ==
    LET n == IF line = << >> THEN 1 ELSE (Len(line) + MaxLine - 1) \div MaxLine
    IN  [i \in 1..n |-> SubSeq(line, (i - 1) * MaxLine + 1,
                               Min({i * MaxLine, Len(line)}))]

ObservedLines(text) ==
    LET lines == TextLines(text)
    IN  FlattenSeq([k \in 1..Len(lines) |-> Pieces(lines[k])])

-----------------------------------------------------------------------------
\* _EchoLineLimiter.

NoEcho == [line |-> << >>, source |-> 0, cr |-> FALSE, out |-> << >>]

MarkerLength(dropped) == IF dropped < MarkerStep THEN 2 ELSE 3

EncodedLength(text) ==
    FoldLeft(LAMBDA n, c : n + (CASE c = "e" -> 2 [] c = "?" -> 3 [] OTHER -> 1),
             0, text)

\* _encode_prefix: how many bytes of the line are echoed within the budget, and
\* how long they are then; a text sink never sees half a character.
EncodePrefix(line, budget, text) ==
    IF ~ text
    THEN LET n == Min({Len(line), budget}) IN [source |-> n, encoded |-> n]
    ELSE LET fits == {n \in 0..Len(line) :
                        /\ PendingBytes(Upto(line, n)) = 0
                        /\ EncodedLength(Decoded(Upto(line, n))) <= budget}
             n == Max(fits)
         IN  [source |-> n, encoded |-> EncodedLength(Decoded(Upto(line, n)))]

\* _bounded_prefix: the marker's length depends on the count it reports, which
\* depends on what the marker leaves room for.
BoundedPrefix(line, source, ending, reported, text, rounds) ==
    LET loop[dropped \in 0..source, left \in 1..rounds] ==
          LET budget == Max({EchoMax - ending - MarkerLength(dropped), 0})
              prefix == EncodePrefix(line, budget, text)
              updated == source - prefix.source
          IN  IF updated = dropped \/ left = 1 THEN prefix ELSE loop[updated, left - 1]
    IN  loop[reported, rounds]

\* _fit_marker.
FitMarker(length, budget) == Min({length, budget})

\* finish_line: what is echoed of a line, and what is reported as dropped.
FinishEcho(line, source, ending, text) ==
    LET fitting == IF ending <= EchoMax THEN ending ELSE 0
        omitted == ending - fitting
        prefix == BoundedPrefix(line, source + omitted, fitting,
                                source + omitted, text, 16)
        dropped == source + omitted - prefix.source
        room == Max({EchoMax - prefix.encoded - fitting, 0})
    IN  IF source + ending <= EchoMax
        THEN [length |-> source + ending, kept |-> source + ending,
              dropped |-> 0, source |-> source + ending]
        ELSE [length |-> prefix.encoded + FitMarker(MarkerLength(dropped), room)
                           + fitting,
              kept |-> prefix.source + fitting,
              dropped |-> dropped, source |-> source + ending]

\* bound_line.
BoundLine(lim, segment) ==
    [lim EXCEPT !.source = @ + Len(segment),
                !.line = @ \o Upto(segment, Min({Len(segment), EchoMax - Len(@)}))]

\* _split_echo_segments: every "\n" ends a segment, with the "\r" before it.
EchoSegments(data) ==
    LET ends == SetToSortSeq({i \in 1..Len(data) : data[i] = "lf"}, <)
        start == [k \in 1..Len(ends) + 1 |-> IF k = 1 THEN 1 ELSE ends[k - 1] + 1]
        crlf(k) == ends[k] > start[k] /\ data[ends[k] - 1] = "cr"
        closed == [k \in 1..Len(ends) |->
                     [body |-> SubSeq(data, start[k],
                                      ends[k] - (IF crlf(k) THEN 2 ELSE 1)),
                      ending |-> IF crlf(k) THEN 2 ELSE 1]]
        rest == From(data, start[Len(ends) + 1])
    IN  closed \o (IF rest = << >> THEN << >>
                   ELSE << [body |-> rest, ending |-> 0] >>)

\* _write_finished_echo_line.
FinishInto(lim, ending, text) ==
    [lim EXCEPT !.line = << >>, !.source = 0,
                !.out = Append(@, FinishEcho(lim.line, lim.source, ending, text))]

\* _echo_bounded_segment.
EchoSegment(lim, segment, text) ==
    LET bound == BoundLine(lim, segment.body)
    IN  IF segment.ending = 0 THEN bound ELSE FinishInto(bound, segment.ending, text)

\* _echo_chunk, with the carriage return held over from the last chunk.
EchoChunk(lim, chunk, text) ==
    LET data == (IF lim.cr THEN << "cr" >> ELSE << >>) \o chunk
        holds == Last(data) = "cr"
        rest == IF holds THEN Front(data) ELSE data
    IN  FoldLeft(LAMBDA l, s : EchoSegment(l, s, text),
                 [lim EXCEPT !.cr = holds, !.out = << >>], EchoSegments(rest))

\* _flush_echo_decoder.
FlushEcho(lim, text) ==
    LET empty == [lim EXCEPT !.cr = FALSE, !.out = << >>]
        bound == IF lim.cr THEN BoundLine(empty, << "cr" >>) ELSE empty
    IN  IF bound.source > 0 THEN FinishInto(bound, 0, text) ELSE bound

\* The echo of a whole stream.
EchoedLines(bytes, text) ==
    LET segments == EchoSegments(bytes)
    IN  [k \in 1..Len(segments) |->
           FinishEcho(Upto(segments[k].body, Min({Len(segments[k].body), EchoMax})),
                      Len(segments[k].body), segments[k].ending, text)]

-----------------------------------------------------------------------------
\* _BoundedAccumulator.

NoTail == [buffer |-> << >>, total |-> 0, dropped |-> 0, offset |-> 0,
           prefix |-> << >>]

BomMaxBytes == 4

\* absorb.
AbsorbTail(tail, chunk) ==
    LET buffer == tail.buffer \o chunk
        total == tail.total + Len(chunk)
        overflow == Len(buffer) - TailMax
        head == Min({Len(chunk), BomMaxBytes - Len(tail.prefix)})
        prefix == tail.prefix \o Upto(chunk, head)
    IN  IF overflow > 0
        THEN [buffer |-> From(buffer, overflow + 1), total |-> total,
              dropped |-> total - TailMax, offset |-> tail.offset + overflow,
              prefix |-> prefix]
        ELSE [tail EXCEPT !.buffer = buffer, !.total = total, !.prefix = prefix]

\* _CODE_UNIT_BYTES names the fixed-width codecs.
FixedWidth == {"utf16be", "utf16le"}

\* The byte that tells a surrogate, of the UTF-16 unit that starts at u.
HighByte(bytes, u, codec) == bytes[IF codec = "utf16be" THEN u ELSE u + 1]

\* _mark_selected_codec, else _native_codec of a little-endian platform.
MarkSelectedCodec(prefix) ==
    IF IsPrefix(<< "m", "n" >>, prefix) THEN "utf16be" ELSE "utf16le"

\* _bounded_settings: the codec of a tail whose head, and so whose mark, is gone.
BoundedSettings(tail, codec) ==
    CASE codec = "utf8sig" -> "utf8"
      [] codec = "utf16" -> MarkSelectedCodec(tail.prefix)
      [] OTHER -> codec

\* _leading_trim: the bytes before the first code point that starts in the tail.
LeadingTrim(tail, codec, offset) ==
    CASE codec \in FixedWidth ->
           LET cut == (2 - (offset % 2)) % 2
               low == cut + 2 <= Len(tail) /\ HighByte(tail, cut + 1, codec) = "w"
           IN  Min({cut + (IF low THEN 2 ELSE 0), Len(tail)})
      [] codec = "utf8" ->
           Max({n \in 0..Min({Len(tail), 3}) : \A i \in 1..n : tail[i] = "C"})
      [] OTHER -> 0

\* A Shift-JIS character starts at i: the lead bytes before it come in pairs.
StartsShiftJis(bytes, i) ==
    Max({n \in 0..i - 1 : \A k \in i - n..i - 1 : bytes[k] = "L"}) % 2 = 0

\* _pending_bytes: what the decoder has taken and not turned into text.
TrailingTrim(bytes, codec) ==
    CASE codec \in FixedWidth ->
           LET odd == Len(bytes) % 2
               unit == Len(bytes) - odd - 1
           IN  odd + (IF unit > 0 /\ HighByte(bytes, unit, codec) = "h"
                      THEN 2 ELSE 0)
      [] codec = "utf8" -> PendingBytes(bytes)
      [] codec = "sjis" ->
           IF StartsShiftJis(bytes, Len(bytes) + 1) THEN 0 ELSE 1
      [] OTHER -> 0

\* finalize: _trim_to_code_point, where bytes were dropped and text is wanted.
FinalTail(tail, codec) ==
    LET cutAs == IF tail.dropped = 0 THEN codec ELSE BoundedSettings(tail, codec)
        cut == LeadingTrim(tail.buffer, cutAs, tail.offset)
        led == From(tail.buffer, cut + 1)
        kept == IF codec = "bytes" \/ tail.dropped = 0 THEN tail.buffer
                ELSE Upto(led, Len(led) - TrailingTrim(led, cutAs))
    IN  [kept |-> kept, codec |-> cutAs,
         dropped |-> tail.dropped + Len(tail.buffer) - Len(kept)]

-----------------------------------------------------------------------------
\* _bounded_encoding.py: which codecs a cut tail can be read with.

\* The bytes that a codec's decoder, fed one alone, holds back.
HeldAlone(codec) ==
    CASE codec \in {"utf8", "utf8sig", "sjis"} -> {"L"}
      [] codec \in FixedWidth \cup {"utf16"} -> {"a", "h", "w", "m", "n"}
      [] OTHER -> {}

\* _is_single_byte.
IsSingleByte(codec) == HeldAlone(codec) = {}

\* _is_trim_safe, of a codec the registry knows.
IsTrimSafe(codec) ==
    codec \in {"utf8", "utf16", "utf8sig"} \cup FixedWidth \/ IsSingleByte(codec)

\* _reject_unsupported_bounded_encoding.
BoundedEncodingAllowed(codec, captureBytes) == captureBytes \/ IsTrimSafe(codec)

-----------------------------------------------------------------------------
\* The codec that reads the whole stream, its mark included.
StreamCodec(bytes, codec) ==
    CASE codec = "utf8sig" -> "utf8"
      [] codec = "utf16" -> IF IsPrefix(<< "m", "n" >>, bytes)
                            THEN "utf16be" ELSE "utf16le"
      [] OTHER -> codec

\* Where the characters of a well-formed stream start, its end included.
Starts(bytes, codec) ==
    {Len(bytes) + 1} \cup
    {i \in 1..Len(bytes) :
       CASE codec = "utf8" -> bytes[i] # "C"
         [] codec \in FixedWidth -> i % 2 = 1 /\ HighByte(bytes, i, codec) # "w"
         [] codec = "sjis" -> StartsShiftJis(bytes, i)
         [] OTHER -> TRUE}

WellFormed(bytes, codec) ==
    CASE codec = "utf8" -> "?" \notin Range(Decoded(bytes))
      [] codec \in FixedWidth ->
           /\ Len(bytes) % 2 = 0
           /\ \A i \in {j \in 1..Len(bytes) : j % 2 = 1} :
                /\ HighByte(bytes, i, codec) = "h" =>
                     i + 2 < Len(bytes) /\ HighByte(bytes, i + 2, codec) = "w"
                /\ HighByte(bytes, i, codec) = "w" =>
                     i > 2 /\ HighByte(bytes, i - 2, codec) = "h"
      [] codec = "sjis" -> StartsShiftJis(bytes, Len(bytes) + 1)
      [] OTHER -> TRUE

\* The longest run of whole characters at the end that fits the bound.
LongestTail(bytes, codec) ==
    From(bytes, Min({i \in Starts(bytes, codec) : i > Len(bytes) - TailMax}))
=============================================================================
