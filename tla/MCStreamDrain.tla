---------------------------- MODULE MCStreamDrain ----------------------------
(***************************************************************************)
(* The drains that are checked: views of text with and without a capture,    *)
(* bounded captures in each kind of encoding, and file-backed captures.      *)
(***************************************************************************)
EXTENDS StreamDrain

Plain == [capture |-> "none", codec |-> "utf8", echo |-> "off", lines |-> FALSE,
          keep |-> FALSE, readBack |-> FALSE, discard |-> FALSE,
          settled |-> FALSE, bestEffort |-> TRUE, threshold |-> 0]

Viewed == {[Plain EXCEPT !.lines = TRUE, !.echo = echo, !.capture = capture,
                         !.bestEffort = capture = "none"] :
             echo \in {"bytes", "text"}, capture \in {"none", "full"}}

Bounded == {[Plain EXCEPT !.capture = "bounded", !.codec = codec,
                          !.discard = discard] :
              codec \in {"utf8", "utf16", "utf16be", "sjis", "bytes"},
              discard \in BOOLEAN}
           \cup {[Plain EXCEPT !.capture = "bounded", !.codec = codec] :
                   codec \in {"utf8sig", "utf16le", "latin1"}}

FileBacked == {[Plain EXCEPT !.capture = "file", !.keep = keep,
                             !.readBack = readBack, !.discard = discard,
                             !.settled = settled, !.threshold = threshold,
                             !.lines = settled] :
                 keep, readBack, discard, settled \in BOOLEAN,
                 threshold \in {0, 2}}

SmallRuns == Viewed \cup Bounded \cup FileBacked
=============================================================================
