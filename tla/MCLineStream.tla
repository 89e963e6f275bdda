---------------------------- MODULE MCLineStream ----------------------------
(***************************************************************************)
(* LineStream with two lines of output and one of error output.            *)
(***************************************************************************)
EXTENDS LineStream

StreamNames == {"stdout", "stderr"}
LineBound == [s \in StreamNames |-> IF s = "stdout" THEN 2 ELSE 1]
=============================================================================
