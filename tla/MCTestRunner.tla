----------------------------- MODULE MCTestRunner -----------------------------
(* Small instances of TestRunner for TLC.                                    *)
EXTENDS TestRunner

MCNames == {"a", "b", "c"}
MCExeName == [i \in Test |-> CASE i = 1 -> "a" [] i = 2 -> "b" [] OTHER -> "c"]

MCHeader(version, tools) ==
  [a \in Attrs |-> CASE a = "version" -> version [] a = "tools" -> tools
                     [] OTHER -> None]
MCPass == [NoOutput EXCEPT !.begin = TRUE, !.end = TRUE,
                           !.state = "EXPECTED_PASS"]

(* A pass of two versions, a fatal error, a timeout and a benchmark.         *)
MCOutputs ==
  {[MCPass EXCEPT !.header = MCHeader(v, None)] : v \in Values} \cup
  {[NoOutput EXCEPT !.begin = TRUE, !.fatal = TRUE],
   [NoOutput EXCEPT !.begin = TRUE, !.timeout = TRUE],
   [NoOutput EXCEPT !.begin = TRUE, !.state = "BENCHMARK"]}
=============================================================================
