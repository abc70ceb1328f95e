----------------------------- MODULE MCRldResolver -----------------------------
(* Every program of three objects and three symbols for TLC.  The first     *)
(* symbol is the entry, which the first object defines; object 1 is on the  *)
(* command line, 2 and 3 are members of a library, or 3 is a file too.      *)
EXTENDS RldResolver

MCObjects == 1 .. 3
MCSymbols == 1 .. 3
Rows(entry, kinds) == {[s \in MCSymbols |-> IF s = 1 THEN entry ELSE r[s]] :
                         r \in [2 .. 3 -> kinds]}
MCOptions == {<<<<1>>, {}, {}>>, <<<<3, 1>>, {}, {}>>, <<<<1>>, {2}, {3}>>}
MCInputs ==
  {[kind |-> <<k1, k2, k3>>, cmd |-> options[1],
    base |-> options[2], defines |-> options[3], undefs |-> {1}] :
     k1 \in Rows("global", Kinds \ {"weak"}), k2 \in Rows("none", Kinds),
     k3 \in Rows("none", Kinds), options \in MCOptions}
================================================================================
