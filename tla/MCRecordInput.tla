----------------------------- MODULE MCRecordInput -----------------------------
(* Small instances of RecordInput for TLC.  The integers have two bytes, all *)
(* bytes of the items differ.  The stream is not a whole number of base64    *)
(* groups of three bytes with 32 bits of data (12) or is one with 64 (16);   *)
(* the buffer of the inflation is smaller than what one byte completes.      *)
EXTENDS RecordInput

MCItems32 == <<[event |-> <<1, 2>>, data |-> <<3, 255>>],
               [event |-> <<5, 6>>, data |-> <<7, 8>>]>>
MCItems64 == <<[event |-> <<1, 2>>, data |-> <<3, 4, 5, 6>>],
               [event |-> <<7, 8>>, data |-> <<9, 10, 11, 12>>]>>
MCMagic == <<20, 21>>
MCMagics == {<<20, 21>>, <<21, 20>>}
MCFormats == KnownFormats \cup {0}

\* "*** B ", "**", "LIB ***" and "** E **", "** E Z **"
MCBegin == <<Star, Star, Star, Blank, 1, Blank>>
MCPlain == <<Star, Star>>
MCZlib == <<11, Star, Star>>
MCEnd == <<Star, Blank, 4, Blank, Star>>
MCEndZlib == <<Star, Blank, 4, Zed, Star>>

Input(f, m, e, before, after) ==
  [source |-> [encoding |-> e, before |-> before, after |-> after],
   format |-> f, magic |-> m]
MCInputs ==
  {Input(f, m, "raw", <<>>, <<>>) : f \in MCFormats, m \in MCMagics}
  \cup {Input(f, MCMagic, e, <<>>, <<>>) : f \in {LE32, LE64}, e \in Encodings}
  \cup {Input(LE32, MCMagic, "log", <<0, Blank>>, <<>>),
        Input(LE32, MCMagic, "log", <<Star>>, <<>>),
        Input(LE32, MCMagic, "log zlib", <<Star, Star, Star, Blank>>, <<>>),
        Input(LE32, MCMagic, "zlib", <<>>, <<7>>),
        Input(LE32, MCMagic, "base64 zlib", <<>>, <<7>>)}
================================================================================
