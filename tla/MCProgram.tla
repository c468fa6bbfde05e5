-------------------------------- MODULE MCProgram -------------------------------
(***************************************************************************)
(* Bounded instances of Program.                                           *)
(***************************************************************************)
EXTENDS ProgramProperties

\* Lengths from nothing to three chunks and more, with bytes at the edges; the
\* last ones are base64 text, with = signs in the wrong place and in the right.
Files ==
  {[i \in 1..n |-> 7 * i] : n \in {0, 1, 2, 3, 5, 6, 7, 8, 12, 13, 20}}
    \cup {<<0>>, <<255, 0>>, <<61, 61, 61, 61, 61>>,
          <<255, 254, 0, 253, 61, 1, 2, 128, 64, 3>>,
          <<65, 61, 61, 66, 67, 68, 69, 70, 71>>,
          <<90, 90, 48, 61>>, <<61, 61, 61, 61>>}

\* The keys of these command lines need two bytes, or more.
Lines(option) ==
  {<<<<"k", 7>>, <<option, "name">>>>,
   <<<<option, "name">>, <<"f">>>>,
   <<<<"f">>, <<option, "-">>, <<"k", 256 + 7>>>>,
   <<<<"k", 65536 + 300>>, <<"f">>, <<option, "name">>, <<"k", 300>>>>}

\* Every order of at most four options, over a short text.
AnyOptions ==
  {<<"k", 7>>, <<"k", 300>>, <<"e", "name">>, <<"d", "-">>, <<"f">>, <<"h">>, <<"?">>}

AnyLines == UNION {[1..n -> AnyOptions] : n \in 0..4}

FilesAndLines ==
  ((Lines("e") \cup Lines("d")) \X Files) \cup (AnyLines \X {<<90, 90, 48, 61>>})

DecodeLines == Lines("d")

=============================================================================
