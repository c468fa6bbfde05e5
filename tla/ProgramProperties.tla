--------------------------- MODULE ProgramProperties ---------------------------
(***************************************************************************)
(* What the program promises to those who run it.                          *)
(***************************************************************************)
EXTENDS Program

\* What was encoded comes back, for data of every length, when it is decoded with
\* a key that agrees in its lowest byte, whatever kinds of source are used: all
\* that was written so far is right, and a success is complete.  Chunks are cut
\* at multiples of three bytes and of four characters, so the = signs stay at the
\* end of the encoded output.
DecodesWhatItEncoded ==
  mode = "decode" /\ key # NoKey /\ KeyOf(argv) % 256 = key % 256 =>
    /\ IsPrefix(out, original)
    /\ Succeeded => out = original

\* The options count in any order: coding uses the last key of the command line,
\* the first of -e and -d with its name, and a stream if -f stands anywhere.  A
\* command line with -h or an unknown option codes nothing.
OptionsInAnyOrder ==
  mpc \notin {"options", "open", "exit"} =>
    /\ xor_key = KeyOf(argv) % 256
    /\ mode = ModeOf(argv) /\ df = KindOf(argv)
    /\ Places(argv, {"h", "?"}) = {}

\* The loop hands no empty chunk to the chain.  base64Decode would look for its =
\* signs before the beginning of an empty text.
NoEmptyChunk == mpc = "code1" => buff1 # <<>>

\* The program ends, or hangs in the coding of one chunk: the wait for the worker is
\* the only place where it can stay.  Whatever it is given, its options, its source and
\* its loop have no way to go on for ever, and the next process starts only after an exit.
ProgramEnds ==
  []<>(mpc = "exit") \/ <>[](mpc \in {"code1", "code2", "code3"})

=============================================================================
