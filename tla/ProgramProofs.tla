----------------------------- MODULE ProgramProofs -----------------------------
(***************************************************************************)
(* The program for every command line, every text, every buffer size and   *)
(* any way its source may break: the options count in any order, the loop  *)
(* codes no empty chunk, and what was encoded in chunks comes back when it *)
(* is decoded in chunks of another size.                                   *)
(***************************************************************************)
EXTENDS ProgramProperties, CodecProofs

-----------------------------------------------------------------------------
(* The command line.                                                       *)

LEMMA OptionType ==
  ASSUME NEW o \in Options
  PROVE  /\ o[1] = "k" => o[2] \in Nat
         /\ o[1] \in {"k", "e", "d", "f", "h", "?"}
BY DEF Options

\* What the options before optind have done: the last key, the first of -e and -d.
KeyInv ==
  \/ gckul = 0 /\ \A i \in 1..optind - 1 : argv[i][1] # "k"
  \/ \E i \in 1..optind - 1 :
       /\ argv[i][1] = "k" /\ gckul = argv[i][2] % 65536
       /\ \A j \in 1..optind - 1 : argv[j][1] = "k" => j <= i

ModeInv ==
  \/ mode = "none" /\ cmdarg = "nullptr"
     /\ \A i \in 1..optind - 1 : argv[i][1] \notin {"e", "d"}
  \/ \E i \in 1..optind - 1 :
       /\ argv[i][1] \in {"e", "d"} /\ cmdarg = argv[i][2]
       /\ mode = IF argv[i][1] = "e" THEN "encode" ELSE "decode"
       /\ \A j \in 1..optind - 1 : argv[j][1] \in {"e", "d"} => i <= j

StreamWanted ==
  /\ if_f_got \in BOOLEAN
  /\ if_f_got <=> \E i \in 1..optind - 1 : argv[i][1] = "f"

LineInv ==
  /\ argv \in Seq(Options) /\ optind \in 1..Len(argv) + 1
  /\ KeyInv /\ ModeInv /\ StreamWanted

Busy == {"read", "code1", "code2", "code3", "write"}

\* How far the process is, and what it has prepared by then.
StageInv ==
  /\ mpc \in {"options", "open", "exit"} \cup Busy
  /\ mpc \in {"options", "open"} \cup Busy => status = 0
  /\ mpc = "options" => ~init_record
  /\ mpc \in {"options", "open"} \cup Busy =>
       \A i \in 1..optind - 1 : argv[i][1] \notin {"h", "?"}
  /\ mpc \in {"open"} \cup Busy \/ init_record =>
       /\ init_record /\ optind = Len(argv) + 1 /\ mode # "none"
       /\ xor_key = gckul % 256
  /\ mpc \in Busy => df = src_from(cmdarg, if_f_got)

\* All options have been read.
LineRead == LineInv /\ optind = Len(argv) + 1

LEMMA KeyIsTheLast ==
  ASSUME LineRead
  PROVE  KeyOf(argv) \in Nat /\ gckul = KeyOf(argv) % 65536
<1> DEFINE keys == Places(argv, {"k"})
<1>1. DOMAIN argv = 1..optind - 1 /\ optind - 1 \in Nat
      /\ \A i \in 1..optind - 1 : argv[i] \in Options
  BY DEF LineRead, LineInv, KeyInv, ModeInv, StreamWanted
<1>2. keys = {i \in 1..optind - 1 : argv[i][1] = "k"}
  BY <1>1 DEF Places
<1>3. CASE \A i \in 1..optind - 1 : argv[i][1] # "k"
  <2>1. keys = {}
    BY <1>2, <1>3
  <2>2. KeyOf(argv) = 0
    BY <2>1 DEF KeyOf
  <2>3. gckul = 0
    BY <1>3 DEF LineRead, LineInv, KeyInv, ModeInv, StreamWanted
  <2> QED BY <2>2, <2>3
<1>4. ASSUME NEW i \in 1..optind - 1,
             argv[i][1] = "k", gckul = argv[i][2] % 65536,
             \A j \in 1..optind - 1 : argv[j][1] = "k" => j <= i
      PROVE  KeyOf(argv) \in Nat /\ gckul = KeyOf(argv) % 65536
  <2>1. i \in keys /\ \A j \in keys : i >= j
    BY <1>2, <1>4
  <2>2. \A x \in keys : (\A j \in keys : x >= j) => x = i
    BY <1>2, <2>1
  <2>3. Max(keys) = i
    BY <2>1, <2>2 DEF Max
  <2>4. KeyOf(argv) = argv[i][2]
    BY <2>1, <2>3 DEF KeyOf
  <2>5. argv[i][2] \in Nat
    BY <1>1, <1>4, OptionType
  <2> QED BY <1>4, <2>4, <2>5
<1> QED
  BY <1>3, <1>4 DEF LineRead, LineInv, KeyInv, ModeInv, StreamWanted

LEMMA ModeIsTheFirst ==
  ASSUME LineRead, mode # "none"
  PROVE  mode = ModeOf(argv) /\ src_from(cmdarg, if_f_got) = KindOf(argv)
         /\ mode \in {"encode", "decode"}
<1> DEFINE modes == Places(argv, {"e", "d"})
<1>1. DOMAIN argv = 1..optind - 1 /\ optind - 1 \in Nat
  BY DEF LineRead, LineInv, KeyInv, ModeInv, StreamWanted
<1>2. modes = {i \in 1..optind - 1 : argv[i][1] \in {"e", "d"}}
  BY <1>1 DEF Places
<1>3. PICK i \in 1..optind - 1 :
          /\ argv[i][1] \in {"e", "d"} /\ cmdarg = argv[i][2]
          /\ mode = IF argv[i][1] = "e" THEN "encode" ELSE "decode"
          /\ \A j \in 1..optind - 1 : argv[j][1] \in {"e", "d"} => i <= j
  BY DEF LineRead, LineInv, KeyInv, ModeInv, StreamWanted
<1>4. i \in modes /\ \A j \in modes : i <= j
  BY <1>2, <1>3
<1>5. \A x \in modes : (\A j \in modes : x <= j) => x = i
  BY <1>2, <1>4
<1>6. Min(modes) = i
  BY <1>4, <1>5 DEF Min
<1>7. if_f_got = (Places(argv, {"f"}) # {})
  BY <1>1 DEF Places, LineRead, LineInv, StreamWanted
<1>8. mode = ModeOf(argv)
  BY <1>3, <1>4, <1>6 DEF ModeOf
<1>9. KindOf(argv) = src_from(cmdarg, if_f_got)
  BY <1>3, <1>4, <1>6, <1>7 DEF KindOf
<1> QED
  BY <1>3, <1>8, <1>9

\* One more option was read.
LEMMA LineStep ==
  ASSUME LineInv, ParseOption \/ InitWrappers
  PROVE  LineInv'
<1>1. /\ argv \in Seq(Options) /\ optind \in Nat \ {0} /\ Len(argv) \in Nat
      /\ optind \in 1..Len(argv) + 1 /\ if_f_got \in BOOLEAN
  BY DEF LineInv, StreamWanted
<1>2. ASSUME optind <= Len(argv), optind' = optind + 1, argv' = argv
      PROVE  /\ optind' \in 1..Len(argv') + 1 /\ 1..optind' - 1 = (1..optind - 1) \cup {optind}
             /\ optind \in 1..optind' - 1 /\ \A i \in 1..optind - 1 : i <= optind
  BY <1>1, <1>2
<1>3. CASE OptionK
  <2>1. /\ optind <= Len(argv) /\ optind' = optind + 1 /\ argv' = argv
        /\ argv[optind][1] = "k" /\ gckul' = argv[optind][2] % 65536
        /\ UNCHANGED <<mode, cmdarg, if_f_got>>
    BY <1>3 DEF OptionK, Option, ops_wrapper_otm_key
  <2> QED BY <1>1, <1>2, <2>1 DEF LineInv, KeyInv, ModeInv, StreamWanted
<1>4. CASE OptionEorD
  <2>1. /\ optind <= Len(argv) /\ optind' = optind + 1 /\ argv' = argv
        /\ argv[optind][1] \in {"e", "d"}
        /\ UNCHANGED <<gckul, if_f_got>>
    BY <1>4 DEF OptionEorD, Option, wrapperVars, keyVars
  <2>2. CASE mode = "none"
    <3>1. /\ mode' = IF argv[optind][1] = "e" THEN "encode" ELSE "decode"
          /\ cmdarg' = argv[optind][2]
      BY <1>4, <2>2 DEF OptionEorD
    <3>2. \A i \in 1..optind - 1 : argv[i][1] \notin {"e", "d"}
      BY <2>2 DEF LineInv, KeyInv, ModeInv, StreamWanted
    <3>3. \A j \in 1..optind' - 1 : argv'[j][1] \in {"e", "d"} => optind <= j
      BY <1>2, <2>1, <3>2
    <3> QED BY <1>1, <1>2, <2>1, <3>1, <3>3 DEF LineInv, KeyInv, ModeInv, StreamWanted
  <2>3. CASE mode # "none"
    <3>1. UNCHANGED <<mode, cmdarg>>
      BY <1>4, <2>3 DEF OptionEorD
    <3> QED BY <1>1, <1>2, <2>1, <2>3, <3>1 DEF LineInv, KeyInv, ModeInv, StreamWanted
  <2> QED BY <2>2, <2>3
<1>5. CASE OptionF
  <2>1. /\ optind <= Len(argv) /\ optind' = optind + 1 /\ argv' = argv
        /\ argv[optind][1] = "f" /\ if_f_got' = TRUE
        /\ UNCHANGED <<gckul, mode, cmdarg>>
    BY <1>5 DEF OptionF, Option, wrapperVars, keyVars
  <2> QED BY <1>1, <1>2, <2>1 DEF LineInv, KeyInv, ModeInv, StreamWanted
<1>6. CASE OptionEnds
  <2>1. /\ optind <= Len(argv) /\ optind' = optind + 1 /\ argv' = argv
        /\ argv[optind][1] \in {"h", "?"}
        /\ UNCHANGED <<gckul, mode, cmdarg, if_f_got>>
    BY <1>6 DEF OptionEnds, Option, wrapperVars, keyVars
  <2> QED BY <1>1, <1>2, <2>1 DEF LineInv, KeyInv, ModeInv, StreamWanted
<1>7. CASE OptionsMissing \/ InitWrappers
  <2>1. UNCHANGED <<argv, optind, gckul, mode, cmdarg, if_f_got>>
    BY <1>7 DEF OptionsMissing, InitWrappers, ops_wrapper_init, otm_init, xor_init,
                wrapperVars, keyVars,
                optionVars
  <2> QED BY <2>1 DEF LineInv, KeyInv, ModeInv, StreamWanted
<1> QED
  BY <1>3, <1>4, <1>5, <1>6, <1>7 DEF ParseOption

\* While it codes, the process leaves its options and keys alone.
LEMMA CodingKeepsLine ==
  ASSUME OpenTarget \/ ReadChunk \/ CodeChunk \/ WriteChunk
  PROVE  UNCHANGED <<optionVars, keyVars, target, historyVars>>
<1>1. CASE OpenTarget \/ ReadChunk \/ WriteChunk
  BY <1>1 DEF OpenTarget, ReadChunk, WriteChunk, wrapperVars
<1>2. CASE CodeChunk
  BY <1>2 DEF CodeChunk, Code, Call, ops_wrapper_xor, ops_wrapper_base64_encode,
              ops_wrapper_base64_decode, ops_wrapper_gcwt, ow_gcs_all_wt, Wrap
<1> QED
  BY <1>1, <1>2

LEMMA LineNext ==
  LineInv /\ [ProgramNext]_programVars => LineInv'
<1> SUFFICES ASSUME LineInv, [ProgramNext]_programVars
             PROVE  LineInv'
  OBVIOUS
<1>1. CASE ParseOption \/ InitWrappers
  BY <1>1, LineStep
<1>2. CASE OpenTarget \/ ReadChunk \/ CodeChunk \/ WriteChunk
  <2>1. UNCHANGED <<argv, optind, gckul, mode, cmdarg, if_f_got>>
    BY <1>2, CodingKeepsLine DEF optionVars, keyVars
  <2> QED BY <2>1 DEF LineInv, KeyInv, ModeInv, StreamWanted
<1>3. CASE DecodeOutput
  <2>1. /\ argv' \in Seq(Options) /\ optind' = 1 /\ gckul' = 0
        /\ mode' = "none" /\ cmdarg' = "nullptr" /\ if_f_got' = FALSE
    BY <1>3, ProgramAssumption DEF DecodeOutput
  <2>2. optind' \in 1..Len(argv') + 1 /\ 1..optind' - 1 = {}
    BY <2>1
  <2>3. KeyInv'
    BY <2>1, <2>2 DEF KeyInv
  <2>4. ModeInv'
    BY <2>1, <2>2 DEF ModeInv
  <2>5. StreamWanted'
    BY <2>1, <2>2 DEF StreamWanted
  <2> QED BY <2>1, <2>2, <2>3, <2>4, <2>5 DEF LineInv
<1>4. CASE UNCHANGED programVars
  <2>1. UNCHANGED <<argv, optind, gckul, mode, cmdarg, if_f_got>>
    BY <1>4 DEF programVars, optionVars, wrapperVars, keyVars
  <2> QED BY <2>1 DEF LineInv, KeyInv, ModeInv, StreamWanted
<1> QED
  BY <1>1, <1>2, <1>3, <1>4 DEF ProgramNext, ProcessStep, MainStep

LEMMA LineInit ==
  ProgramInit => LineInv
<1> SUFFICES ASSUME ProgramInit
             PROVE  LineInv
  OBVIOUS
<1>1. PICK job \in Jobs : ProcessInit(job[1], job[2])
  BY DEF ProgramInit
<1>2. job[1] \in Seq(Options) /\ job[2] \in Seq(Byte)
  BY ProgramAssumption
<1>3. /\ argv \in Seq(Options) /\ optind = 1 /\ gckul = 0
      /\ mode = "none" /\ cmdarg = "nullptr" /\ if_f_got = FALSE
  BY <1>1, <1>2 DEF ProcessInit, WrapperInit
<1>4. optind \in 1..Len(argv) + 1 /\ 1..optind - 1 = {}
  BY <1>3
<1>5. KeyInv
  BY <1>3, <1>4 DEF KeyInv
<1>6. ModeInv
  BY <1>3, <1>4 DEF ModeInv
<1>7. StreamWanted
  BY <1>3, <1>4 DEF StreamWanted
<1> QED
  BY <1>3, <1>4, <1>5, <1>6, <1>7 DEF LineInv

-----------------------------------------------------------------------------
(* The stages of a process.                                                *)

LEMMA StageInit == ProgramInit => StageInv
BY DEF ProgramInit, ProcessInit, WrapperInit, StageInv, Busy

LEMMA StageNext ==
  LineInv /\ StageInv /\ [ProgramNext]_programVars => StageInv'
<1> SUFFICES ASSUME LineInv, StageInv, [ProgramNext]_programVars
             PROVE  StageInv'
  OBVIOUS
<1> USE DEF Busy
<1>1. optind \in Nat \ {0} /\ Len(argv) \in Nat /\ optind <= Len(argv) + 1
  BY DEF LineInv
<1>2. CASE OptionK \/ OptionEorD \/ OptionF
  <2>1. /\ mpc = "options" /\ mpc' = mpc /\ argv' = argv /\ optind' = optind + 1
        /\ argv[optind][1] \notin {"h", "?"}
        /\ UNCHANGED <<status, init_record>>
    BY <1>2 DEF OptionK, OptionEorD, OptionF, Option, ops_wrapper_otm_key, processVars,
                wrapperVars, keyVars
  <2>2. \A i \in 1..optind' - 1 : i \in 1..optind - 1 \/ i = optind
    BY <1>1, <2>1
  <2>3. \A i \in 1..optind' - 1 : argv'[i][1] \notin {"h", "?"}
    BY <2>1, <2>2 DEF StageInv
  <2> QED BY <2>1, <2>3 DEF StageInv
<1>3. CASE OptionEnds \/ OptionsMissing
  <2>1. mpc = "options" /\ mpc' = "exit" /\ UNCHANGED init_record
    BY <1>3 DEF OptionEnds, OptionsMissing, Option, Exit, wrapperVars, keyVars
  <2> QED BY <2>1 DEF StageInv
<1>4. CASE InitWrappers
  <2>1. /\ mpc = "options" /\ mpc' = "open" /\ optind > Len(argv) /\ mode # "none"
        /\ init_record' = TRUE /\ xor_key' = gckul % 256
        /\ UNCHANGED <<argv, optind, mode, gckul, status>>
    BY <1>4 DEF InitWrappers, ops_wrapper_init, otm_init, xor_init, StageInv, optionVars
  <2> QED BY <1>1, <2>1 DEF StageInv
<1>5. CASE OpenTarget
  <2>1. UNCHANGED <<argv, optind, mode, cmdarg, if_f_got, gckul, xor_key, init_record>>
    BY <1>5, CodingKeepsLine DEF optionVars, keyVars
  <2>2. /\ mpc = "open" /\ df' = src_from(cmdarg, if_f_got)
        /\ \/ mpc' = "read" /\ status' = status
           \/ mpc' = "exit"
    BY <1>5 DEF OpenTarget, initCsdsin, InitAgain, InitFile, InitFileFails, InitStdin,
                InitCmd, Exit
  <2> QED BY <2>1, <2>2 DEF StageInv
<1>6. CASE ReadChunk \/ CodeChunk \/ WriteChunk
  <2>1. UNCHANGED <<argv, optind, mode, cmdarg, if_f_got, gckul, xor_key, init_record>>
    BY <1>6, CodingKeepsLine DEF optionVars, keyVars
  <2>2. /\ mpc \in Busy
        /\ \/ mpc' \in Busy /\ status' = status
           \/ mpc' = "exit"
    BY <1>6 DEF ReadChunk, CodeChunk, Code, WriteChunk, Exit
  <2>3. df' = df
    BY <1>6 DEF ReadChunk, readCsdsin, ReadCmd, ReadStream, ReadNoMore, ReadBreaks,
                ReadUninit, CodeChunk, Code, WriteChunk, csdsinVars
  <2> QED BY <2>1, <2>2, <2>3 DEF StageInv
<1>7. CASE DecodeOutput
  <2>1. mpc' = "options" /\ status' = 0 /\ init_record' = FALSE /\ optind' = 1
    BY <1>7 DEF DecodeOutput
  <2> QED BY <2>1 DEF StageInv
<1>8. CASE UNCHANGED programVars
  BY <1>8 DEF StageInv, programVars, optionVars, processVars, wrapperVars, keyVars,
              csdsinVars
<1> QED
  BY <1>2, <1>3, <1>4, <1>5, <1>6, <1>7, <1>8
     DEF ProgramNext, ProcessStep, MainStep, ParseOption

\* Whatever the order of the options (the loop over getopt, codestream_main.cc:50-99).
THEOREM OptionsCountInAnyOrder == ProgramSpec => []OptionsInAnyOrder
<1>1. LineInv /\ StageInv => OptionsInAnyOrder
  <2> SUFFICES ASSUME LineInv, StageInv, mpc \notin {"options", "open", "exit"}
               PROVE  /\ xor_key = KeyOf(argv) % 256
                      /\ mode = ModeOf(argv) /\ df = KindOf(argv)
                      /\ Places(argv, {"h", "?"}) = {}
    BY DEF OptionsInAnyOrder
  <2>1. LineRead /\ mode # "none" /\ xor_key = gckul % 256
        /\ df = src_from(cmdarg, if_f_got)
    BY DEF StageInv, LineRead
  <2>2. KeyOf(argv) \in Nat /\ gckul = KeyOf(argv) % 65536
    BY <2>1, KeyIsTheLast
  <2>3. xor_key = KeyOf(argv) % 256
    BY <2>1, <2>2
  <2>4. \A i \in DOMAIN argv : argv[i][1] \notin {"h", "?"}
    BY <2>1 DEF StageInv, LineRead, LineInv
  <2> QED BY <2>1, <2>3, <2>4, ModeIsTheFirst DEF Places
<1> QED
  BY <1>1, LineInit, LineNext, StageInit, StageNext, PTL DEF ProgramSpec

-----------------------------------------------------------------------------
(* The source: what is left of the text, and how much was read.            *)

Rest == IF df = "DFCMD" THEN csdsinb ELSE stream[csdsin].rest

Done == Len(target) - Len(Rest)

SourceInv ==
  /\ target \in Seq(Byte) /\ csdsinb \in Seq(Byte)
  /\ stream \in [{"ifstream", "cin"} ->
                   [rest : Seq(Byte), bits : SUBSET {"eof", "fail", "bad"}]]
  /\ mpc \in {"options", "open"} => init = FALSE /\ stream = Streams(target)
  /\ mpc \in Busy =>
       /\ init = TRUE /\ df \in Kinds
       /\ df = "DFFILE" => csdsin = "ifstream"
       /\ df = "DFSTDIN" => csdsin = "cin"
       /\ Len(Rest) <= Len(target) /\ Rest = SubSeq(target, Done + 1, Len(target))
       /\ df # "DFCMD" => \/ stream[csdsin].bits = {}
                          \/ stream[csdsin].bits = {"eof", "fail"} /\ Rest = <<>>

LEMMA StreamsType ==
  ASSUME NEW typed \in Seq(Byte)
  PROVE  Streams(typed) \in [{"ifstream", "cin"} ->
           [rest : Seq(Byte), bits : SUBSET {"eof", "fail", "bad"}]]
         /\ Streams(typed)["cin"].rest = typed
BY DEF Streams

\* The count bytes at the front of s, the rest of t from d on, that a read of n takes.
Cuts(t, d, s, n, count) ==
  /\ count = Less(n, Len(s)) /\ count \in 0..n
  /\ Len(s) = Len(t) - d
  /\ count <= Len(s) /\ (count < n => count = Len(s))
  /\ SubSeq(s, 1, count) = SubSeq(t, d + 1, d + count)
  /\ Len(SubSeq(s, 1, count)) = count
  /\ SubSeq(s, count + 1, Len(s)) = SubSeq(t, d + count + 1, Len(t))
  /\ SubSeq(s, count + 1, Len(s)) \in Seq(Byte)
  /\ Len(SubSeq(s, count + 1, Len(s))) = Len(t) - (d + count)

\* A piece from the front of what is left.
LEMMA CutOff ==
  ASSUME NEW t \in Seq(Byte), NEW s, NEW n \in Nat,
         NEW d \in 0..Len(t), s = SubSeq(t, d + 1, Len(t))
  PROVE  \E count : Cuts(t, d, s, n, count)
<1> DEFINE count == Less(n, Len(s))
<1>1. s \in Seq(Byte) /\ Len(s) = Len(t) - d
  BY Piece
<1>2. count \in 0..n /\ count <= Len(s) /\ (count < n => count = Len(s))
  BY <1>1 DEF Less
<1>3. count = Less(n, Len(s))
  OBVIOUS
<1> HIDE DEF count
<1>4. count \in Nat /\ Len(s) \in Nat /\ d \in Nat /\ Len(t) \in Nat
  BY <1>1, <1>2
<1>5. /\ SubSeq(s, 0 + 1, count) = SubSeq(t, d + 0 + 1, d + count)
      /\ SubSeq(s, count + 1, Len(s)) = SubSeq(t, d + count + 1, d + Len(s))
  BY <1>1, <1>2, <1>4, PieceOfPiece
<1>6. /\ SubSeq(s, 0 + 1, count) \in Seq(Byte) /\ Len(SubSeq(s, 0 + 1, count)) = count
      /\ SubSeq(s, count + 1, Len(s)) \in Seq(Byte)
      /\ Len(SubSeq(s, count + 1, Len(s))) = Len(s) - count
  BY <1>1, <1>2, <1>4, Piece
<1>7. 0 + 1 = 1 /\ d + 0 + 1 = d + 1 /\ d + Len(s) = Len(t)
      /\ Len(s) - count = Len(t) - (d + count)
  BY <1>1, <1>4
<1>8. Cuts(t, d, s, n, count)
  BY <1>1, <1>2, <1>3, <1>5, <1>6, <1>7 DEF Cuts
<1> QED
  BY <1>8

LEMMA OnceRead ==
  /\ once_read \in Nat \ {0} /\ once_read <= BuffSize
  /\ mode = "encode" => once_read % 3 = 0 /\ 8 * once_read = 3 * BuffSize
  /\ mode # "encode" => once_read % 4 = 0
<1>1. PICK u \in Nat \ {0} : BuffSize = 8 * u
  BY BuffSizeAssumption
<1>2. (BuffSize * 3) \div 8 = 3 * u /\ (3 * u) % 3 = 0 /\ (8 * u) % 4 = 0
  BY <1>1
<1> QED
  BY <1>1, <1>2 DEF once_read, ENCODE_INPUT, DECODE_INPUT

\* Everything is left when the source is opened.
LEMMA SourceOpens ==
  ASSUME SourceInv, OpenTarget
  PROVE  SourceInv' /\ (mpc' \in Busy => Done' = 0)
<1>1. /\ mpc = "open" /\ init = FALSE /\ stream = Streams(target) /\ target \in Seq(Byte)
      /\ UNCHANGED target
  BY CodingKeepsLine DEF OpenTarget, SourceInv
<1>2. target = SubSeq(target, 0 + 1, Len(target)) /\ Len(target) \in Nat
  BY <1>1, SubSeqFull
<1>3. stream["cin"].rest = target
  BY <1>1, StreamsType
<1>4. init' = TRUE => mpc' = "read"
  BY DEF OpenTarget, Exit
<1>5. ASSUME init' = TRUE
      PROVE  /\ Rest' = target /\ df' \in Kinds
             /\ df' = "DFFILE" => csdsin' = "ifstream"
             /\ df' = "DFSTDIN" => csdsin' = "cin"
             /\ df' # "DFCMD" => stream'[csdsin'].bits = {}
             /\ csdsinb' \in Seq(Byte)
             /\ stream' \in [{"ifstream", "cin"} ->
                   [rest : Seq(Byte), bits : SUBSET {"eof", "fail", "bad"}]]
  <2>1. CASE InitFile(target)
    BY <1>1, <2>1 DEF InitFile, Rest, Kinds, SourceInv
  <2>2. CASE InitStdin
    BY <1>1, <1>3, <2>2 DEF InitStdin, Rest, Kinds, SourceInv, Streams
  <2>3. CASE InitCmd(target)
    BY <1>1, <2>3 DEF InitCmd, Rest, Kinds, SourceInv
  <2> QED
    BY <1>1, <1>5, <2>1, <2>2, <2>3
       DEF OpenTarget, initCsdsin, InitAgain, InitFileFails
<1>6. ASSUME init' # TRUE
      PROVE  /\ csdsinb' \in Seq(Byte) /\ mpc' = "exit"
             /\ stream' \in [{"ifstream", "cin"} ->
                   [rest : Seq(Byte), bits : SUBSET {"eof", "fail", "bad"}]]
  <2>1. InitFileFails
    BY <1>1, <1>6
       DEF OpenTarget, initCsdsin, InitAgain, InitFile, InitStdin, InitCmd
  <2>2. csdsinb' = csdsinb
        /\ stream' = [stream EXCEPT !.ifstream = [rest |-> <<>>, bits |-> {"fail"}]]
    BY <2>1 DEF InitFileFails
  <2>3. [rest |-> <<>>, bits |-> {"fail"}]
          \in [rest : Seq(Byte), bits : SUBSET {"eof", "fail", "bad"}]
    OBVIOUS
  <2>4. mpc' = "exit"
    BY <1>6 DEF OpenTarget, Exit
  <2> QED BY <2>2, <2>3, <2>4 DEF SourceInv
<1>7. ASSUME init' = TRUE
      PROVE  Done' = 0
  BY <1>1, <1>2, <1>5, <1>7 DEF Done
<1>8. ASSUME init' = TRUE
      PROVE  SourceInv'
  <2>1. Len(Rest') <= Len(target') /\ Rest' = SubSeq(target', Done' + 1, Len(target'))
    BY <1>1, <1>2, <1>5, <1>7, <1>8
  <2>2. mpc' = "read"
    BY <1>4, <1>8 DEF OpenTarget, Exit
  <2> QED BY <1>1, <1>5, <1>8, <2>1, <2>2 DEF SourceInv, Busy
<1>9. ASSUME init' # TRUE
      PROVE  SourceInv'
  BY <1>1, <1>6, <1>9 DEF SourceInv, Busy
<1> QED
  BY <1>6, <1>7, <1>8, <1>9 DEF Busy

\* What a read from a source that is neither at its end nor broken takes.
LEMMA TakesPiece ==
  ASSUME SourceInv, mpc = "read", UNCHANGED target,
         ReadCmd(once_read) \/ ReadStream(once_read)
  PROVE  /\ Done \in Nat /\ Done' \in Done..Len(target) /\ Done' - Done <= once_read
         /\ Done' - Done < once_read => Done' = Len(target)
         /\ got' = SubSeq(target, Done + 1, Done') /\ Len(got') = Done' - Done
         /\ Rest' = SubSeq(target, Done' + 1, Len(target))
         /\ Len(Rest') = Len(target) - Done' /\ Rest' \in Seq(Byte)
         /\ csdsinb' \in Seq(Byte)
         /\ stream' \in [{"ifstream", "cin"} ->
               [rest : Seq(Byte), bits : SUBSET {"eof", "fail", "bad"}]]
         /\ df # "DFCMD" => stream'[csdsin].bits
              = IF Done' - Done < once_read THEN {"eof", "fail"} ELSE {}
<1>1. /\ target \in Seq(Byte) /\ csdsinb \in Seq(Byte)
      /\ stream \in [{"ifstream", "cin"} ->
                       [rest : Seq(Byte), bits : SUBSET {"eof", "fail", "bad"}]]
      /\ df \in Kinds /\ (df # "DFCMD" => csdsin \in {"ifstream", "cin"})
      /\ Len(Rest) <= Len(target) /\ Rest = SubSeq(target, Done + 1, Len(target))
  BY DEF SourceInv, Busy, Kinds
<1>2. Rest \in Seq(Byte)
  BY <1>1 DEF Rest
<1>3. Done \in 0..Len(target) /\ once_read \in Nat
  BY <1>1, <1>2, OnceRead DEF Done
<1>4. PICK count : Cuts(target, Done, Rest, once_read, count)
  BY <1>1, <1>3, CutOff
<1> DEFINE left == SubSeq(Rest, count + 1, Len(Rest))
<1>5. got' = SubSeq(Rest, 1, count) /\ Rest' = left /\ csdsinb' \in Seq(Byte)
      /\ stream' \in [{"ifstream", "cin"} ->
                       [rest : Seq(Byte), bits : SUBSET {"eof", "fail", "bad"}]]
      /\ (df # "DFCMD" => stream'[csdsin].bits
                = IF count < once_read THEN {"eof", "fail"} ELSE {})
  <2>1. CASE ReadCmd(once_read)
    BY <1>1, <1>4, <2>1 DEF ReadCmd, Rest, Cuts
  <2>2. CASE ReadStream(once_read)
    <3>1. df # "DFCMD" /\ Rest = stream[csdsin].rest /\ csdsin \in {"ifstream", "cin"}
          /\ UNCHANGED <<df, csdsin, csdsinb>>
      BY <1>1, <2>2 DEF ReadStream, Rest
    <3>2. /\ got' = SubSeq(Rest, 1, count)
          /\ stream' = [stream EXCEPT ![csdsin] =
                [rest |-> left,
                 bits |-> IF count < once_read THEN {"eof", "fail"} ELSE {}]]
      BY <1>4, <2>2, <3>1 DEF ReadStream, Cuts
    <3> HIDE DEF left
    <3>3. [rest |-> left, bits |-> IF count < once_read THEN {"eof", "fail"} ELSE {}]
            \in [rest : Seq(Byte), bits : SUBSET {"eof", "fail", "bad"}]
      BY <1>4 DEF left, Cuts
    <3>4. stream'[csdsin] = [rest |-> left,
                 bits |-> IF count < once_read THEN {"eof", "fail"} ELSE {}]
      BY <1>1, <3>1, <3>2
    <3>5. Rest' = left
      BY <3>1, <3>4 DEF Rest
    <3> QED BY <1>1, <3>1, <3>2, <3>3, <3>4, <3>5
  <2> QED BY <2>1, <2>2
<1> HIDE DEF left
<1>6. Done' = Done + count
  <2>1. Done' = Len(target) - Len(left)
    BY <1>5 DEF Done
  <2>2. Len(left) = Len(target) - (Done + count)
        /\ Len(target) \in Nat /\ Done \in Nat /\ count \in Nat
    BY <1>1, <1>3, <1>4 DEF left, Cuts
  <2> QED BY <2>1, <2>2
<1>7. /\ Done \in Nat /\ Len(target) \in Nat /\ once_read \in Nat
      /\ count \in 0..once_read /\ count <= Len(target) - Done
      /\ count < once_read => count = Len(target) - Done
  <2>1. target \in Seq(Byte) /\ Done \in 0..Len(target) /\ once_read \in Nat
    BY <1>1, <1>3
  <2>2. /\ count \in 0..once_read /\ Len(Rest) = Len(target) - Done
        /\ count <= Len(Rest) /\ (count < once_read => count = Len(Rest))
    BY <1>4 DEF Cuts
  <2> QED BY <2>1, <2>2
<1>8. /\ Done' \in Done..Len(target) /\ Done' - Done = count /\ count <= once_read
      /\ count < once_read => Done' = Len(target)
  BY <1>6, <1>7
<1>9. /\ got' = SubSeq(target, Done + 1, Done') /\ Len(got') = count
      /\ Rest' = SubSeq(target, Done' + 1, Len(target)) /\ Rest' \in Seq(Byte)
      /\ Len(Rest') = Len(target) - Done'
  BY <1>4, <1>5, <1>6 DEF left, Cuts
<1> HIDE DEF Rest, Done
<1> QED
  BY <1>5, <1>7, <1>8, <1>9

LEMMA Advance ==
  ASSUME NEW d \in Nat, NEW l \in Nat, NEW e \in d..l, NEW n \in Nat,
         e - d <= n, e - d < n => e = l
  PROVE  /\ e - d = n \/ e = l
         /\ e # d => e \in d + 1..l /\ e - d # 0
OBVIOUS

\* The three ways out of a read: there is nothing left, the source is broken, or a
\* piece was taken that is not empty.
LEMMA ReadStep ==
  ASSUME SourceInv, ReadChunk
  PROVE  /\ SourceInv'
         /\ \/ mpc' = "exit" /\ status' = 0 /\ Done = Len(target)
            \/ mpc' = "exit" /\ status' # 0
            \/ /\ mpc' = "code1" /\ status' = status
               /\ Done \in Nat /\ Done' \in Done + 1..Len(target)
               /\ Done' - Done <= once_read
               /\ Done' - Done = once_read \/ Done' = Len(target)
               /\ buff1' = SubSeq(target, Done + 1, Done') /\ buff1' # <<>>
<1>1. mpc = "read" /\ readCsdsin(once_read) /\ UNCHANGED target /\ init = TRUE
      /\ once_read \in Nat \ {0} /\ Len(target) \in Nat
  BY CodingKeepsLine, OnceRead DEF ReadChunk, SourceInv, Busy
<1>2. /\ df \in Kinds /\ (df = "DFFILE" => csdsin = "ifstream")
      /\ (df = "DFSTDIN" => csdsin = "cin") /\ target \in Seq(Byte)
      /\ Rest = SubSeq(target, Done + 1, Len(target))
      /\ csdsinb \in Seq(Byte)
      /\ stream \in [{"ifstream", "cin"} ->
                       [rest : Seq(Byte), bits : SUBSET {"eof", "fail", "bad"}]]
      /\ (df # "DFCMD" => \/ stream[csdsin].bits = {}
                          \/ stream[csdsin].bits = {"eof", "fail"} /\ Rest = <<>>)
  BY <1>1 DEF SourceInv, Busy
<1>3. UNCHANGED <<df, init, csdsin>>
  BY <1>1 DEF readCsdsin, ReadCmd, ReadStream, ReadNoMore, ReadBreaks, ReadUninit
<1>4. Castable /\ Castable'
  BY <1>2, <1>3 DEF Castable, Kinds
<1>5. CASE ReadCmd(once_read) \/ ReadStream(once_read)
  <2>1. /\ Done \in Nat /\ Done' \in Done..Len(target) /\ Done' - Done <= once_read
        /\ Done' - Done < once_read => Done' = Len(target)
        /\ got' = SubSeq(target, Done + 1, Done') /\ Len(got') = Done' - Done
        /\ Rest' = SubSeq(target, Done' + 1, Len(target))
        /\ Len(Rest') = Len(target) - Done' /\ Rest' \in Seq(Byte)
        /\ csdsinb' \in Seq(Byte)
        /\ stream' \in [{"ifstream", "cin"} ->
              [rest : Seq(Byte), bits : SUBSET {"eof", "fail", "bad"}]]
        /\ df # "DFCMD" => stream'[csdsin].bits
             = IF Done' - Done < once_read THEN {"eof", "fail"} ELSE {}
    BY <1>1, <1>5, TakesPiece
  <2> HIDE DEF Rest, Done
  <2>0. /\ Len(target) \in Nat /\ once_read \in Nat \ {0}
        /\ Done \in Nat /\ Done' \in Done..Len(target) /\ Done' - Done <= once_read
        /\ Done' - Done < once_read => Done' = Len(target)
    BY <1>1, <2>1
  <2>2. Done' - Done < once_read => Rest' = <<>>
    BY <1>1, <2>1
  <2>3. df # "DFCMD" => \/ stream'[csdsin'].bits = {}
                        \/ stream'[csdsin'].bits = {"eof", "fail"} /\ Rest' = <<>>
    BY <1>3, <2>1, <2>2
  <2>4. Len(Rest') <= Len(target')
    BY <1>1, <2>1
  <2>5. SourceInv'
    <3>1. mpc' \notin {"options", "open"}
      BY DEF ReadChunk, Exit
    <3> QED BY <1>1, <1>2, <1>3, <2>1, <2>3, <2>4, <3>1 DEF SourceInv, Busy
  <2>6. CASE Done' = Done
    <3>1. Rest' = <<>> /\ got' = <<>> /\ Done = Len(target) /\ Done' - Done < once_read
      BY <1>1, <2>1, <2>2, <2>6
    <3>2. genericISFunc("eof")'
      <4>1. CASE df = "DFCMD"
        BY <1>3, <3>1, <4>1 DEF genericISFunc, Rest
      <4>2. CASE df # "DFCMD"
        BY <1>3, <1>4, <2>1, <3>1, <4>2 DEF genericISFunc
      <4> QED BY <4>1, <4>2
    <3>3. mpc' = "exit" /\ status' = 0
      BY <3>1, <3>2 DEF ReadChunk, Exit
    <3> QED BY <2>5, <3>1, <3>3
  <2>7. CASE Done' # Done
    <3>1. Done' \in Done + 1..Len(target) /\ Done' - Done # 0
      BY <2>0, <2>7, Advance
    <3>2. got' # <<>>
      BY <2>1, <3>1
    <3>3. mpc' = "code1" /\ buff1' = got' /\ status' = status
      BY <3>2 DEF ReadChunk
    <3>4. Done' - Done = once_read \/ Done' = Len(target)
      BY <2>0, Advance
    <3> QED BY <2>1, <2>5, <3>1, <3>2, <3>3, <3>4
  <2> QED BY <2>6, <2>7
<1>6. CASE ReadNoMore
  <2>1. df # "DFCMD" /\ csdsin \in {"ifstream", "cin"} /\ Rest = <<>>
        /\ stream[csdsin].bits = {"eof", "fail"}
    BY <1>2, <1>6 DEF ReadNoMore, Kinds
  <2>2. got' = <<>> /\ stream' = stream /\ csdsinb' = csdsinb
    <3>1. stream' = [stream EXCEPT ![csdsin].bits = @ \cup {"fail"}]
      BY <1>6 DEF ReadNoMore
    <3>2. stream[csdsin].bits \cup {"fail"} = stream[csdsin].bits
      BY <2>1
    <3> QED BY <1>2, <1>6, <2>1, <3>1, <3>2 DEF ReadNoMore
  <2>3. genericISFunc("eof")'
    BY <1>3, <1>4, <2>1, <2>2 DEF genericISFunc
  <2>4. mpc' = "exit" /\ status' = 0
    BY <2>2, <2>3 DEF ReadChunk, Exit
  <2>5. Done = Len(target)
    BY <1>1, <2>1 DEF Done
  <2> QED BY <1>1, <1>2, <2>2, <2>4, <2>5 DEF SourceInv, Busy
<1>7. CASE ReadBreaks
  <2>1. got' = <<>> /\ df = "DFFILE" /\ csdsinb' = csdsinb
        /\ stream' = [stream EXCEPT !.ifstream.bits = {"bad"}]
    BY <1>7 DEF ReadBreaks
  <2>2. stream'["ifstream"].bits = {"bad"} /\ csdsin' = "ifstream"
        /\ stream' \in [{"ifstream", "cin"} ->
                 [rest : Seq(Byte), bits : SUBSET {"eof", "fail", "bad"}]]
    BY <1>2, <1>3, <2>1
  <2>3. ~genericISFunc("eof")' /\ genericISFunc("bad")'
    BY <1>3, <1>4, <2>1, <2>2 DEF genericISFunc
  <2>4. mpc' = "exit" /\ status' = -3
    BY <2>1, <2>3 DEF ReadChunk, Exit, Number
  <2>5. SourceInv'
    BY <1>1, <1>2, <2>1, <2>2, <2>4 DEF SourceInv, Busy
  <2> QED BY <2>4, <2>5
<1> QED
  BY <1>1, <1>5, <1>6, <1>7 DEF readCsdsin, ReadUninit

-----------------------------------------------------------------------------
(* A chunk: a piece of the text, cut at multiples of three bytes, and what  *)
(* the chain makes of it.                                                   *)

LEMMA XorOfPiece ==
  ASSUME NEW t \in Seq(Byte), NEW k \in Byte, NEW a \in Nat, NEW b \in Nat,
         a <= b, b <= Len(t)
  PROVE  xorCode(SubSeq(t, a + 1, b), k) = SubSeq(xorCode(t, k), a + 1, b)
<1> DEFINE x == xorCode(t, k)
           p == SubSeq(t, a + 1, b)
           u == SubSeq(x, a + 1, b)
           v == xorCode(p, k)
<1>1. p \in Seq(Byte) /\ Len(p) = b - a /\ \A i \in 1..b - a : p[i] = t[a + i]
  BY Piece
<1>2. x \in Seq(Byte) /\ Len(x) = Len(t)
  BY XorRoundTrip
<1>3. u \in Seq(Byte) /\ Len(u) = b - a /\ \A i \in 1..b - a : u[i] = x[a + i]
  <2> HIDE DEF x
  <2> QED BY <1>2, Piece
<1>4. v \in Seq(Byte) /\ Len(v) = b - a
  <2> HIDE DEF p
  <2> QED BY <1>1, XorRoundTrip
<1>5. ASSUME NEW i \in 1..b - a
      PROVE  v[i] = u[i]
  <2>1. i \in DOMAIN p /\ a + i \in DOMAIN t
    BY <1>1
  <2>2. v[i] = XorByte(p[i], k)
    BY <2>1 DEF xorCode
  <2>3. x[a + i] = XorByte(t[a + i], k)
    BY <2>1 DEF xorCode
  <2> QED BY <1>1, <1>3, <2>2, <2>3
<1> HIDE DEF x, p, u, v
<1>6. v = u
  BY <1>3, <1>4, <1>5, SeqEqual
<1> QED
  BY <1>6 DEF x, p, u, v

LEMMA CodeLengthGrows ==
  ASSUME NEW a \in Nat, NEW b \in Nat, a <= b
  PROVE  /\ CodeLength(a) \in Nat /\ CodeLength(b) \in Nat
         /\ CodeLength(a) <= CodeLength(b) /\ CodeLength(0) = 0
         /\ a % 3 = 0 => /\ b - a <= CodeLength(b) - CodeLength(a)
                         /\ ((b - a) * 4) \div 3 <= CodeLength(b) - CodeLength(a)
                         /\ CodeLength(a) = 4 * (a \div 3) /\ a = 3 * (a \div 3)
BY DEF CodeLength

\* Both chains code a piece, without an error: p is the text, pc its code.
Codes(p, px, pc, k, size) ==
  /\ xorCode(p, k) = px /\ ~xorFails(p, size)
  /\ base64Encode(px) = pc /\ ~base64EncodeFails(px, size)
  /\ base64Decode(pc) = px /\ ~base64DecodeFails(pc, size)
  /\ xorCode(px, k) = p /\ ~xorFails(px, size)

\* They do where the code of the piece fits in a buffer.
LEMMA PieceCoded ==
  ASSUME NEW t \in Seq(Byte), NEW k \in Byte, NEW a \in Nat, NEW b \in Nat,
         a % 3 = 0, a < b, b <= Len(t), b % 3 = 0 \/ b = Len(t),
         NEW size \in Nat, CodeLength(b) - CodeLength(a) <= size
  PROVE  Codes(SubSeq(t, a + 1, b), SubSeq(xorCode(t, k), a + 1, b),
               SubSeq(base64Encode(xorCode(t, k)), CodeLength(a) + 1, CodeLength(b)),
               k, size)
<1> DEFINE x  == xorCode(t, k)
           c  == base64Encode(x)
           p  == SubSeq(t, a + 1, b)
           px == SubSeq(x, a + 1, b)
           pc == SubSeq(c, CodeLength(a) + 1, CodeLength(b))
<1>1. /\ x \in Seq(Byte) /\ Len(x) = Len(t) /\ xorCode(x, k) = t
  BY XorRoundTrip
<1>2. p \in Seq(Byte) /\ Len(p) = b - a
  BY Piece
<1>3. xorCode(p, k) = px
  BY XorOfPiece
<1>4. px \in Seq(Byte) /\ Len(px) = b - a
  <2> HIDE DEF x
  <2> QED BY <1>1, Piece
<1>5. px # <<>>
  <2> HIDE DEF px
  <2> QED BY <1>4
<1>6. xorCode(px, k) = p
  <2>1. xorCode(SubSeq(x, a + 1, b), k) = SubSeq(xorCode(x, k), a + 1, b)
    <3>1. a <= b /\ b <= Len(x)
      BY <1>1
    <3> HIDE DEF x
    <3> QED BY <1>1, <3>1, XorOfPiece
  <2> QED BY <1>1, <2>1
<1> DEFINE q == a \div 3
<1>7. /\ b - a <= CodeLength(b) - CodeLength(a)
      /\ ((b - a) * 4) \div 3 <= CodeLength(b) - CodeLength(a)
      /\ CodeLength(a) = 4 * q /\ a = 3 * q /\ q \in Nat
      /\ CodeLength(a) \in Nat /\ CodeLength(b) \in Nat
      /\ CodeLength(a) <= CodeLength(b)
  <2>1. a <= b /\ a \div 3 \in Nat
    OBVIOUS
  <2> QED BY <2>1, CodeLengthGrows
<1> HIDE DEF q
<1>8. base64Encode(px) = pc
  <2>1. base64Encode(SubSeq(x, 3 * q + 1, b)) = SubSeq(c, 4 * q + 1, CodeLength(b))
    <3> HIDE DEF x
    <3> QED BY <1>1, <1>7, EncodingOfPiece
  <2> QED BY <1>7, <2>1
<1>9. base64Decode(pc) = px
      /\ \A n \in Nat : base64DecodeFails(pc, n) <=> n < 3 * (Len(pc) \div 4)
  <2> HIDE DEF px, pc
  <2> QED BY <1>4, <1>5, <1>8, Base64RoundTrip
<1>10. Len(pc) = CodeLength(b) - CodeLength(a)
  <2>1. c \in Seq(Byte) /\ Len(c) = CodeLength(Len(t))
    <3> HIDE DEF x
    <3> QED BY <1>1, EncodingType
  <2>2. CodeLength(b) <= CodeLength(Len(t))
    BY CodeLengthGrows
  <2> HIDE DEF c
  <2> QED BY <1>7, <2>1, <2>2, Piece
<1> HIDE DEF x, c, p, px, pc
<1>11. ~xorFails(p, size) /\ ~xorFails(px, size) /\ ~base64EncodeFails(px, size)
  BY <1>2, <1>4, <1>7 DEF xorFails, base64EncodeFails
<1>12. ~base64DecodeFails(pc, size)
  BY <1>7, <1>9, <1>10
<1>13. Codes(p, px, pc, k, size)
  BY <1>3, <1>6, <1>8, <1>9, <1>11, <1>12 DEF Codes
<1> QED
  BY <1>13 DEF x, c, p, px, pc

\* Where the next chunk ends: the encoder reads n bytes, the decoder n characters, or
\* whatever is left.
LEMMA NextCut ==
  ASSUME NEW L \in Nat, NEW b \in 0..L, b % 3 = 0 \/ b = L,
         NEW B \in Nat, NEW n \in Nat, NEW e \in Nat
  PROVE  /\ /\ n % 3 = 0 /\ 8 * n = 3 * B
            /\ e \in b + 1..L /\ e - b <= n /\ (e - b = n \/ e = L)
            => /\ b % 3 = 0 /\ (e % 3 = 0 \/ e = L)
               /\ CodeLength(e) - CodeLength(b) <= B
         /\ /\ n % 4 = 0 /\ n <= B
            /\ e \in CodeLength(b) + 1..CodeLength(L)
            /\ e - CodeLength(b) <= n /\ (e - CodeLength(b) = n \/ e = CodeLength(L))
            => \E g \in b + 1..L :
                 /\ b % 3 = 0 /\ (g % 3 = 0 \/ g = L) /\ e = CodeLength(g)
                 /\ CodeLength(g) - CodeLength(b) <= B
<1>1. ASSUME n % 3 = 0, 8 * n = 3 * B,
             e \in b + 1..L, e - b <= n, e - b = n \/ e = L
      PROVE  /\ b % 3 = 0 /\ (e % 3 = 0 \/ e = L)
             /\ CodeLength(e) - CodeLength(b) <= B
  BY <1>1 DEF CodeLength
<1>2. ASSUME n % 4 = 0, n <= B, e \in CodeLength(b) + 1..CodeLength(L),
             e - CodeLength(b) <= n, e - CodeLength(b) = n \/ e = CodeLength(L)
      PROVE  \E g \in b + 1..L :
                 /\ b % 3 = 0 /\ (g % 3 = 0 \/ g = L) /\ e = CodeLength(g)
                 /\ CodeLength(g) - CodeLength(b) <= B
  <2>1. b # L /\ b % 3 = 0
    BY <1>2 DEF CodeLength
  <2>2. CASE e = CodeLength(L)
    <3>1. L \in b + 1..L
      BY <2>1
    <3>2. CodeLength(L) - CodeLength(b) <= B
      BY <1>2, <2>2 DEF CodeLength
    <3> QED BY <2>1, <2>2, <3>1, <3>2
  <2>3. CASE e # CodeLength(L)
    <3> DEFINE q == b \div 3
               v == n \div 4
               g == 3 * (q + v)
    <3>1. b = 3 * q /\ n = 4 * v /\ q \in Nat /\ v \in Nat
      BY <1>2, <2>1
    <3> HIDE DEF q, v
    <3>2. CodeLength(b) = 4 * q /\ CodeLength(g) = 4 * (q + v) /\ g \in Nat /\ g % 3 = 0
      BY <3>1 DEF CodeLength
    <3>3. e = CodeLength(g)
      BY <1>2, <2>3, <3>1, <3>2
    <3>4. g > b
      BY <1>2, <2>3, <3>1, <3>2, <3>3
    <3>5. g < L
      BY <1>2, <2>3, <3>2, <3>3 DEF CodeLength
    <3> HIDE DEF g
    <3>6. g \in b + 1..L
      BY <3>2, <3>4, <3>5
    <3>7. CodeLength(g) - CodeLength(b) <= B
      <4>1. e - CodeLength(b) \in Int
        BY <3>1, <3>2
      <4> QED BY <1>2, <3>3, <4>1
    <3> QED BY <2>1, <3>2, <3>3, <3>6, <3>7
  <2> QED BY <2>2, <2>3
<1> QED
  BY <1>1, <1>2

-----------------------------------------------------------------------------
(* What the buffers hold, for a process whose text and key are known: one   *)
(* that encodes, or one that decodes with a matching key what was encoded.  *)

Key == KeyOf(argv) % 256

Known ==
  \/ mode = "encode"
  \/ mode = "decode" /\ key # NoKey /\ Key = key % 256

\* The bytes that are encoded, or were.
Raw   == IF mode = "encode" THEN target ELSE original
Xored == xorCode(Raw, Key)
Coded == base64Encode(Xored)

RawPiece(a, b)   == SubSeq(Raw, a + 1, b)
XoredPiece(a, b) == SubSeq(Xored, a + 1, b)
CodedPiece(a, b) == SubSeq(Coded, CodeLength(a) + 1, CodeLength(b))

\* What is read and what is written for the bytes from a to b.
ReadPiece(a, b)    == IF mode = "encode" THEN RawPiece(a, b) ELSE CodedPiece(a, b)
WrittenPiece(a, b) == IF mode = "encode" THEN CodedPiece(a, b) ELSE RawPiece(a, b)

\* How much is read before byte b.
ReadBefore(b) == IF mode = "encode" THEN b ELSE CodeLength(b)

Cut(b) == b \in 0..Len(Raw) /\ (b % 3 = 0 \/ b = Len(Raw))

\* The chunk in the buffers is that of the bytes from a to b.
InWork(a, b) ==
  /\ a % 3 = 0 /\ a < b /\ CodeLength(b) - CodeLength(a) <= BuffSize
  /\ mpc = "code1" => buff1 = ReadPiece(a, b)
  /\ mpc = "code2" => buff2 = XoredPiece(a, b)
  /\ mpc = "code3" => buff1 = XoredPiece(a, b)
  /\ mpc = "write" => buff2 = WrittenPiece(a, b)

ChunkAt(a, b) ==
  /\ Cut(a) /\ Cut(b) /\ Done = ReadBefore(b) /\ out = WrittenPiece(0, a)
  /\ mpc = "read" => a = b
  /\ mpc # "read" => InWork(a, b)

ChunkInv ==
  /\ mpc \in {"options", "open"} => out = <<>>
  /\ Known =>
       /\ mpc \in Busy => \E a, b \in Nat : ChunkAt(a, b)
       /\ mpc = "exit" => out = <<>> \/ \E a \in 0..Len(Raw) : out = WrittenPiece(0, a)
       /\ Succeeded => out = WrittenPiece(0, Len(Raw))

HistoryInv ==
  key # NoKey =>
    /\ key \in Nat /\ original \in Seq(Byte)
    /\ target = base64Encode(xorCode(original, key % 256))

\* The texts of a process that is known.
LEMMA TextsKnown ==
  ASSUME target \in Seq(Byte), HistoryInv, Known, Key \in Byte
  PROVE  /\ Raw \in Seq(Byte) /\ Xored \in Seq(Byte) /\ Coded \in Seq(Byte)
         /\ Len(Xored) = Len(Raw) /\ Len(Coded) = CodeLength(Len(Raw))
         /\ target = IF mode = "encode" THEN Raw ELSE Coded
         /\ Len(target) = ReadBefore(Len(Raw))
<1>1. Raw \in Seq(Byte)
  BY DEF Raw, Known, HistoryInv
<1>2. Xored \in Seq(Byte) /\ Len(Xored) = Len(Raw)
  <2> HIDE DEF Raw
  <2> QED BY <1>1, XorRoundTrip DEF Xored
<1>3. Coded \in Seq(Byte) /\ Len(Coded) = CodeLength(Len(Raw))
  BY <1>2, EncodingType DEF Coded
<1>4. mode = "encode" => target = Raw
  BY DEF Raw
<1>5. mode # "encode" => target = Coded
  BY DEF Raw, Xored, Coded, Known, HistoryInv
<1>6. Len(target) = ReadBefore(Len(Raw))
  BY <1>3, <1>4, <1>5 DEF ReadBefore
<1> QED
  BY <1>1, <1>2, <1>3, <1>4, <1>5, <1>6

\* What the chain makes of a chunk.
LEMMA ChunkCoded ==
  ASSUME target \in Seq(Byte), HistoryInv, Known, Key \in Byte,
         NEW a \in Nat, NEW b \in Nat, Cut(a), Cut(b), a % 3 = 0, a < b,
         CodeLength(b) - CodeLength(a) <= BuffSize
  PROVE  Codes(RawPiece(a, b), XoredPiece(a, b), CodedPiece(a, b), Key, BuffSize)
<1>1. Raw \in Seq(Byte)
  BY TextsKnown
<1>2. b <= Len(Raw) /\ (b % 3 = 0 \/ b = Len(Raw)) /\ BuffSize \in Nat
  BY BuffSizeAssumption DEF Cut
<1> QED
  BY <1>1, <1>2, PieceCoded DEF RawPiece, XoredPiece, CodedPiece, Xored, Coded

\* What was written for the bytes up to a, and for those up to b.
LEMMA WrittenGrows ==
  ASSUME target \in Seq(Byte), HistoryInv, Known, Key \in Byte,
         NEW a \in Nat, NEW b \in Nat, a <= b, b <= Len(Raw)
  PROVE  /\ WrittenPiece(0, a) \o WrittenPiece(a, b) = WrittenPiece(0, b)
         /\ WrittenPiece(0, 0) = <<>>
         /\ WrittenPiece(0, Len(Raw)) = IF mode = "encode" THEN Coded ELSE Raw
<1>1. /\ Raw \in Seq(Byte) /\ Coded \in Seq(Byte) /\ Len(Coded) = CodeLength(Len(Raw))
  BY TextsKnown
<1>2. /\ CodeLength(a) \in Nat /\ CodeLength(b) \in Nat /\ CodeLength(0) = 0
      /\ CodeLength(a) <= CodeLength(b) /\ CodeLength(b) <= CodeLength(Len(Raw))
  <2>1. Len(Raw) \in Nat
    BY <1>1
  <2> QED BY <2>1, CodeLengthGrows
<1>3. SubSeq(Raw, 1, a) \o SubSeq(Raw, a + 1, b) = SubSeq(Raw, 1, b)
  <2>1. 1 \in 1..Len(Raw) + 1 /\ a \in 1 - 1..Len(Raw) /\ b \in a..Len(Raw)
    BY <1>1
  <2> QED BY <1>1, <2>1, ConcatAdjacentSubSeq
<1>4. SubSeq(Coded, 1, CodeLength(a)) \o SubSeq(Coded, CodeLength(a) + 1, CodeLength(b))
        = SubSeq(Coded, 1, CodeLength(b))
  <2>1. /\ 1 \in 1..Len(Coded) + 1 /\ CodeLength(a) \in 1 - 1..Len(Coded)
        /\ CodeLength(b) \in CodeLength(a)..Len(Coded)
    BY <1>1, <1>2
  <2> QED BY <1>1, <2>1, ConcatAdjacentSubSeq
<1>5. SubSeq(Raw, 1, 0) = <<>> /\ SubSeq(Coded, 1, 0) = <<>>
  BY SubSeqEmpty
<1>6. SubSeq(Raw, 1, Len(Raw)) = Raw /\ SubSeq(Coded, 1, Len(Coded)) = Coded
  BY <1>1, SubSeqFull
<1>7. 0 + 1 = 1
  OBVIOUS
<1> QED
  BY <1>1, <1>2, <1>3, <1>4, <1>5, <1>6, <1>7 DEF WrittenPiece, RawPiece, CodedPiece

\* The texts stay the same while the process codes.
LEMMA TextsKept ==
  ASSUME UNCHANGED <<optionVars, target, historyVars>>
  PROVE  /\ UNCHANGED <<mode, Key, Raw, Xored, Coded>> /\ (Known' <=> Known)
         /\ \A a, b : /\ ReadPiece(a, b)' = ReadPiece(a, b)
                      /\ XoredPiece(a, b)' = XoredPiece(a, b)
                      /\ WrittenPiece(a, b)' = WrittenPiece(a, b)
         /\ \A a : (Cut(a)' <=> Cut(a)) /\ ReadBefore(a)' = ReadBefore(a)
<1>1. UNCHANGED <<argv, mode, target, original, key>>
  BY DEF optionVars, historyVars
<1>2. UNCHANGED <<mode, Key, Raw>>
  BY <1>1 DEF Key, Raw
<1>3. UNCHANGED Xored
  BY <1>2 DEF Xored
<1>4. UNCHANGED Coded
  BY <1>3 DEF Coded
<1>5. Known' <=> Known
  BY <1>1, <1>2 DEF Known
<1> QED
  BY <1>2, <1>3, <1>4, <1>5
     DEF ReadPiece, XoredPiece, WrittenPiece, RawPiece, CodedPiece, Cut, ReadBefore

LEMMA KeyKnown ==
  ASSUME LineInv, StageInv, mpc \in Busy \/ init_record
  PROVE  xor_key = Key /\ Key \in Byte /\ mode \in {"encode", "decode"}
<1>1. LineRead /\ mode # "none" /\ xor_key = gckul % 256
  BY DEF StageInv, LineRead
<1>2. KeyOf(argv) \in Nat /\ gckul = KeyOf(argv) % 65536
  BY <1>1, KeyIsTheLast
<1>3. xor_key = Key /\ Key \in Byte
  BY <1>1, <1>2 DEF Key, Byte
<1> QED
  BY <1>1, <1>3, ModeIsTheFirst

\* One wrapper leaves what it makes of the first buffer in the second.
LEMMA Wrapped ==
  ASSUME NEW object, NEW fails, NEW made, Wrap(object, fails, made), ~fails
  PROVE  buff2' = made
BY DEF Wrap

LEMMA CodeKeeps ==
  ASSUME LineInv, StageInv, SourceInv, HistoryInv, Known, CodeChunk,
         NEW a \in Nat, NEW b \in Nat, ChunkAt(a, b)
  PROVE  ChunkAt(a, b)' /\ mpc' \in Busy
<1>1. /\ xor_key = Key /\ Key \in Byte /\ mode \in {"encode", "decode"}
      /\ target \in Seq(Byte)
  <2>1. mpc \in Busy
    BY DEF CodeChunk, Code, Busy
  <2> QED BY <2>1, KeyKnown DEF SourceInv
<1>2. /\ Cut(a) /\ Cut(b) /\ Done = ReadBefore(b) /\ out = WrittenPiece(0, a)
      /\ InWork(a, b) /\ a % 3 = 0 /\ a < b
      /\ CodeLength(b) - CodeLength(a) <= BuffSize
  BY DEF ChunkAt, InWork, CodeChunk, Code
<1>3. Codes(RawPiece(a, b), XoredPiece(a, b), CodedPiece(a, b), Key, BuffSize)
  BY <1>1, <1>2, ChunkCoded
<1>4. /\ UNCHANGED <<optionVars, target, historyVars, csdsinVars, out>>
      /\ mpc' \in {"code2", "code3", "write"}
  BY DEF CodeChunk, Code
<1>5. /\ UNCHANGED mode
      /\ \A c, d : /\ ReadPiece(c, d)' = ReadPiece(c, d)
                   /\ XoredPiece(c, d)' = XoredPiece(c, d)
                   /\ WrittenPiece(c, d)' = WrittenPiece(c, d)
      /\ \A c : (Cut(c)' <=> Cut(c)) /\ ReadBefore(c)' = ReadBefore(c)
  BY <1>4, TextsKept
<1>6. Done' = Done
  BY <1>4 DEF Done, Rest, csdsinVars
<1>7. InWork(a, b)'
  <2>1. CASE mpc = "code1"
    <3>1. mpc' = "code2" /\ Call(toinstall[1]) /\ buff1 = ReadPiece(a, b)
      BY <1>2, <2>1 DEF CodeChunk, Code, InWork
    <3>2. CASE mode = "encode"
      <4>1. ops_wrapper_xor /\ buff1 = RawPiece(a, b)
        BY <3>1, <3>2 DEF toinstall, Call, ReadPiece
      <4>2. buff2' = XoredPiece(a, b)
        BY <1>1, <1>3, <4>1, Wrapped DEF ops_wrapper_xor, Codes
      <4> QED BY <1>2, <1>5, <3>1, <4>2 DEF InWork
    <3>3. CASE mode = "decode"
      <4>1. ops_wrapper_base64_decode /\ buff1 = CodedPiece(a, b)
        BY <3>1, <3>3 DEF toinstall, Call, ReadPiece
      <4>2. buff2' = XoredPiece(a, b)
        BY <1>3, <4>1, Wrapped DEF ops_wrapper_base64_decode, Codes
      <4> QED BY <1>2, <1>5, <3>1, <4>2 DEF InWork
    <3> QED BY <1>1, <3>2, <3>3
  <2>2. CASE mpc = "code2"
    <3>1. mpc' = "code3" /\ Call(toinstall[2]) /\ buff2 = XoredPiece(a, b)
      BY <1>2, <2>2 DEF CodeChunk, Code, InWork
    <3>2. ops_wrapper_gcwt
      BY <3>1 DEF toinstall, Call
    <3>3. buff1' = XoredPiece(a, b)
      BY <3>1, <3>2 DEF ops_wrapper_gcwt, ow_gcs_all_wt
    <3> QED BY <1>2, <1>5, <3>1, <3>3 DEF InWork
  <2>3. CASE mpc = "code3"
    <3>1. mpc' = "write" /\ Call(toinstall[3]) /\ buff1 = XoredPiece(a, b)
      BY <1>2, <2>3 DEF CodeChunk, Code, InWork
    <3>2. CASE mode = "encode"
      <4>1. ops_wrapper_base64_encode
        BY <3>1, <3>2 DEF toinstall, Call
      <4>2. buff2' = WrittenPiece(a, b)
        BY <1>3, <3>1, <3>2, <4>1, Wrapped
           DEF ops_wrapper_base64_encode, Codes, WrittenPiece
      <4> QED BY <1>2, <1>5, <3>1, <4>2 DEF InWork
    <3>3. CASE mode = "decode"
      <4>1. ops_wrapper_xor
        BY <3>1, <3>3 DEF toinstall, Call
      <4>2. buff2' = WrittenPiece(a, b)
        BY <1>1, <1>3, <3>1, <3>3, <4>1, Wrapped
           DEF ops_wrapper_xor, Codes, WrittenPiece
      <4> QED BY <1>2, <1>5, <3>1, <4>2 DEF InWork
    <3> QED BY <1>1, <3>2, <3>3
  <2> QED BY <2>1, <2>2, <2>3 DEF CodeChunk, Code
<1> QED
  BY <1>2, <1>4, <1>5, <1>6, <1>7 DEF ChunkAt, Busy

LEMMA WriteKeeps ==
  ASSUME LineInv, StageInv, SourceInv, HistoryInv, Known, WriteChunk,
         NEW a \in Nat, NEW b \in Nat, ChunkAt(a, b)
  PROVE  ChunkAt(b, b)' /\ mpc' \in Busy
<1>1. Key \in Byte /\ target \in Seq(Byte)
  <2>1. mpc \in Busy
    BY DEF WriteChunk, Busy
  <2> QED BY <2>1, KeyKnown DEF SourceInv
<1>2. /\ Cut(b) /\ Done = ReadBefore(b) /\ out = WrittenPiece(0, a)
      /\ buff2 = WrittenPiece(a, b) /\ a < b
  BY DEF ChunkAt, InWork, WriteChunk
<1>3. /\ UNCHANGED <<optionVars, target, historyVars, csdsinVars>>
      /\ mpc' = "read" /\ out' = out \o buff2
  BY DEF WriteChunk
<1>4. /\ \A c, d : WrittenPiece(c, d)' = WrittenPiece(c, d)
      /\ \A c : (Cut(c)' <=> Cut(c)) /\ ReadBefore(c)' = ReadBefore(c)
  BY <1>3, TextsKept
<1>5. Done' = Done
  BY <1>3 DEF Done, Rest, csdsinVars
<1>6. out' = WrittenPiece(0, b)
  <2>1. a <= b /\ b <= Len(Raw)
    BY <1>2 DEF Cut
  <2> QED BY <1>1, <1>2, <1>3, <2>1, WrittenGrows
<1> QED
  BY <1>2, <1>3, <1>4, <1>5, <1>6 DEF ChunkAt, Busy

LEMMA CodeLengthOfCut ==
  ASSUME NEW L \in Nat, NEW b \in 0..L, b % 3 = 0 \/ b = L,
         CodeLength(b) = CodeLength(L)
  PROVE  b = L
BY DEF CodeLength

\* The next chunk begins where the last one ended.
LEMMA ReadKeeps ==
  ASSUME LineInv, StageInv, SourceInv, HistoryInv, Known, ReadChunk,
         NEW a \in Nat, NEW b \in Nat, ChunkAt(a, b)
  PROVE  /\ out' = out /\ out = WrittenPiece(0, b) /\ b \in 0..Len(Raw)
         /\ \/ mpc' = "exit" /\ (status' = 0 => b = Len(Raw))
            \/ mpc' = "code1" /\ \E g \in Nat : ChunkAt(b, g)'
<1>1. mpc = "read" /\ UNCHANGED <<optionVars, target, historyVars, out>>
  BY CodingKeepsLine DEF ReadChunk
<1>2. Key \in Byte /\ mode \in {"encode", "decode"} /\ target \in Seq(Byte)
  BY <1>1, KeyKnown DEF SourceInv, Busy
<1>3. /\ Cut(b) /\ Done = ReadBefore(b) /\ out = WrittenPiece(0, b)
  BY <1>1 DEF ChunkAt
<1>4. /\ Len(target) = ReadBefore(Len(Raw)) /\ Raw \in Seq(Byte)
      /\ target = IF mode = "encode" THEN Raw ELSE Coded
  BY <1>2, TextsKnown
<1> DEFINE L == Len(Raw)
<1>5. L \in Nat /\ b \in 0..L /\ (b % 3 = 0 \/ b = L)
  BY <1>3, <1>4 DEF Cut
<1> HIDE DEF L
<1>6. /\ \A c, d : /\ ReadPiece(c, d)' = ReadPiece(c, d)
                   /\ WrittenPiece(c, d)' = WrittenPiece(c, d)
      /\ \A c : (Cut(c)' <=> Cut(c)) /\ ReadBefore(c)' = ReadBefore(c)
  BY <1>1, TextsKept
<1>7. CASE mpc' = "exit" /\ status' = 0 /\ Done = Len(target)
  <2>1. ReadBefore(b) = ReadBefore(L)
    BY <1>3, <1>4, <1>7 DEF L
  <2>2. b = L
    BY <1>5, <2>1, CodeLengthOfCut DEF ReadBefore
  <2> QED BY <1>1, <1>3, <1>5, <1>7, <2>2 DEF L
<1>8. CASE mpc' = "exit" /\ status' # 0
  BY <1>1, <1>3, <1>5, <1>8 DEF L
<1>9. CASE /\ mpc' = "code1"
           /\ Done \in Nat /\ Done' \in Done + 1..Len(target)
           /\ Done' - Done <= once_read
           /\ Done' - Done = once_read \/ Done' = Len(target)
           /\ buff1' = SubSeq(target, Done + 1, Done')
  <2> DEFINE e == Done'
             n == once_read
  <2>1. /\ e \in ReadBefore(b) + 1..ReadBefore(L)
        /\ e - ReadBefore(b) <= n
        /\ e - ReadBefore(b) = n \/ e = ReadBefore(L)
        /\ buff1' = SubSeq(target, ReadBefore(b) + 1, e)
    BY <1>3, <1>4, <1>9 DEF L
  <2>2. n \in Nat /\ BuffSize \in Nat
    BY OnceRead, BuffSizeAssumption
  <2>3. ReadBefore(b) \in Nat /\ ReadBefore(L) \in Nat
    BY <1>5, CodeLengths DEF ReadBefore
  <2>4. e \in Nat
    BY <2>1, <2>3
  <2>5. \E g \in b + 1..L :
          /\ b % 3 = 0 /\ (g % 3 = 0 \/ g = L) /\ e = ReadBefore(g)
          /\ CodeLength(g) - CodeLength(b) <= BuffSize
    <3>1. CASE mode = "encode"
      <4>1. n % 3 = 0 /\ 8 * n = 3 * BuffSize
        BY <3>1, OnceRead
      <4>2. /\ e \in b + 1..L /\ e - b <= n /\ (e - b = n \/ e = L)
        BY <2>1, <3>1 DEF ReadBefore
      <4> HIDE DEF e, n
      <4>3. /\ b % 3 = 0 /\ (e % 3 = 0 \/ e = L)
            /\ CodeLength(e) - CodeLength(b) <= BuffSize
        BY <1>5, <2>2, <2>4, <4>1, <4>2, NextCut
      <4> QED BY <3>1, <4>2, <4>3 DEF ReadBefore
    <3>2. CASE mode = "decode"
      <4>1. n % 4 = 0 /\ n <= BuffSize
        BY <3>2, OnceRead
      <4>2. /\ e \in CodeLength(b) + 1..CodeLength(L)
            /\ e - CodeLength(b) <= n /\ (e - CodeLength(b) = n \/ e = CodeLength(L))
        BY <2>1, <3>2 DEF ReadBefore
      <4> HIDE DEF e, n
      <4>3. \E g \in b + 1..L :
              /\ b % 3 = 0 /\ (g % 3 = 0 \/ g = L) /\ e = CodeLength(g)
              /\ CodeLength(g) - CodeLength(b) <= BuffSize
        BY <1>5, <2>2, <2>4, <4>1, <4>2, NextCut
      <4> QED BY <3>2, <4>3 DEF ReadBefore
    <3> QED BY <1>2, <3>1, <3>2
  <2>6. PICK g \in b + 1..L :
          /\ b % 3 = 0 /\ (g % 3 = 0 \/ g = L) /\ e = ReadBefore(g)
          /\ CodeLength(g) - CodeLength(b) <= BuffSize
    BY <2>5
  <2>7. g \in Nat /\ Cut(g) /\ b < g
    BY <1>5, <2>6 DEF Cut, L
  <2>8. buff1' = ReadPiece(b, g)
    BY <1>2, <1>4, <2>1, <2>6 DEF ReadBefore, ReadPiece, RawPiece, CodedPiece
  <2>9. InWork(b, g)'
    BY <1>6, <1>9, <2>6, <2>7, <2>8 DEF InWork
  <2>10. ChunkAt(b, g)'
    BY <1>1, <1>3, <1>6, <1>9, <2>6, <2>7, <2>9 DEF ChunkAt
  <2> QED BY <1>1, <1>3, <1>5, <1>9, <2>7, <2>10 DEF L
<1> QED
  BY <1>7, <1>8, <1>9, ReadStep

-----------------------------------------------------------------------------
(* The induction.                                                          *)

ProgramInv == LineInv /\ StageInv /\ SourceInv /\ HistoryInv /\ ChunkInv /\ NoEmptyChunk

LEMMA ProgramInvInit ==
  ProgramInit => ProgramInv
<1> SUFFICES ASSUME ProgramInit
             PROVE  ProgramInv
  OBVIOUS
<1>1. PICK job \in Jobs : ProcessInit(job[1], job[2])
  BY DEF ProgramInit
<1>2. job[2] \in Seq(Byte)
  BY ProgramAssumption
<1>3. SourceInv
  BY <1>1, <1>2, StreamsType DEF ProcessInit, CsdsinInit, SourceInv, Busy
<1>4. HistoryInv
  BY DEF ProgramInit, HistoryInv
<1>5. ChunkInv /\ NoEmptyChunk
  BY <1>1 DEF ProcessInit, ChunkInv, NoEmptyChunk, Busy, Succeeded
<1> QED
  BY <1>3, <1>4, <1>5, LineInit, StageInit DEF ProgramInv

\* What the process after a successful encoding is given is the code of its text.
LEMMA OutputIsCode ==
  ASSUME ProgramInv, DecodeOutput
  PROVE  /\ out = base64Encode(xorCode(target, KeyOf(argv) % 256))
         /\ out \in Seq(Byte) /\ target \in Seq(Byte) /\ KeyOf(argv) \in Nat
<1>1. mode = "encode" /\ Succeeded /\ init_record /\ Known /\ Raw = target
  BY DEF DecodeOutput, Succeeded, Known, Raw
<1>2. Key \in Byte /\ target \in Seq(Byte) /\ HistoryInv
  BY <1>1, KeyKnown DEF ProgramInv, SourceInv
<1>3. out = WrittenPiece(0, Len(Raw))
  BY <1>1 DEF ProgramInv, ChunkInv
<1>4. Raw \in Seq(Byte) /\ Coded \in Seq(Byte)
  BY <1>1, <1>2, TextsKnown
<1>5. WrittenPiece(0, Len(Raw)) = Coded
  <2>1. 0 \in Nat /\ 0 <= 0 /\ 0 <= Len(Raw)
    BY <1>4
  <2> QED BY <1>1, <1>2, <2>1, WrittenGrows
<1>6. LineRead
  BY <1>1 DEF ProgramInv, StageInv, LineRead
<1>7. KeyOf(argv) \in Nat
  BY <1>6, KeyIsTheLast
<1> QED
  BY <1>1, <1>2, <1>3, <1>4, <1>5, <1>7 DEF Coded, Xored, Key

LEMMA SourceNext ==
  ProgramInv /\ [ProgramNext]_programVars => SourceInv'
<1> SUFFICES ASSUME ProgramInv, [ProgramNext]_programVars
             PROVE  SourceInv'
  OBVIOUS
<1>1. SourceInv
  BY DEF ProgramInv
<1>2. ASSUME UNCHANGED <<csdsinVars, target>>,
             mpc' \in {"options", "open"} => mpc \in {"options", "open"},
             mpc' \in Busy => mpc \in Busy
      PROVE  SourceInv'
  <2>1. UNCHANGED <<csdsinb, stream, init, df, csdsin, Rest, Done>>
    BY <1>2 DEF csdsinVars, Rest, Done
  <2> QED BY <1>1, <1>2, <2>1 DEF SourceInv
<1>3. CASE ParseOption \/ InitWrappers
  <2>1. /\ UNCHANGED <<csdsinVars, target>> /\ mpc = "options"
        /\ mpc' \in {"options", "open", "exit"}
    BY <1>3 DEF ParseOption, OptionK, OptionEorD, OptionF, OptionEnds, OptionsMissing,
                Option, Exit, InitWrappers, processVars
  <2> QED BY <1>2, <2>1 DEF Busy
<1>4. CASE OpenTarget
  BY <1>1, <1>4, SourceOpens
<1>5. CASE ReadChunk
  BY <1>1, <1>5, ReadStep
<1>6. CASE CodeChunk \/ WriteChunk
  <2>1. UNCHANGED <<csdsinVars, target>> /\ mpc \in Busy /\ mpc' \in Busy
    BY <1>6 DEF CodeChunk, Code, WriteChunk, Busy
  <2> QED BY <1>2, <2>1 DEF Busy
<1>7. CASE DecodeOutput
  <2>1. out \in Seq(Byte)
    BY <1>7, OutputIsCode
  <2>2. /\ target' = out /\ csdsinb' = <<>> /\ stream' = Streams(out) /\ init' = FALSE
        /\ mpc' = "options"
    BY <1>7 DEF DecodeOutput
  <2>3. Streams(out) \in [{"ifstream", "cin"} ->
           [rest : Seq(Byte), bits : SUBSET {"eof", "fail", "bad"}]]
    BY <2>1, StreamsType
  <2>4. Streams(target)' = stream'
    BY <2>2 DEF Streams
  <2> QED BY <2>1, <2>2, <2>3, <2>4 DEF SourceInv, Busy
<1>8. CASE UNCHANGED programVars
  BY <1>2, <1>8 DEF programVars, processVars
<1> QED
  BY <1>3, <1>4, <1>5, <1>6, <1>7, <1>8 DEF ProgramNext, ProcessStep, MainStep

LEMMA HistoryNext ==
  ProgramInv /\ [ProgramNext]_programVars => HistoryInv'
<1> SUFFICES ASSUME ProgramInv, [ProgramNext]_programVars
             PROVE  HistoryInv'
  OBVIOUS
<1>1. CASE DecodeOutput
  BY <1>1, OutputIsCode DEF DecodeOutput, HistoryInv
<1>2. CASE OpenTarget \/ ReadChunk \/ CodeChunk \/ WriteChunk
  BY <1>2, CodingKeepsLine DEF ProgramInv, HistoryInv, historyVars
<1>3. CASE ParseOption \/ InitWrappers \/ UNCHANGED programVars
  <2>1. UNCHANGED <<target, original, key>>
    BY <1>3 DEF ParseOption, OptionK, OptionEorD, OptionF, OptionEnds, OptionsMissing,
                InitWrappers, programVars, processVars, historyVars
  <2> QED BY <2>1 DEF ProgramInv, HistoryInv
<1> QED
  BY <1>1, <1>2, <1>3 DEF ProgramNext, ProcessStep, MainStep

LEMMA NoEmptyChunkNext ==
  ProgramInv /\ [ProgramNext]_programVars => NoEmptyChunk'
<1> SUFFICES ASSUME ProgramInv, [ProgramNext]_programVars
             PROVE  NoEmptyChunk'
  OBVIOUS
<1>1. CASE ReadChunk
  BY <1>1, ReadStep DEF ProgramInv, NoEmptyChunk
<1>2. CASE ParseOption \/ InitWrappers \/ OpenTarget \/ CodeChunk \/ WriteChunk \/ DecodeOutput
  <2>1. mpc' # "code1"
    BY <1>2 DEF ParseOption, OptionK, OptionEorD, OptionF, OptionEnds, OptionsMissing,
                Option, Exit, InitWrappers, OpenTarget, CodeChunk, Code, WriteChunk,
                DecodeOutput, processVars
  <2> QED BY <2>1 DEF NoEmptyChunk
<1>3. CASE UNCHANGED programVars
  BY <1>3 DEF ProgramInv, NoEmptyChunk, programVars, processVars, wrapperVars, buffVars
<1> QED
  BY <1>1, <1>2, <1>3 DEF ProgramNext, ProcessStep, MainStep

LEMMA ChunkNext ==
  ProgramInv /\ [ProgramNext]_programVars => ChunkInv'
<1> SUFFICES ASSUME ProgramInv, [ProgramNext]_programVars
             PROVE  ChunkInv'
  OBVIOUS
<1>1. LineInv /\ StageInv /\ SourceInv /\ HistoryInv /\ ChunkInv
  BY DEF ProgramInv
<1>2. CASE ParseOption \/ InitWrappers
  <2>1. /\ mpc = "options" /\ mpc' \in {"options", "open", "exit"} /\ out' = out
        /\ mpc' = "exit" => init_record' = init_record
    BY <1>2 DEF ParseOption, OptionK, OptionEorD, OptionF, OptionEnds, OptionsMissing,
                Option, Exit, InitWrappers, processVars, wrapperVars, keyVars
  <2>2. out' = <<>> /\ ~Succeeded'
    BY <1>1, <2>1 DEF StageInv, ChunkInv, Succeeded
  <2> QED BY <2>1, <2>2 DEF ChunkInv, Busy
<1>3. CASE OpenTarget
  <2>1. /\ mpc = "open" /\ out' = out /\ out = <<>>
        /\ mpc' = "read" \/ (mpc' = "exit" /\ status' # 0)
    BY <1>1, <1>3 DEF OpenTarget, Exit, Number, ChunkInv
  <2>2. UNCHANGED <<optionVars, target, historyVars, init_record>>
    BY <1>3, CodingKeepsLine DEF keyVars
  <2>3. ASSUME Known, mpc' = "read"
        PROVE  ChunkAt(0, 0)'
    <3>1. Key \in Byte /\ target \in Seq(Byte)
      BY <1>1, <2>1, KeyKnown DEF SourceInv, StageInv
    <3>2. Raw \in Seq(Byte)
      BY <1>1, <2>3, <3>1, TextsKnown
    <3>3. WrittenPiece(0, 0) = <<>>
      <4>1. 0 \in Nat /\ 0 <= 0 /\ 0 <= Len(Raw)
        BY <3>2
      <4> QED BY <1>1, <2>3, <3>1, <4>1, WrittenGrows
    <3>4. Cut(0) /\ ReadBefore(0) = 0
      BY <3>2 DEF Cut, ReadBefore, CodeLength
    <3>5. Done' = 0
      BY <1>1, <1>3, <2>3, SourceOpens DEF Busy
    <3>6. Cut(0)' /\ ReadBefore(0)' = 0 /\ WrittenPiece(0, 0)' = <<>>
      BY <2>2, <3>3, <3>4, TextsKept
    <3> QED BY <2>1, <2>3, <3>5, <3>6 DEF ChunkAt
  <2>4. Known' <=> Known
    BY <2>2, TextsKept
  <2>5. 0 \in Nat
    OBVIOUS
  <2> QED BY <2>1, <2>3, <2>4, <2>5 DEF ChunkInv, Busy, Succeeded
<1>4. CASE ReadChunk
  <2>1. /\ UNCHANGED <<optionVars, target, historyVars>> /\ mpc = "read"
    BY <1>4, CodingKeepsLine DEF ReadChunk
  <2>2. /\ Known' <=> Known
        /\ \A c : WrittenPiece(0, c)' = WrittenPiece(0, c)
        /\ Raw' = Raw
    BY <2>1, TextsKept
  <2>3. mpc' \in {"exit", "code1"}
    BY <1>4 DEF ReadChunk, Exit
  <2>4. ASSUME Known
        PROVE  /\ mpc' = "code1" => \E a, b \in Nat : ChunkAt(a, b)'
               /\ mpc' = "exit" => \E a \in 0..Len(Raw) : out' = WrittenPiece(0, a)
               /\ mpc' = "exit" /\ status' = 0 => out' = WrittenPiece(0, Len(Raw))
    <3>1. PICK a \in Nat, b \in Nat : ChunkAt(a, b)
      BY <1>1, <2>1, <2>4 DEF ChunkInv, Busy
    <3> QED BY <1>1, <1>4, <2>4, <3>1, ReadKeeps
  <2>5. ASSUME Known'
        PROVE  /\ mpc' \in Busy => \E a, b \in Nat : ChunkAt(a, b)'
               /\ mpc' = "exit" => \E a \in 0..Len(Raw') : out' = WrittenPiece(0, a)'
               /\ Succeeded' => out' = WrittenPiece(0, Len(Raw))'
    BY <2>2, <2>3, <2>4, <2>5 DEF Busy, Succeeded
  <2> QED BY <2>3, <2>5 DEF ChunkInv
<1>5. CASE CodeChunk \/ WriteChunk
  <2>1. /\ UNCHANGED <<optionVars, target, historyVars>> /\ mpc \in Busy /\ mpc' \in Busy
    BY <1>5, CodingKeepsLine DEF CodeChunk, Code, WriteChunk, Busy
  <2>2. Known' <=> Known
    BY <2>1, TextsKept
  <2>3. ASSUME Known
        PROVE  \E a, b \in Nat : ChunkAt(a, b)'
    <3>1. PICK a \in Nat, b \in Nat : ChunkAt(a, b)
      BY <1>1, <2>1, <2>3 DEF ChunkInv
    <3>2. CASE CodeChunk
      BY <1>1, <2>3, <3>1, <3>2, CodeKeeps
    <3>3. CASE WriteChunk
      BY <1>1, <2>3, <3>1, <3>3, WriteKeeps
    <3> QED BY <1>5, <3>2, <3>3
  <2> QED BY <2>1, <2>2, <2>3 DEF ChunkInv, Busy, Succeeded
<1>6. CASE DecodeOutput
  <2>1. mpc' = "options" /\ out' = <<>>
    BY <1>6 DEF DecodeOutput
  <2> QED BY <2>1 DEF ChunkInv, Busy, Succeeded
<1>7. CASE UNCHANGED programVars
  <2>1. /\ UNCHANGED <<optionVars, target, historyVars, mpc, out, status, init_record>>
        /\ UNCHANGED <<buff1, buff2, Done>>
    BY <1>7 DEF programVars, processVars, optionVars, historyVars, wrapperVars, keyVars,
                buffVars, csdsinVars, Done, Rest
  <2>2. /\ Known' <=> Known
        /\ \A c, d : /\ ReadPiece(c, d)' = ReadPiece(c, d)
                     /\ XoredPiece(c, d)' = XoredPiece(c, d)
                     /\ WrittenPiece(c, d)' = WrittenPiece(c, d)
        /\ \A c : (Cut(c)' <=> Cut(c)) /\ ReadBefore(c)' = ReadBefore(c)
        /\ Raw' = Raw
    BY <2>1, TextsKept
  <2>3. \A a, b : ChunkAt(a, b)' <=> ChunkAt(a, b)
    BY <2>1, <2>2 DEF ChunkAt, InWork
  <2> QED BY <1>1, <2>1, <2>2, <2>3 DEF ChunkInv, Succeeded
<1> QED
  BY <1>2, <1>3, <1>4, <1>5, <1>6, <1>7 DEF ProgramNext, ProcessStep, MainStep

LEMMA ProgramInvNext ==
  ProgramInv /\ [ProgramNext]_programVars => ProgramInv'
BY LineNext, StageNext, SourceNext, HistoryNext, NoEmptyChunkNext, ChunkNext
   DEF ProgramInv

\* The chain is not given an empty chunk: a source that has nothing left says so in
\* the same read, and the loop ends (codestream.cc:107-115).
THEOREM ChunksAreNotEmpty == ProgramSpec => []NoEmptyChunk
<1>1. ProgramInv => NoEmptyChunk
  BY DEF ProgramInv
<1> QED
  BY <1>1, ProgramInvInit, ProgramInvNext, PTL DEF ProgramSpec

\* For texts of every length, in buffers of every size, from every kind of source.
THEOREM TextComesBack == ProgramSpec => []DecodesWhatItEncoded
<1>1. ProgramInv => DecodesWhatItEncoded
  <2> SUFFICES ASSUME ProgramInv, mode = "decode", key # NoKey, Key = key % 256
               PROVE  IsPrefix(out, original) /\ (Succeeded => out = original)
    BY DEF DecodesWhatItEncoded, Key
  <2>1. /\ original \in Seq(Byte) /\ target \in Seq(Byte) /\ HistoryInv
        /\ Key \in Byte /\ Known /\ Raw = original
    <3>1. key \in Nat /\ original \in Seq(Byte) /\ target \in Seq(Byte) /\ HistoryInv
      BY DEF ProgramInv, HistoryInv, SourceInv
    <3>2. Key \in Byte
      BY <3>1 DEF Byte
    <3>3. Known /\ Raw = original
      BY DEF Known, Raw
    <3> QED BY <3>1, <3>2, <3>3
  <2>2. \A a \in Nat : WrittenPiece(0, a) = SubSeq(original, 1, a)
    BY <2>1 DEF WrittenPiece, RawPiece
  <2>3. out = <<>> \/ \E a \in 0..Len(original) : out = SubSeq(original, 1, a)
    <3>1. CASE mpc \in {"options", "open"}
      BY <3>1 DEF ProgramInv, ChunkInv
    <3>2. CASE mpc \in Busy
      <4>1. PICK a \in Nat, b \in Nat : ChunkAt(a, b)
        BY <2>1, <3>2 DEF ProgramInv, ChunkInv
      <4>2. a \in 0..Len(original) /\ out = SubSeq(original, 1, a)
        BY <2>1, <2>2, <4>1 DEF ChunkAt, Cut
      <4> QED BY <4>2
    <3>3. CASE mpc = "exit"
      <4>1. out = <<>> \/ \E a \in 0..Len(original) : out = WrittenPiece(0, a)
        BY <2>1, <3>3 DEF ProgramInv, ChunkInv
      <4>2. 0..Len(original) \subseteq Nat
        BY <2>1
      <4> QED BY <2>2, <4>1, <4>2
    <3> QED BY <3>1, <3>2, <3>3 DEF ProgramInv, StageInv
  <2>4. IsPrefix(out, original)
    <3>1. CASE out = <<>>
      BY <2>1, <3>1, SubSeqEmpty DEF IsPrefix
    <3>2. ASSUME NEW a \in 0..Len(original), out = SubSeq(original, 1, a)
          PROVE  IsPrefix(out, original)
      <4>1. Len(out) = a
        BY <2>1, <3>2
      <4> QED BY <2>1, <3>2, <4>1 DEF IsPrefix
    <3> QED BY <2>3, <3>1, <3>2
  <2>5. Succeeded => out = original
    BY <2>1, <2>2, SubSeqFull DEF ProgramInv, ChunkInv
  <2> QED BY <2>4, <2>5
<1> QED
  BY <1>1, ProgramInvInit, ProgramInvNext, PTL DEF ProgramSpec

================================================================================
