-------------------------------- MODULE Program --------------------------------
(***************************************************************************)
(* The program, main() of src/src/codestream_main.cc with the functions of *)
(* src/src/codestream.cc it calls, over the data: the options, the         *)
(* wrappers, the data source, and the loop that reads a chunk, codes it    *)
(* and writes it.  A process that has encoded may be followed by one that  *)
(* decodes what was written.                                               *)
(*                                                                         *)
(* A command line is the sequence of options getopt finds in it: <<"k", n>>*)
(* (n is what strtoul makes of the argument), <<"e", name>>, <<"d", name>>,*)
(* <<"f">>, <<"h">> and <<"?">> for an unknown one.  A name is "-" or      *)
(* "name".  The engine is reduced to what module Stream promises of it: it *)
(* runs the chain once, in order, between the reading and the writing of a *)
(* chunk, if the wait for it returns at all.                               *)
(***************************************************************************)
EXTENDS OpsWrapper, Csdsin

CONSTANTS
  Jobs,       \* pairs of a command line and the data it is about
  Followers   \* command lines of the processes that decode

Options ==
  ({"k"} \X Nat) \cup ({"e", "d"} \X {"-", "name"}) \cup {<<"f">>, <<"h">>, <<"?">>}

ASSUME ProgramAssumption ==
  Jobs \subseteq Seq(Options) \X Seq(Byte) /\ Followers \subseteq Seq(Options)

VARIABLES
  argv, optind,    \* the command line, and where getopt is in it
  mode,            \* the first of -e and -d; "none" while prevent_ef is 0
  cmdarg,          \* the name it was given with
  if_f_got,
  mpc,             \* where the process is
  target,          \* the contents of the file, of stdin or of the name itself
  main_error_code,
  status,          \* what main() returned last; 0 while it runs
  out,             \* what was written to the standard output
  original, key    \* history: what the process before this one encoded, and
                   \* with which key; NoKey if there was none

optionVars  == <<argv, optind, mode, cmdarg, if_f_got>>
processVars == <<mpc, target, main_error_code, status, out>>
historyVars == <<original, key>>
programVars == <<wrapperVars, csdsinVars, optionVars, processVars, historyVars>>

NoKey == -1

\* The error codes are numbered from 0.
Number(error) ==
  [EINVALIDKEY |-> 0, EOPTION |-> 1, ENILP |-> 2, ECODING |-> 3,
   EFPERMISSION |-> 4, EINIT |-> 5, ENOE |-> 6][error]

\* Faulty: half the buffer for the input, as a doubling codec would need it.
ENCODE_INPUT_Half == BuffSize \div 2

ENCODE_INPUT == (BuffSize * 3) \div 8

DECODE_INPUT == BuffSize

once_read == IF mode = "encode" THEN ENCODE_INPUT ELSE DECODE_INPUT

toinstall ==
  IF mode = "encode"
  THEN <<"xor", "gcwt", "base64_encode">>
  ELSE <<"base64_decode", "gcwt", "xor">>

\* The words of a command line, with the name of the program.
argc(line) ==
  1 + FoldSeq(LAMBDA o, words : words + Len(o), 0, line)

\* What kind of source a name stands for.
src_from(name, f) ==
  IF ~f THEN "DFCMD" ELSE IF name = "-" THEN "DFSTDIN" ELSE "DFFILE"

-----------------------------------------------------------------------------
(* What a command line asks for, read as a whole.                          *)

Places(line, names) == {i \in DOMAIN line : line[i][1] \in names}

KeyOf(line) ==
  LET keys == Places(line, {"k"})
  IN  IF keys = {} THEN 0 ELSE line[Max(keys)][2]

ModeOf(line) ==
  LET modes == Places(line, {"e", "d"})
  IN  IF modes = {} THEN "none"
      ELSE IF line[Min(modes)][1] = "e" THEN "encode" ELSE "decode"

KindOf(line) ==
  LET modes == Places(line, {"e", "d"})
  IN  IF modes = {} THEN "DFCMD"
      ELSE src_from(line[Min(modes)][2], Places(line, {"f"}) # {})

\* A string on a command line has no zero bytes, and the name "-" is one.
Possible(line, data) ==
  KindOf(line) = "DFCMD" =>
    /\ 0 \notin Range(data)
    /\ \A i \in Places(line, {"e", "d"}) : line[i][2] = "-" => data = <<45>>

-----------------------------------------------------------------------------

ProcessInit(line, data) ==
  /\ WrapperInit
  /\ CsdsinInit(data)
  /\ argv = line /\ optind = 1
  /\ mode = "none" /\ cmdarg = "nullptr" /\ if_f_got = FALSE
  /\ mpc = "options"
  /\ target = data
  /\ main_error_code = "ENOE" /\ status = 0
  /\ out = <<>>

ProgramInit ==
  /\ \E job \in Jobs : Possible(job[1], job[2]) /\ ProcessInit(job[1], job[2])
  /\ original = <<>> /\ key = NoKey

Exit(code) == mpc' = "exit" /\ status' = code

-----------------------------------------------------------------------------
(* The options.                                                            *)

Option(names) ==
  /\ mpc = "options" /\ argc(argv) >= 3
  /\ optind <= Len(argv) /\ argv[optind][1] \in names
  /\ optind' = optind + 1

\* main_optionf_k.  The key is an unsigned short.
OptionK ==
  /\ Option({"k"})
  /\ main_error_code' = "ENOE"
  /\ ops_wrapper_otm_key(argv[optind][2] % 65536)
  /\ UNCHANGED <<csdsinVars, argv, mode, cmdarg, if_f_got, mpc, target, status,
                 out, historyVars>>

\* Faulty: without prevent_ef.
OptionEorD_LastOne ==
  /\ Option({"e", "d"})
  /\ mode' = IF argv[optind][1] = "e" THEN "encode" ELSE "decode"
  /\ cmdarg' = argv[optind][2]
  /\ UNCHANGED <<wrapperVars, csdsinVars, argv, if_f_got, processVars, historyVars>>

\* Just one of -e and -d is effective.
OptionEorD ==
  /\ Option({"e", "d"})
  /\ \/ /\ mode = "none"
        /\ mode' = IF argv[optind][1] = "e" THEN "encode" ELSE "decode"
        /\ cmdarg' = argv[optind][2]
     \/ mode # "none" /\ UNCHANGED <<mode, cmdarg>>
  /\ UNCHANGED <<wrapperVars, csdsinVars, argv, if_f_got, processVars, historyVars>>

OptionF ==
  /\ Option({"f"})
  /\ if_f_got' = TRUE
  /\ UNCHANGED <<wrapperVars, csdsinVars, argv, mode, cmdarg, processVars,
                 historyVars>>

\* The help text, or an unknown option: what stands before has had its effect.
OptionEnds ==
  /\ \/ Option({"h"}) /\ Exit(0)
     \/ Option({"?"}) /\ Exit(-Number("EOPTION"))
  /\ UNCHANGED <<wrapperVars, csdsinVars, argv, mode, cmdarg, if_f_got, target,
                 main_error_code, out, historyVars>>

\* Too few words, or neither -e nor -d.
OptionsMissing ==
  /\ mpc = "options"
  /\ argc(argv) < 3 \/ (optind > Len(argv) /\ mode = "none")
  /\ Exit(-Number("EOPTION"))
  /\ UNCHANGED <<wrapperVars, csdsinVars, optionVars, target, main_error_code,
                 out, historyVars>>

ParseOption == OptionK \/ OptionEorD \/ OptionF \/ OptionEnds \/ OptionsMissing

-----------------------------------------------------------------------------

InitWrappers ==
  /\ mpc = "options" /\ argc(argv) >= 3
  /\ optind > Len(argv) /\ mode # "none"
  /\ ops_wrapper_init
  /\ main_error_code' = "ENOE"
  /\ mpc' = "open"
  /\ UNCHANGED <<csdsinVars, optionVars, target, status, out, historyVars>>

\* main_optionf_eandd
OpenTarget ==
  /\ mpc = "open"
  /\ initCsdsin(src_from(cmdarg, if_f_got), target)
  /\ \/ init' /\ mpc' = "read" /\ UNCHANGED <<main_error_code, status>>
     \/ /\ ~init'
        /\ main_error_code' = "EFPERMISSION" /\ Exit(-Number("EFPERMISSION"))
  /\ UNCHANGED <<wrapperVars, optionVars, target, out, historyVars>>

\* A chunk, or the end of the source; an empty chunk is coded like any other
\* when the source is neither at its end nor broken.
ReadChunk ==
  /\ mpc = "read"
  /\ readCsdsin(once_read)
  /\ \/ /\ got' = <<>> /\ genericISFunc("eof")'
        /\ Exit(0)
        /\ UNCHANGED <<main_error_code, buff1>>
     \/ /\ got' = <<>> /\ ~genericISFunc("eof")' /\ genericISFunc("bad")'
        /\ main_error_code' = "ECODING" /\ Exit(-Number("ECODING"))
        /\ UNCHANGED buff1
     \/ /\ got' = <<>> => ~genericISFunc("eof")' /\ ~genericISFunc("bad")'
        /\ buff1' = got'
        /\ mpc' = "code1"
        /\ UNCHANGED <<main_error_code, status>>
  /\ UNCHANGED <<keyVars, cwer, buff2, optionVars, target, out, historyVars>>

Call(procedure) ==
  \/ procedure = "xor" /\ ops_wrapper_xor
  \/ procedure = "base64_encode" /\ ops_wrapper_base64_encode
  \/ procedure = "base64_decode" /\ ops_wrapper_base64_decode
  \/ procedure = "gcwt" /\ ops_wrapper_gcwt

Code(from, i, to) ==
  /\ mpc = from
  /\ Call(toinstall[i])
  /\ mpc' = to
  /\ UNCHANGED <<csdsinVars, optionVars, target, main_error_code, status, out,
                 historyVars>>

\* coding() and the wait for the worker that runs the chain: in the end buff2 holds the
\* chunk that has passed it.  Stream does not promise that the wait returns, so these
\* steps may never be taken.
CodeChunk ==
  \/ Code("code1", 1, "code2")
  \/ Code("code2", 2, "code3")
  \/ Code("code3", 3, "write")

WriteChunk ==
  /\ mpc = "write"
  /\ out' = out \o buff2
  /\ mpc' = "read"
  /\ UNCHANGED <<wrapperVars, csdsinVars, optionVars, target, main_error_code,
                 status, historyVars>>

\* The process has coded, and says so.
Succeeded == mpc = "exit" /\ status = 0 /\ init_record

\* A new process is given what this one has encoded.
DecodeOutput ==
  /\ Succeeded /\ mode = "encode"
  /\ original' = target /\ key' = KeyOf(argv)
  /\ argv' \in {line \in Followers : Possible(line, out)}
  /\ optind' = 1 /\ mode' = "none" /\ cmdarg' = "nullptr" /\ if_f_got' = FALSE
  /\ target' = out
  /\ gckul' = 0 /\ init_record' = FALSE
  /\ xor_key' = 0 /\ q_text' = Q_TEXT /\ r_text' = R_TEXT
  /\ cwer' = "CWER_OTM" /\ buff1' = <<>> /\ buff2' = <<>>
  /\ df' = "DFSTDIN" /\ init' = FALSE
  /\ csdsin' = "nullptr" /\ csdsinb' = <<>> /\ got' = <<>>
  /\ stream' = Streams(out)
  /\ mpc' = "options" /\ main_error_code' = "ENOE" /\ status' = 0 /\ out' = <<>>

\* What main() does by itself.
MainStep == ParseOption \/ InitWrappers \/ OpenTarget \/ ReadChunk \/ WriteChunk

ProcessStep == MainStep \/ CodeChunk

ProgramNext == ProcessStep \/ DecodeOutput

ProgramSpec ==
  ProgramInit /\ [][ProgramNext]_programVars /\ WF_programVars(MainStep)

=============================================================================
