-------------------------------- MODULE Csdsin ---------------------------------
(***************************************************************************)
(* The data source of src/src/csdsin.cc: one object that reads a file, the *)
(* standard input or a string given on the command line.                   *)
(*                                                                         *)
(* The streams behind it are external: a read gives what is left, up to n  *)
(* characters, and sets eof and fail when that is less than n; a read from *)
(* a stream with a bit set gives nothing and sets fail; a file can break   *)
(* (bad) in any read.                                                      *)
(***************************************************************************)
EXTENDS Integers, SequencesExt

VARIABLES
  df,         \* _df
  init,       \* _init
  csdsin,     \* _csdsin: "nullptr", "ifstream" or "cin"
  csdsinb,    \* _csdsinb
  stream,     \* of both streams what is left, and the bits that are set
  got         \* the characters the last readCsdsin returned

csdsinVars == <<df, init, csdsin, csdsinb, stream, got>>

Kinds == {"DFFILE", "DFSTDIN", "DFCMD"}

\* The two streams, with what is left to be read from cin.
Streams(typed) ==
  [name \in {"ifstream", "cin"} |->
     [rest |-> IF name = "cin" THEN typed ELSE <<>>, bits |-> {}]]

\* The constructor; typed is what the user has to say on the standard input.
CsdsinInit(typed) ==
  /\ df = "DFSTDIN" /\ init = FALSE
  /\ csdsin = "nullptr" /\ csdsinb = <<>>
  /\ stream = Streams(typed)
  /\ got = <<>>

\* What closeCsdsin, readCsdsin and iseof rely on when they cast or follow
\* _csdsin.
Castable ==
  /\ df = "DFFILE" => csdsin = "ifstream"
  /\ df = "DFSTDIN" => csdsin # "nullptr"

-----------------------------------------------------------------------------
(* initCsdsin                                                              *)

\* Faulty: without the "just init once" test.
InitFile_Twice(data) ==
  /\ df' = "DFFILE" /\ init' = TRUE
  /\ csdsin' = "ifstream"
  /\ stream' = [stream EXCEPT !.ifstream = [rest |-> data, bits |-> {}]]
  /\ UNCHANGED <<csdsinb, got>>

\* "just init once": only the kind changes.
InitAgain(kind) ==
  /\ init
  /\ df' = kind
  /\ UNCHANGED <<init, csdsin, csdsinb, stream, got>>

InitFile(data) ==
  /\ ~init
  /\ df' = "DFFILE" /\ init' = TRUE
  /\ csdsin' = "ifstream"
  /\ stream' = [stream EXCEPT !.ifstream = [rest |-> data, bits |-> {}]]
  /\ UNCHANGED <<csdsinb, got>>

InitFileFails ==
  /\ ~init
  /\ df' = "DFFILE"
  /\ csdsin' = "ifstream"
  /\ stream' = [stream EXCEPT !.ifstream = [rest |-> <<>>, bits |-> {"fail"}]]
  /\ UNCHANGED <<init, csdsinb, got>>

InitStdin ==
  /\ ~init
  /\ df' = "DFSTDIN" /\ init' = TRUE
  /\ csdsin' = "cin"
  /\ UNCHANGED <<csdsinb, stream, got>>

InitCmd(data) ==
  /\ ~init
  /\ df' = "DFCMD" /\ init' = TRUE
  /\ csdsinb' = data
  /\ UNCHANGED <<csdsin, stream, got>>

InitCmdNull ==
  /\ ~init
  /\ df' = "DFCMD"
  /\ UNCHANGED <<init, csdsin, csdsinb, stream, got>>

initCsdsin(kind, data) ==
  \/ InitAgain(kind)
  \/ kind = "DFFILE" /\ (InitFile(data) \/ InitFileFails)
  \/ kind = "DFSTDIN" /\ InitStdin
  \/ kind = "DFCMD" /\ InitCmd(data)

-----------------------------------------------------------------------------
(* closeCsdsin                                                             *)

\* Faulty: the rest of the string stays.
CloseCsdsin_KeepsString ==
  /\ init /\ Castable
  /\ df' = "DFSTDIN" /\ init' = FALSE
  /\ UNCHANGED <<csdsin, csdsinb, stream, got>>

\* Faulty: the object still counts as initialised.
CloseCsdsin_KeepsInit ==
  /\ init /\ Castable
  /\ df' = "DFSTDIN"
  /\ UNCHANGED <<init, csdsin, csdsinb, stream, got>>

CloseCsdsin ==
  /\ init /\ Castable
  /\ \/ /\ df = "DFFILE"
        /\ stream' = [stream EXCEPT !.ifstream.rest = <<>>]
        /\ UNCHANGED csdsinb
     \/ /\ df = "DFSTDIN"
        /\ stream' = [stream EXCEPT ![csdsin].bits = @ \cup {"eof"}]
        /\ UNCHANGED csdsinb
     \/ /\ df = "DFCMD"
        /\ csdsinb' = <<>>
        /\ UNCHANGED stream
  /\ df' = "DFSTDIN" /\ init' = FALSE
  /\ UNCHANGED <<csdsin, got>>

-----------------------------------------------------------------------------
(* ~Csdsin                                                                 *)

\* A stream that is open stays so, and an ifstream is never deleted: the test
\* for DFFILE comes after _df was set.  A new object may follow.
DestroyCsdsin ==
  /\ df' = "DFSTDIN" /\ init' = FALSE
  /\ csdsin' = "nullptr" /\ csdsinb' = <<>>
  /\ UNCHANGED <<stream, got>>

-----------------------------------------------------------------------------
(* readCsdsin                                                              *)

Less(m, n) == IF m < n THEN m ELSE n

ReadCmd(n) ==
  LET count == Less(n, Len(csdsinb))
  IN  /\ init /\ df = "DFCMD"
      /\ got' = SubSeq(csdsinb, 1, count)
      /\ csdsinb' = SubSeq(csdsinb, count + 1, Len(csdsinb))
      /\ UNCHANGED <<df, init, csdsin, stream>>

ReadStream(n) ==
  LET s == stream[csdsin]
      count == Less(n, Len(s.rest))
  IN  /\ init /\ df # "DFCMD" /\ Castable
      /\ s.bits = {}
      /\ got' = SubSeq(s.rest, 1, count)
      /\ stream' = [stream EXCEPT ![csdsin] =
                      [rest |-> SubSeq(s.rest, count + 1, Len(s.rest)),
                       bits |-> IF count < n THEN {"eof", "fail"} ELSE {}]]
      /\ UNCHANGED <<df, init, csdsin, csdsinb>>

ReadNoMore ==
  /\ init /\ df # "DFCMD" /\ Castable
  /\ stream[csdsin].bits # {}
  /\ got' = <<>>
  /\ stream' = [stream EXCEPT ![csdsin].bits = @ \cup {"fail"}]
  /\ UNCHANGED <<df, init, csdsin, csdsinb>>

ReadBreaks ==
  /\ init /\ df = "DFFILE" /\ Castable
  /\ stream.ifstream.bits = {}
  /\ got' = <<>>
  /\ stream' = [stream EXCEPT !.ifstream.bits = {"bad"}]
  /\ UNCHANGED <<df, init, csdsin, csdsinb>>

ReadUninit ==
  /\ ~init
  /\ got' = <<>>
  /\ UNCHANGED <<df, init, csdsin, csdsinb, stream>>

readCsdsin(n) ==
  ReadCmd(n) \/ ReadStream(n) \/ ReadNoMore \/ ReadBreaks \/ ReadUninit

-----------------------------------------------------------------------------
(* iseof, isfail and isbad, of an object that has been initialised.        *)

\* Faulty: a string is never at its end.
genericISFunc_StreamsOnly(bit) ==
  df # "DFCMD" /\ Castable /\ bit \in stream[csdsin].bits

\* Faulty: the emptiness of the string is negated.
genericISFunc_Negated(bit) ==
  IF df = "DFCMD"
  THEN bit # "fail" /\ csdsinb # <<>>
  ELSE Castable /\ bit \in stream[csdsin].bits

genericISFunc(bit) ==
  IF df = "DFCMD"
  THEN bit # "fail" /\ csdsinb = <<>>
  ELSE Castable /\ bit \in stream[csdsin].bits

=============================================================================
