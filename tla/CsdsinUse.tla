------------------------------- MODULE CsdsinUse -------------------------------
(***************************************************************************)
(* Users of a data source that ask isinit() before they change its kind,   *)
(* and how the data source implements Reader for them.                     *)
(***************************************************************************)
EXTENDS Csdsin

CONSTANTS
  Contents,     \* what files, the standard input and strings may hold
  Sizes         \* the sizes of the reads

Data == UNION {{s[i] : i \in DOMAIN s} : s \in Contents}

ASSUME SourceAssumption == Contents \subseteq Seq(Data) /\ Sizes \subseteq Nat \ {0}

VARIABLE
  cin_closed    \* history: the standard input was closed

sourceVars == <<csdsinVars, cin_closed>>

SourceInit ==
  /\ \E typed \in Contents : CsdsinInit(typed)
  /\ cin_closed = FALSE

Opens ==
  /\ \E kind \in Kinds, data \in Contents :
       (init => kind = df) /\ initCsdsin(kind, data)
  /\ UNCHANGED cin_closed

OpensNull == InitCmdNull /\ UNCHANGED cin_closed

Reads ==
  /\ \E n \in Sizes : readCsdsin(n)
  /\ UNCHANGED cin_closed

Closes ==
  /\ CloseCsdsin
  /\ cin_closed' = (cin_closed \/ df = "DFSTDIN")

\* The object goes, and the next one is made.
Destroys == DestroyCsdsin /\ UNCHANGED cin_closed

SourceNext == Opens \/ OpensNull \/ Reads \/ Closes \/ Destroys

SourceSpec == SourceInit /\ [][SourceNext]_sourceVars

-----------------------------------------------------------------------------

\* The types; and a string that was not read to its end never outlives its turn
\* as the source.
SourceTypeOK ==
  /\ df \in Kinds /\ init \in BOOLEAN
  /\ csdsin \in {"nullptr", "ifstream", "cin"}
  /\ csdsinb \in Seq(Data) /\ got \in Seq(Data)
  /\ stream \in [{"ifstream", "cin"} ->
                   [rest : Seq(Data), bits : SUBSET {"eof", "fail", "bad"}]]
  /\ csdsinb # <<>> => df = "DFCMD"

Broken == df = "DFFILE" /\ "bad" \in stream.ifstream.bits

\* What the user can still expect from the object.
Left ==
  IF ~init \/ Broken THEN <<>>
  ELSE IF df = "DFCMD" THEN csdsinb
  ELSE IF df = "DFFILE" THEN stream.ifstream.rest
  ELSE IF cin_closed THEN <<>> ELSE stream.cin.rest

Status == IF ~init THEN "closed" ELSE IF Broken THEN "broken" ELSE "open"

R == INSTANCE Reader WITH left <- Left, got <- got, status <- Status

\* Each kind of source hands out what was opened in order, once, completely, and
\* a second initCsdsin of the same kind does not disturb a read in progress; an
\* object that reads cin goes on where the object before it was destroyed.
ImplementsReader == R!Spec

\* _df, _init and _csdsin agree after any order of openings, failures and
\* closings: no cast of readCsdsin, closeCsdsin or iseof fails.
NoNullCast == init => Castable

\* iseof() of an open source means that everything was read.
EofMeansAll == init /\ genericISFunc("eof") => Left = <<>>

\* The loop of the program ends: a read of an open source that gives nothing
\* leaves it at eof or bad.  Otherwise the loop would code empty chunks for ever.
NothingMeansEnd ==
  [][Reads /\ init /\ got' = <<>> => (genericISFunc("eof") \/ genericISFunc("bad"))']_sourceVars

=============================================================================
