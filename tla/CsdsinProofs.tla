------------------------------ MODULE CsdsinProofs -----------------------------
(***************************************************************************)
(* The data source implements Reader, and its object stays consistent, for *)
(* all contents and all sizes of reads.                                    *)
(***************************************************************************)
EXTENDS CsdsinUse, SequenceTheorems, TLAPS

-----------------------------------------------------------------------------
(* The inductive invariant.                                                *)

\* A string is there only while it is the open source.
StringInv == csdsinb # <<>> => init /\ df = "DFCMD"

\* A stream without its bits can be read; cin has lost everything when closed.
CinInv ==
  /\ stream.cin.bits # {} => "eof" \in stream.cin.bits
  /\ "eof" \in stream.cin.bits => stream.cin.rest = <<>> \/ cin_closed
  /\ cin_closed => "eof" \in stream.cin.bits

FileInv ==
  init /\ df = "DFFILE" =>
    /\ stream.ifstream.bits # {} =>
         "eof" \in stream.ifstream.bits \/ "bad" \in stream.ifstream.bits
    /\ "eof" \in stream.ifstream.bits => stream.ifstream.rest = <<>>

\* csdsin is the stream of the kind.
PointerInv ==
  /\ init /\ df = "DFFILE" => csdsin = "ifstream"
  /\ init /\ df = "DFSTDIN" => csdsin = "cin"

SourceInv ==
  SourceTypeOK /\ StringInv /\ CinInv /\ FileInv /\ PointerInv

\* Cutting the first characters off.
LEMMA Cut ==
  ASSUME NEW s \in Seq(Data), NEW n \in Nat \ {0}
  PROVE  /\ Less(n, Len(s)) \in 0..Len(s)
         /\ Less(n, Len(s)) = 0 => s = <<>>
         /\ SubSeq(s, 1, Less(n, Len(s))) \in Seq(Data)
         /\ SubSeq(s, Less(n, Len(s)) + 1, Len(s)) \in Seq(Data)
         /\ SubSeq(s, 1, Less(n, Len(s))) = <<>> => s = <<>>
         /\ Less(n, Len(s)) < n => SubSeq(s, Less(n, Len(s)) + 1, Len(s)) = <<>>
         /\ s = <<>> => SubSeq(s, Less(n, Len(s)) + 1, Len(s)) = <<>>
<1> DEFINE k == Less(n, Len(s))
<1>1. k \in 0..Len(s) /\ (k = 0 => Len(s) = 0) /\ (k < n => k = Len(s))
  BY DEF Less
<1> HIDE DEF k
<1>2. SubSeq(s, 1, k) \in Seq(Data) /\ SubSeq(s, k + 1, Len(s)) \in Seq(Data)
  <2>1. \A i \in 1..k : s[i] \in Data
    BY <1>1, ElementOfSeq
  <2>2. \A i \in (k + 1)..Len(s) : s[i] \in Data
    BY <1>1, ElementOfSeq
  <2> QED BY <2>1, <2>2, <1>1, SubSeqProperties
<1>3. Len(SubSeq(s, 1, k)) = k
  BY <1>1, SubSeqProperties
<1>4. k = Len(s) => SubSeq(s, k + 1, Len(s)) = <<>>
  BY <1>1, SubSeqProperties
<1>5. Len(s) = 0 => s = <<>>
  OBVIOUS
<1>6. SubSeq(s, 1, k) = <<>> => k = 0
  BY <1>3
<1> QED
  BY <1>1, <1>2, <1>4, <1>5, <1>6 DEF k

-----------------------------------------------------------------------------
(* SourceInv is inductive.                                                 *)

Bits == SUBSET {"eof", "fail", "bad"}

LEMMA SourceInvInit ==
  SourceInit => SourceInv
<1> SUFFICES ASSUME NEW typed \in Contents, CsdsinInit(typed), cin_closed = FALSE
             PROVE  SourceInv
  BY DEF SourceInit
<1>1. typed \in Seq(Data) /\ <<>> \in Seq(Data)
  BY SourceAssumption
<1> QED
  BY <1>1 DEF CsdsinInit, Streams, SourceInv, SourceTypeOK, StringInv, CinInv, FileInv,
              PointerInv, Kinds

LEMMA SourceInvOpens ==
  ASSUME SourceInv, Opens
  PROVE  SourceInv'
<1>1. PICK kind \in Kinds, data \in Contents :
        (init => kind = df) /\ initCsdsin(kind, data)
  BY DEF Opens
<1>2. data \in Seq(Data) /\ cin_closed' = cin_closed
  BY SourceAssumption DEF Opens
<1> USE DEF SourceInv, SourceTypeOK, StringInv, CinInv, FileInv, PointerInv, Kinds
<1>3. CASE InitAgain(kind)
  BY <1>1, <1>2, <1>3 DEF InitAgain
<1>4. CASE InitFile(data)
  BY <1>1, <1>2, <1>4 DEF InitFile
<1>5. CASE InitFileFails
  BY <1>1, <1>2, <1>5 DEF InitFileFails
<1>6. CASE InitStdin
  BY <1>1, <1>2, <1>6 DEF InitStdin
<1>7. CASE InitCmd(data)
  BY <1>1, <1>2, <1>7 DEF InitCmd
<1> QED
  BY <1>1, <1>3, <1>4, <1>5, <1>6, <1>7 DEF initCsdsin

LEMMA SourceInvOpensNull ==
  ASSUME SourceInv, OpensNull
  PROVE  SourceInv'
BY DEF OpensNull, InitCmdNull, SourceInv, SourceTypeOK, StringInv, CinInv,
       FileInv, PointerInv, Kinds

LEMMA SourceInvReads ==
  ASSUME SourceInv, Reads
  PROVE  SourceInv'
<1>1. PICK n \in Sizes : readCsdsin(n)
  BY DEF Reads
<1>2. n \in Nat \ {0} /\ cin_closed' = cin_closed
  BY SourceAssumption DEF Reads
<1> USE DEF SourceInv, SourceTypeOK, StringInv, CinInv, FileInv, PointerInv, Kinds
<1>3. CASE ReadCmd(n)
  <2>1. SubSeq(csdsinb, 1, Less(n, Len(csdsinb))) \in Seq(Data)
        /\ SubSeq(csdsinb, Less(n, Len(csdsinb)) + 1, Len(csdsinb)) \in Seq(Data)
    BY <1>2, Cut
  <2> QED BY <1>2, <1>3, <2>1 DEF ReadCmd
<1>4. CASE ReadStream(n)
  <2> DEFINE rest == stream[csdsin].rest
             count == Less(n, Len(rest))
             bits == IF count < n THEN {"eof", "fail"} ELSE {}
  <2>1. csdsin \in {"ifstream", "cin"} /\ rest \in Seq(Data)
    BY <1>4 DEF ReadStream, Castable
  <2>2. SubSeq(rest, 1, count) \in Seq(Data)
        /\ SubSeq(rest, count + 1, Len(rest)) \in Seq(Data)
        /\ (count < n => SubSeq(rest, count + 1, Len(rest)) = <<>>)
    BY <1>2, <2>1, Cut
  <2>3. /\ got' = SubSeq(rest, 1, count)
        /\ stream' = [stream EXCEPT ![csdsin] =
              [rest |-> SubSeq(rest, count + 1, Len(rest)), bits |-> bits]]
        /\ init /\ df # "DFCMD" /\ UNCHANGED <<df, init, csdsin, csdsinb>>
        /\ stream[csdsin].bits = {}
    BY <1>4 DEF ReadStream
  <2> HIDE DEF rest, count
  <2> QED BY <1>2, <2>1, <2>2, <2>3
<1>5. CASE ReadNoMore
  BY <1>2, <1>5 DEF ReadNoMore, Castable
<1>6. CASE ReadBreaks
  BY <1>2, <1>6 DEF ReadBreaks, Castable
<1>7. CASE ReadUninit
  BY <1>2, <1>7 DEF ReadUninit
<1> QED
  BY <1>1, <1>3, <1>4, <1>5, <1>6, <1>7 DEF readCsdsin

LEMMA SourceInvCloses ==
  ASSUME SourceInv, Closes
  PROVE  SourceInv'
<1> USE DEF SourceInv, SourceTypeOK, StringInv, CinInv, FileInv, PointerInv, Kinds
<1>1. init /\ CloseCsdsin /\ cin_closed' = (cin_closed \/ df = "DFSTDIN")
  BY DEF Closes, CloseCsdsin
<1>2. <<>> \in Seq(Data)
  OBVIOUS
<1>3. CASE df = "DFFILE"
  BY <1>1, <1>2, <1>3 DEF CloseCsdsin
<1>4. CASE df = "DFSTDIN"
  <2>1. csdsin = "cin"
    BY <1>1, <1>4
  <2>2. /\ stream' = [stream EXCEPT !["cin"].bits = stream["cin"].bits \cup {"eof"}]
        /\ UNCHANGED <<csdsin, csdsinb, got>> /\ df' = "DFSTDIN" /\ init' = FALSE
    BY <1>1, <1>4, <2>1 DEF CloseCsdsin
  <2>3. stream["cin"].bits \cup {"eof"} \in SUBSET {"eof", "fail", "bad"}
    OBVIOUS
  <2>4. stream' \in [{"ifstream", "cin"} ->
                       [rest : Seq(Data), bits : SUBSET {"eof", "fail", "bad"}]]
    BY <2>2, <2>3
  <2>5. "eof" \in stream'["cin"].bits /\ cin_closed'
    BY <1>1, <1>4, <2>2
  <2>6. csdsinb = <<>>
    BY <1>4
  <2>7. SourceTypeOK'
    BY <2>2, <2>4, <2>6
  <2>8. StringInv' /\ FileInv' /\ PointerInv'
    BY <2>2, <2>6
  <2>9. CinInv'
    BY <2>5 DEF CinInv
  <2> QED
    BY <2>7, <2>8, <2>9
<1>5. CASE df = "DFCMD"
  BY <1>1, <1>2, <1>5 DEF CloseCsdsin
<1> QED
  BY <1>3, <1>4, <1>5

LEMMA SourceInvDestroys ==
  ASSUME SourceInv, Destroys
  PROVE  SourceInv'
<1>1. <<>> \in Seq(Data)
  OBVIOUS
<1> QED
  BY <1>1 DEF Destroys, DestroyCsdsin, SourceInv, SourceTypeOK, StringInv, CinInv,
              FileInv, PointerInv, Kinds

THEOREM SourceInvariant ==
  SourceSpec => []SourceInv
<1>1. SourceInv /\ [SourceNext]_sourceVars => SourceInv'
  <2>1. ASSUME SourceInv, UNCHANGED sourceVars PROVE SourceInv'
    BY <2>1 DEF sourceVars, csdsinVars, SourceInv, SourceTypeOK, StringInv,
                CinInv, FileInv, PointerInv
  <2> QED
    BY <2>1, SourceInvOpens, SourceInvOpensNull, SourceInvReads, SourceInvCloses,
       SourceInvDestroys DEF SourceNext
<1> QED
  BY <1>1, SourceInvInit, PTL DEF SourceSpec

-----------------------------------------------------------------------------
(* The properties.                                                         *)

\* The types of the data source.
THEOREM SourceTypeCorrect ==
  SourceSpec => []SourceTypeOK
<1>1. SourceInv => SourceTypeOK
  BY DEF SourceInv
<1> QED
  BY <1>1, SourceInvariant, PTL

\* No cast of readCsdsin, closeCsdsin or iseof fails.
THEOREM CastsSucceed ==
  SourceSpec => []NoNullCast
<1>1. SourceInv => NoNullCast
  BY DEF SourceInv, SourceTypeOK, PointerInv, NoNullCast, Castable, Kinds
<1> QED
  BY <1>1, SourceInvariant, PTL

\* iseof() of an open source means that everything was read.
THEOREM EofIsTheEnd ==
  SourceSpec => []EofMeansAll
<1>1. SourceInv => EofMeansAll
  BY DEF SourceInv, SourceTypeOK, PointerInv, CinInv, FileInv, EofMeansAll,
         genericISFunc, Left, Broken, Kinds
<1> QED
  BY <1>1, SourceInvariant, PTL

\* A read of an open source that gives nothing leaves it at eof or bad.
THEOREM LoopMeetsTheEnd ==
  SourceSpec => NothingMeansEnd
<1>1. ASSUME SourceInv, SourceInv', Reads, init, got' = <<>>
      PROVE  (genericISFunc("eof") \/ genericISFunc("bad"))'
  <2>1. PICK n \in Sizes : readCsdsin(n)
    BY <1>1 DEF Reads
  <2>2. n \in Nat \ {0}
    BY SourceAssumption
  <2>3. CASE ReadCmd(n)
    <3>1. csdsinb \in Seq(Data)
      BY <1>1 DEF SourceInv, SourceTypeOK
    <3>2. csdsinb' = <<>> /\ df' = "DFCMD"
      BY <1>1, <2>2, <2>3, <3>1, Cut DEF ReadCmd
    <3> QED BY <3>2 DEF genericISFunc
  <2>4. CASE ReadStream(n)
    <3> DEFINE rest == stream[csdsin].rest
    <3>1. csdsin \in {"ifstream", "cin"} /\ rest \in Seq(Data)
      BY <1>1, <2>4 DEF ReadStream, SourceInv, SourceTypeOK, PointerInv, Kinds
    <3>2. rest = <<>>
      BY <1>1, <2>2, <2>4, <3>1, Cut DEF ReadStream
    <3>3. Less(n, Len(rest)) < n
      BY <2>2, <3>2 DEF Less
    <3>4. stream'[csdsin].bits = {"eof", "fail"}
      BY <1>1, <2>4, <3>1, <3>3 DEF ReadStream, SourceInv, SourceTypeOK
    <3> QED
      BY <1>1, <2>4, <3>4
         DEF ReadStream, genericISFunc, SourceInv, SourceTypeOK, PointerInv,
             Castable, Kinds
  <2>5. CASE ReadNoMore
    BY <1>1, <2>5 DEF ReadNoMore, genericISFunc, SourceInv, SourceTypeOK,
                      PointerInv, CinInv, FileInv, Castable, Kinds
  <2>6. CASE ReadBreaks
    BY <1>1, <2>6 DEF ReadBreaks, genericISFunc, SourceInv, SourceTypeOK,
                      PointerInv, Castable, Kinds
  <2>7. CASE ReadUninit
    BY <1>1, <2>7 DEF ReadUninit
  <2> QED
    BY <2>1, <2>3, <2>4, <2>5, <2>6, <2>7 DEF readCsdsin
<1>2. SourceInv /\ SourceInv' /\ [SourceNext]_sourceVars
        => [Reads /\ init /\ got' = <<>> =>
              (genericISFunc("eof") \/ genericISFunc("bad"))']_sourceVars
  BY <1>1
<1> QED
  BY <1>2, SourceInvariant, PTL DEF SourceSpec, NothingMeansEnd

-----------------------------------------------------------------------------
(* The refinement.                                                         *)

LEMMA OpensRefine ==
  ASSUME SourceInv, Opens
  PROVE  [R!Next]_R!readerVars
<1> USE DEF SourceInv, SourceTypeOK, StringInv, CinInv, FileInv, PointerInv, Kinds
<1>1. PICK kind \in Kinds, data \in Contents :
        (init => kind = df) /\ initCsdsin(kind, data)
  BY DEF Opens
<1>2. data \in Seq(Data) /\ cin_closed' = cin_closed
  BY SourceAssumption DEF Opens
<1>3. CASE InitAgain(kind)
  <2>1. UNCHANGED <<df, init, csdsin, csdsinb, stream, got, cin_closed>>
    BY <1>1, <1>2, <1>3 DEF InitAgain
  <2> QED BY <2>1 DEF R!readerVars, Left, Status, Broken
<1>4. CASE InitFile(data)
  <2>1. ~init /\ init' /\ df' = "DFFILE" /\ got' = got
        /\ stream'["ifstream"] = [rest |-> data, bits |-> {}]
    BY <1>4 DEF InitFile
  <2>2. Left' = data /\ Status = "closed" /\ Status' = "open"
    BY <2>1 DEF Left, Status, Broken
  <2> QED BY <1>2, <2>1, <2>2 DEF R!Next, R!Open
<1>5. CASE InitFileFails
  BY <1>5 DEF InitFileFails, R!readerVars, Left, Status, Broken
<1>6. CASE InitStdin
  <2>1. ~init /\ init' /\ df' = "DFSTDIN" /\ got' = got /\ stream' = stream
    BY <1>6 DEF InitStdin
  <2>2. Left' \in Seq(Data) /\ Status = "closed" /\ Status' = "open"
    BY <1>2, <2>1 DEF Left, Status, Broken
  <2> QED BY <2>1, <2>2 DEF R!Next, R!Open
<1>7. CASE InitCmd(data)
  <2>1. ~init /\ init' /\ df' = "DFCMD" /\ got' = got /\ csdsinb' = data
    BY <1>7 DEF InitCmd
  <2>2. Left' = data /\ Status = "closed" /\ Status' = "open"
    BY <2>1 DEF Left, Status, Broken
  <2> QED BY <1>2, <2>1, <2>2 DEF R!Next, R!Open
<1> QED
  BY <1>1, <1>3, <1>4, <1>5, <1>6, <1>7 DEF initCsdsin

\* A piece from the front of what is left.
LEMMA PieceRefines ==
  ASSUME NEW n \in Nat \ {0}, Left \in Seq(Data), Status = "open", Status' = "open",
         got' = SubSeq(Left, 1, Less(n, Len(Left))),
         Left' = SubSeq(Left, Less(n, Len(Left)) + 1, Len(Left))
  PROVE  R!Next
<1> DEFINE k == Less(n, Len(Left))
<1>1. k \in 0..Len(Left) /\ (k = 0 => Left = <<>>)
  BY Cut
<1> HIDE DEF k
<1>2. got' = SubSeq(Left, 1, k) /\ Left' = SubSeq(Left, k + 1, Len(Left))
  BY DEF k
<1>3. R!Read
  BY <1>1, <1>2 DEF R!Read
<1> QED
  BY <1>3 DEF R!Next

LEMMA ReadsRefine ==
  ASSUME SourceInv, Reads
  PROVE  [R!Next]_R!readerVars
<1> USE DEF SourceInv, SourceTypeOK, StringInv, CinInv, FileInv, PointerInv, Kinds
<1>1. PICK n \in Sizes : readCsdsin(n)
  BY DEF Reads
<1>2. n \in Nat \ {0} /\ cin_closed' = cin_closed
  BY SourceAssumption DEF Reads
<1>3. CASE ReadCmd(n)
  <2>1. /\ Left = csdsinb /\ Left' = csdsinb' /\ Status = "open" /\ Status' = "open"
    BY <1>3 DEF ReadCmd, Left, Status, Broken
  <2> QED BY <1>2, <1>3, <2>1, PieceRefines DEF ReadCmd
<1>4. CASE ReadStream(n)
  <2>1. csdsin \in {"ifstream", "cin"}
    BY <1>4 DEF ReadStream
  <2>2. /\ Left = stream[csdsin].rest /\ Left' = stream'[csdsin].rest
        /\ Status = "open" /\ Status' = "open"
    <3>1. CASE df = "DFFILE"
      BY <1>4, <3>1 DEF ReadStream, Left, Status, Broken
    <3>2. CASE df = "DFSTDIN"
      BY <1>2, <1>4, <3>2 DEF ReadStream, Left, Status, Broken
    <3> QED BY <1>4, <3>1, <3>2 DEF ReadStream
  <2>3. stream'[csdsin].rest
          = SubSeq(Left, Less(n, Len(Left)) + 1, Len(Left))
    BY <1>4, <2>1, <2>2 DEF ReadStream
  <2> QED BY <1>2, <1>4, <2>1, <2>2, <2>3, PieceRefines DEF ReadStream
<1>5. CASE ReadNoMore
  <2>1. got' = <<>> /\ init /\ UNCHANGED <<df, init, csdsin, csdsinb, cin_closed>>
        /\ csdsin \in {"ifstream", "cin"} /\ stream[csdsin].bits # {}
        /\ stream' = [stream EXCEPT ![csdsin].bits = @ \cup {"fail"}]
    BY <1>2, <1>5 DEF ReadNoMore
  <2>2. Left = <<>> /\ Left' = <<>> /\ Status' = Status
    BY <1>5, <2>1 DEF ReadNoMore, Left, Status, Broken
  <2>3. CASE Status = "open"
    <3>1. got' = SubSeq(Left, 1, 0) /\ Left' = SubSeq(Left, 0 + 1, Len(Left))
      BY <2>1, <2>2
    <3> QED BY <2>2, <2>3, <3>1 DEF R!Next, R!Read
  <2>4. CASE Status # "open"
    BY <2>1, <2>2, <2>4 DEF R!Next, R!ReadNothing
  <2> QED BY <2>3, <2>4
<1>6. CASE ReadBreaks
  <2>1. got' = <<>> /\ Left' = <<>> /\ Status = "open" /\ Status' = "broken"
    BY <1>2, <1>6 DEF ReadBreaks, Left, Status, Broken
  <2> QED BY <2>1 DEF R!Next, R!Break
<1>7. CASE ReadUninit
  <2>1. got' = <<>> /\ Left' = Left /\ Status' = Status /\ Status # "open"
    BY <1>2, <1>7 DEF ReadUninit, Left, Status, Broken
  <2> QED BY <2>1 DEF R!Next, R!ReadNothing
<1> QED
  BY <1>1, <1>3, <1>4, <1>5, <1>6, <1>7 DEF readCsdsin

LEMMA ClosesRefine ==
  ASSUME SourceInv, Closes
  PROVE  [R!Next]_R!readerVars
<1>1. init /\ ~init' /\ got' = got
  BY DEF Closes, CloseCsdsin
<1>2. Status # "closed" /\ Status' = "closed" /\ Left' = <<>>
  BY <1>1 DEF Status, Left
<1> QED
  BY <1>1, <1>2 DEF R!Next, R!Close

LEMMA DestroysRefine ==
  ASSUME SourceInv, Destroys
  PROVE  [R!Next]_R!readerVars
<1>1. ~init' /\ got' = got
  BY DEF Destroys, DestroyCsdsin
<1>2. Status' = "closed" /\ Left' = <<>>
  BY <1>1 DEF Status, Left
<1>3. CASE init
  <2>1. Status # "closed"
    BY <1>3 DEF Status
  <2> QED BY <1>1, <1>2, <2>1 DEF R!Next, R!Close
<1>4. CASE ~init
  <2>1. Status = "closed" /\ Left = <<>>
    BY <1>4 DEF Status, Left
  <2> QED BY <1>1, <1>2, <2>1 DEF R!readerVars
<1> QED
  BY <1>3, <1>4

\* The data source implements Reader.
THEOREM SourceImplementsReader ==
  SourceSpec => ImplementsReader
<1>1. SourceInit => R!Init
  BY DEF SourceInit, CsdsinInit, R!Init, Left, Status
<1>2. SourceInv /\ [SourceNext]_sourceVars => [R!Next]_R!readerVars
  <2>1. ASSUME SourceInv, OpensNull PROVE [R!Next]_R!readerVars
    BY <2>1 DEF OpensNull, InitCmdNull, R!readerVars, Left, Status, Broken
  <2>2. ASSUME UNCHANGED sourceVars PROVE [R!Next]_R!readerVars
    BY <2>2 DEF sourceVars, csdsinVars, R!readerVars, Left, Status, Broken
  <2> QED
    BY <2>1, <2>2, OpensRefine, ReadsRefine, ClosesRefine, DestroysRefine
       DEF SourceNext
<1> QED
  BY <1>1, <1>2, SourceInvariant, PTL DEF SourceSpec, ImplementsReader, R!Spec

=============================================================================
