-------------------------- MODULE ShmPublish_proofs --------------------------
(***************************************************************************)
(* What holds of ShmPublish for every size of the segment, every set of    *)
(* addresses and every text that fits, however many times the engine runs  *)
(* and wherever it is killed.                                              *)
(***************************************************************************)
EXTENDS ShmPublish, SequenceTheorems, TLAPS

-----------------------------------------------------------------------------
(* The inductive invariant.                                                *)

\* Who has got how far knows how long the segment is.
Sized == /\ wrpc \in {"sized", "writing"} => segSize = ShmSize
         /\ wrpc = "opened" => segSize # Absent
         /\ rdpc = "reading" => segSize = ShmSize
         /\ last # NoAddr => segSize = ShmSize
         /\ outcome.kind = "address" /\ outcome # Empty => segSize = ShmSize

\* What snprintf has written so far is in the segment.
Writing == /\ wrpc # "idle" => wAddr \in Addrs
           /\ wrpc \in {"opened", "sized"} => put = 0
           /\ wrpc = "writing" => /\ ~intact
                                 /\ put <= Len(Text[wAddr])
                                 /\ \A i \in 1..put : content[i] = Text[wAddr][i]

\* The characters m hold the address a.
Holds(m, a) == IF a = NoAddr THEN \A i \in Cells : m[i] = Nul
               ELSE /\ \A i \in 1..Len(Text[a]) : m[i] = Text[a][i]
                    /\ m[Len(Text[a]) + 1] = Nul

\* An intact segment holds the address written last.
Content == intact => Holds(content, last)

\* A clean reader has copied the segment as it is.
Copied == clean => /\ rdpc = "reading"
                   /\ intact
                   /\ \A i \in 1..Len(rBuf) : rBuf[i] = content[i]

IInv == PublishTypeOK /\ Sized /\ Writing /\ Content /\ Copied

-----------------------------------------------------------------------------
(* Lemmas about the operators.                                             *)

\* NUL is a character, and a failure is an outcome.
LEMMA Basics ==
    /\ Nul \in Chars
    /\ <<>> \in Seq(Chars) /\ Len(<<>>) = 0
    /\ \A error \in {"address", "FileNotFoundError", "ValueError"} :
          [kind |-> error, ip |-> <<>>, port |-> <<>>] \in Outcomes
<1>1. Nul \in Chars
  BY DEF Chars
<1>2. <<>> \in Seq(Chars) /\ Len(<<>>) = 0
  BY EmptySeq
<1> QED
  BY <1>1, <1>2 DEF Outcomes

\* The characters of an address are characters, none of them NUL, and they fit.
LEMMA Texts ==
    ASSUME NEW a \in Addrs
    PROVE  /\ Text[a] \in Seq(Chars)
           /\ Len(Text[a]) \in 0..(ShmSize - 1)
           /\ \A i \in 1..Len(Text[a]) : Text[a][i] \in Chars /\ Text[a][i] # Nul
<1>1. Text[a] \in Seq(Chars \ {Nul}) /\ Len(Text[a]) < ShmSize
  BY TextAssumption
<1>2. Text[a] \in Seq(Chars)
  BY <1>1, SeqMonotonic
<1>3. Len(Text[a]) \in Nat
  BY <1>1, LenProperties
<1>4. \A i \in 1..Len(Text[a]) : Text[a][i] \in Chars \ {Nul}
  BY <1>1, ElementOfSeq
<1> QED
  BY <1>1, <1>2, <1>3, <1>4, TextAssumption

\* A part of a text is a text.
LEMMA Part ==
    ASSUME NEW s \in Seq(Chars), NEW m \in Nat \ {0}, NEW n \in Int, n <= Len(s)
    PROVE  SubSeq(s, m, n) \in Seq(Chars)
<1>1. Len(s) \in Nat
  BY LenProperties
<1>2. \A i \in m..n : s[i] \in Chars
  <2> TAKE i \in m..n
  <2>1. i \in 1..Len(s)
    BY <1>1
  <2> QED
    BY <2>1, ElementOfSeq
<1> QED
  BY <1>2, SubSeqProperties

\* What comes before the first NUL is text.
LEMMA UpToNulType ==
    ASSUME NEW s \in Seq(Chars)
    PROVE  UpToNul(s) \in Seq(Chars)
<1> DEFINE ends == {i \in DOMAIN s : s[i] = Nul /\ \A j \in 1..(i - 1) : s[j] # Nul}
<1>1. CASE ends = {}
  BY <1>1 DEF UpToNul
<1>2. CASE ends # {}
  <2> DEFINE e == CHOOSE i \in ends : TRUE
  <2>1. e \in ends
    BY <1>2
  <2>2. e \in 1..Len(s) /\ Len(s) \in Nat
    BY <2>1, LenProperties
  <2>3. UpToNul(s) = SubSeq(s, 1, e - 1)
    BY <1>2 DEF UpToNul
  <2> HIDE DEF e, ends
  <2>4. e - 1 \in Int /\ e - 1 <= Len(s)
    BY <2>2
  <2> QED
    BY <2>3, <2>4, Part
<1> QED
  BY <1>1, <1>2

\* A reader always returns a tuple.
LEMMA ParseType ==
    ASSUME NEW raw \in Seq(Chars)
    PROVE  Parse(raw) \in Outcomes /\ Parse(raw).kind = "address"
<1> DEFINE colons == {i \in DOMAIN raw : raw[i] = Colon /\ \A j \in 1..(i - 1) : raw[j] # Colon}
<1>1. <<>> \in Seq(Chars)
  BY EmptySeq
<1>2. CASE colons = {}
  BY <1>1, <1>2 DEF Parse, Empty, Outcomes
<1>3. CASE colons # {}
  <2> DEFINE c == CHOOSE i \in colons : TRUE
             port == SubSeq(raw, c + 1, Len(raw))
  <2>1. c \in colons
    BY <1>3
  <2>2. c \in 1..Len(raw) /\ Len(raw) \in Nat
    BY <2>1, LenProperties
  <2>3. Parse(raw) = [kind |-> "address", ip |-> SubSeq(raw, 1, c - 1), port |-> PortOf(port)]
    BY <1>3 DEF Parse
  <2> HIDE DEF c, colons
  <2>4. SubSeq(raw, 1, c - 1) \in Seq(Chars)
    <3>1. c - 1 \in Int /\ c - 1 <= Len(raw)
      BY <2>2
    <3> QED
      BY <3>1, Part
  <2>5. port \in Seq(Chars)
    <3>1. c + 1 \in Nat \ {0}
      BY <2>2
    <3> QED
      BY <2>2, <3>1, Part
  <2>6. PortOf(port) \in Seq(Chars)
    BY <1>1, <2>5 DEF PortOf
  <2> HIDE DEF port
  <2> QED
    BY <2>3, <2>4, <2>6 DEF Outcomes
<1> QED
  BY <1>2, <1>3

\* A copy of a segment that holds an address is cut to its text.
LEMMA CutCopy ==
    ASSUME NEW s \in Seq(Chars), Len(s) = ShmSize, NEW a \in Addrs, Holds(s, a)
    PROVE  UpToNul(s) = Text[a]
<1> DEFINE n    == Len(Text[a])
           ends == {i \in DOMAIN s : s[i] = Nul /\ \A j \in 1..(i - 1) : s[j] # Nul}
<1>1. /\ n \in 0..(ShmSize - 1) /\ ShmSize \in Nat
      /\ \A i \in 1..n : s[i] = Text[a][i] /\ s[i] # Nul
      /\ s[n + 1] = Nul
  BY Texts, TextAssumption DEF Holds
<1>2. DOMAIN s = 1..ShmSize
  BY LenProperties
<1>3. ends = {n + 1}
  <2> HIDE DEF n
  <2>1. n + 1 \in ends
    BY <1>1, <1>2
  <2>2. ASSUME NEW i \in ends
        PROVE  i = n + 1
    <3>1. i \in 1..ShmSize /\ s[i] = Nul /\ \A j \in 1..(i - 1) : s[j] # Nul
      BY <1>2
    <3>2. ~(i \in 1..n)
      BY <1>1, <3>1
    <3>3. ~(n + 1 \in 1..(i - 1))
      BY <1>1, <3>1
    <3> QED
      BY <1>1, <3>1, <3>2, <3>3
  <2> QED
    BY <2>1, <2>2
<1>4. (CHOOSE i \in ends : TRUE) = n + 1
  BY <1>3
<1>5. UpToNul(s) = SubSeq(s, 1, n + 1 - 1)
  BY <1>3, <1>4 DEF UpToNul
<1>6. UpToNul(s) = SubSeq(s, 1, n)
  BY <1>1, <1>5
<1>7. \A i \in 1..n : s[i] \in Chars
  BY <1>1, <1>2, ElementOfSeq
<1>8. /\ SubSeq(s, 1, n) \in Seq(Chars)
      /\ Len(SubSeq(s, 1, n)) = IF 1 <= n THEN n - 1 + 1 ELSE 0
      /\ \A i \in 1..(n - 1 + 1) : SubSeq(s, 1, n)[i] = s[1 + i - 1]
  <2> HIDE DEF n
  <2> QED
    BY <1>1, <1>7, SubSeqProperties
<1>9. Len(SubSeq(s, 1, n)) = n /\ \A i \in 1..n : SubSeq(s, 1, n)[i] = s[i]
  <2> HIDE DEF n
  <2> QED
    BY <1>1, <1>8
<1> QED
  BY <1>1, <1>6, <1>8, <1>9, Texts, SeqEqual

\* A copy of a segment nothing was written to is read as no address.
LEMMA CutNothing ==
    ASSUME NEW s \in Seq(Chars), Len(s) = ShmSize, Holds(s, NoAddr)
    PROVE  Parse(UpToNul(s)) = Empty
<1> DEFINE ends == {i \in DOMAIN s : s[i] = Nul /\ \A j \in 1..(i - 1) : s[j] # Nul}
<1>1. DOMAIN s = 1..ShmSize /\ ShmSize \in Nat \ {0}
  BY LenProperties, TextAssumption
<1>2. \A i \in 1..ShmSize : s[i] = Nul
  BY DEF Holds, Cells
<1>3. ends = {1}
  BY <1>1, <1>2
<1>4. UpToNul(s) = SubSeq(s, 1, 1 - 1)
  BY <1>3 DEF UpToNul
<1>5. UpToNul(s) = <<>>
  BY <1>4, SubSeqEmpty
<1>6. DOMAIN <<>> = {}
  OBVIOUS
<1> QED
  BY <1>5, <1>6 DEF Parse

-----------------------------------------------------------------------------
(* The invariant is inductive.                                             *)

\* The inductive invariant holds initially.
LEMMA IInvInit == PublishInit => IInv
<1> SUFFICES ASSUME PublishInit PROVE IInv
  OBVIOUS
<1>2. PublishTypeOK
  <2>1. Empty \in Outcomes
    BY Basics DEF Empty
  <2>2. content \in [Cells -> Chars]
    BY Basics DEF PublishInit
  <2>3. rBuf \in Seq(Chars) /\ Len(rBuf) <= ShmSize
    BY Basics, TextAssumption DEF PublishInit
  <2>4. put \in 0..(ShmSize - 1) /\ runs \in 0..MaxRuns
    BY TextAssumption DEF PublishInit
  <2> QED
    BY <2>1, <2>2, <2>3, <2>4 DEF PublishInit, PublishTypeOK
<1>3. Sized /\ Writing /\ Content /\ Copied
  BY DEF PublishInit, Sized, Writing, Content, Copied, Holds, NoAddr, Empty
<1> QED
  BY <1>2, <1>3 DEF IInv

\* The writer's steps.
LEMMA WriterKeeps ==
    ASSUME IInv, write_shared_memory
    PROVE  IInv'
<1>0. /\ segSize \in {Absent, 0, ShmSize} /\ ShmSize \in Nat \ {0} /\ Nul \in Chars
      /\ content \in [Cells -> Chars] /\ runs \in 0..MaxRuns /\ MaxRuns \in Nat
  BY TextAssumption, Basics DEF IInv, PublishTypeOK
<1>1. CASE OpenToWrite
  <2>1. PublishTypeOK'
    BY <1>0, <1>1 DEF OpenToWrite, IInv, PublishTypeOK, readerVars
  <2>2. Sized' /\ Writing' /\ Content' /\ Copied'
    BY <1>0, <1>1 DEF OpenToWrite, IInv, Sized, Writing, Content, Copied, Holds, readerVars, Absent, Empty
  <2> QED
    BY <2>1, <2>2 DEF IInv
<1>2. CASE SetSize
  <2>1. PublishTypeOK'
    BY <1>0, <1>2 DEF SetSize, IInv, PublishTypeOK, readerVars
  <2>2. Sized' /\ Writing'
    BY <1>0, <1>2 DEF SetSize, IInv, Sized, Writing, readerVars, Absent, Empty
  <2>3. CASE segSize = 0
    <3>1. last = NoAddr /\ rdpc # "reading"
      BY <1>0, <2>3 DEF IInv, Sized
    <3>2. Content' /\ Copied'
      BY <1>2, <2>3, <3>1 DEF SetSize, IInv, Content, Copied, Holds, readerVars
    <3> QED
      BY <2>1, <2>2, <3>2 DEF IInv
  <2>4. CASE segSize # 0
    BY <1>2, <2>1, <2>2, <2>4 DEF SetSize, IInv, Content, Copied, Holds, readerVars
  <2> QED
    BY <2>3, <2>4
<1>3. CASE BeginPrint
  <2>1. PublishTypeOK'
    BY <1>3 DEF BeginPrint, IInv, PublishTypeOK, shm
  <2>2. Writing'
    <3>1. wAddr \in Addrs /\ put = 0
      BY <1>3 DEF BeginPrint, IInv, Writing
    <3>2. Len(Text[wAddr]) \in Nat
      BY <3>1, Texts
    <3> QED
      BY <1>3, <3>1, <3>2 DEF BeginPrint, Writing, shm
  <2>3. Sized' /\ Content' /\ Copied'
    BY <1>3 DEF BeginPrint, IInv, Sized, Content, Copied, shm, Empty
  <2> QED
    BY <2>1, <2>2, <2>3 DEF IInv
<1>4. CASE PutChar
  <2>1. /\ wAddr \in Addrs /\ put \in Nat /\ put < Len(Text[wAddr]) /\ ~intact
        /\ content' = [content EXCEPT ![put + 1] = Text[wAddr][put + 1]] /\ put' = put + 1
        /\ \A i \in 1..put : content[i] = Text[wAddr][i]
    BY <1>4 DEF PutChar, IInv, Writing, PublishTypeOK
  <2>2. Len(Text[wAddr]) \in 0..(ShmSize - 1) /\ Text[wAddr][put + 1] \in Chars
    BY <2>1, Texts
  <2>3. put + 1 \in Cells /\ put' \in 0..(ShmSize - 1) /\ put' <= Len(Text[wAddr])
    BY <1>0, <2>1, <2>2 DEF Cells
  <2>4. content' \in [Cells -> Chars]
    BY <1>0, <2>1, <2>2
  <2>5. \A i \in 1..put' : content'[i] = Text[wAddr][i]
    <3> TAKE i \in 1..put'
    <3>1. i \in Cells /\ (i = put + 1 \/ i \in 1..put)
      BY <1>0, <2>1, <2>3 DEF Cells
    <3> QED
      BY <1>0, <2>1, <3>1
  <2>6. PublishTypeOK'
    BY <1>4, <2>3, <2>4 DEF PutChar, IInv, PublishTypeOK, readerVars
  <2>7. Sized'
    BY <1>4 DEF PutChar, IInv, Sized, readerVars, Empty
  <2>8. Writing'
    BY <1>4, <2>1, <2>3, <2>5 DEF PutChar, Writing
  <2>9. Content' /\ Copied'
    BY <1>4, <2>1 DEF PutChar, IInv, Content, Copied, readerVars
  <2> QED
    BY <2>6, <2>7, <2>8, <2>9 DEF IInv
<1>5. CASE PutNul
  <2>1. /\ wAddr \in Addrs /\ put = Len(Text[wAddr]) /\ ~intact
        /\ content' = [content EXCEPT ![put + 1] = Nul]
        /\ \A i \in 1..put : content[i] = Text[wAddr][i]
    BY <1>5 DEF PutNul, IInv, Writing
  <2>2. put \in 0..(ShmSize - 1) /\ put + 1 \in Cells
    BY <1>0, <2>1, Texts DEF Cells
  <2>3. content' \in [Cells -> Chars]
    BY <1>0, <2>1
  <2>4. Holds(content', wAddr)
    <3>1. content'[put + 1] = Nul
      BY <1>0, <2>1, <2>2
    <3>2. \A i \in 1..put : content'[i] = Text[wAddr][i]
      <4> TAKE i \in 1..put
      <4>1. i \in Cells /\ i # put + 1
        BY <1>0, <2>2 DEF Cells
      <4> QED
        BY <1>0, <2>1, <4>1
    <3>3. wAddr # NoAddr
      BY <2>1, TextAssumption
    <3> QED
      BY <2>1, <3>1, <3>2, <3>3 DEF Holds
  <2>5. PublishTypeOK'
    BY <1>5, <2>1, <2>3 DEF PutNul, IInv, PublishTypeOK, readerVars
  <2>6. Sized' /\ Writing'
    BY <1>5, <2>1 DEF PutNul, IInv, Sized, Writing, readerVars, Empty
  <2>7. Content'
    BY <1>5, <2>4 DEF PutNul, Content
  <2>8. Copied'
    BY <1>5, <2>1 DEF PutNul, IInv, Copied, readerVars
  <2> QED
    BY <2>5, <2>6, <2>7, <2>8 DEF IInv
<1>6. CASE WriterDies
  <2>1. PublishTypeOK'
    BY <1>6 DEF WriterDies, IInv, PublishTypeOK, shm, readerVars
  <2>2. Sized' /\ Writing' /\ Content' /\ Copied'
    BY <1>6 DEF WriterDies, IInv, Sized, Writing, Content, Copied, Holds, shm, readerVars, Empty
  <2> QED
    BY <2>1, <2>2 DEF IInv
<1> QED
  BY <1>1, <1>2, <1>3, <1>4, <1>5, <1>6 DEF write_shared_memory

\* The reader's steps leave the segment and the writer alone.
LEMMA ReaderKeeps ==
    ASSUME IInv, read_ip_port
    PROVE  IInv'
<1>0. /\ UNCHANGED <<shm, writerVars, last, intact>>
      /\ segSize \in {Absent, 0, ShmSize} /\ ShmSize \in Nat \ {0}
      /\ content \in [Cells -> Chars]
      /\ rBuf \in Seq(Chars) /\ Len(rBuf) \in Nat /\ Len(rBuf) <= ShmSize
      /\ <<>> \in Seq(Chars) /\ Len(<<>>) = 0
  <2>1. UNCHANGED <<shm, writerVars, last, intact>>
    BY DEF read_ip_port, OpenShm, MapToRead, GetChar, Return
  <2>2. rBuf \in Seq(Chars) /\ Len(rBuf) <= ShmSize
    BY DEF IInv, PublishTypeOK
  <2> QED
    BY <2>1, <2>2, TextAssumption, LenProperties, EmptySeq DEF IInv, PublishTypeOK
<1>1. Writing' /\ Content'
  BY <1>0 DEF IInv, Writing, Content, Holds, shm, writerVars
<1>2. ASSUME rdpc' \in {"idle", "opened", "reading"}, rBuf' \in Seq(Chars), Len(rBuf') <= ShmSize,
             outcome' \in Outcomes, clean' \in BOOLEAN,
             rdpc' = "reading" => segSize = ShmSize,
             outcome'.kind = "address" /\ outcome' # Empty => segSize = ShmSize,
             Copied'
      PROVE  IInv'
  <2>1. PublishTypeOK'
    BY <1>0, <1>2 DEF IInv, PublishTypeOK, shm, writerVars
  <2>2. Sized'
    BY <1>0, <1>2 DEF IInv, Sized, shm, writerVars, Empty
  <2> QED
    BY <1>1, <1>2, <2>1, <2>2 DEF IInv
<1>3. CASE OpenShm
  <2>1. outcome' \in Outcomes /\ (outcome' = outcome \/ outcome'.kind # "address")
    <3>1. CASE segSize = Absent
      BY <1>3, <3>1, Basics DEF OpenShm, Fail
    <3>2. CASE segSize # Absent
      BY <1>3, <3>2 DEF OpenShm, IInv, PublishTypeOK
    <3> QED
      BY <3>1, <3>2
  <2>2. rdpc # "reading" /\ ~clean /\ ~clean'
    BY <1>3 DEF OpenShm, IInv, Copied
  <2> QED
    BY <1>0, <1>2, <1>3, <2>1, <2>2 DEF OpenShm, IInv, PublishTypeOK, Sized, Copied
<1>4. CASE MapToRead
  <2>1. outcome' \in Outcomes /\ (outcome' = outcome \/ outcome'.kind # "address")
    <3>1. CASE segSize < ShmSize
      BY <1>4, <3>1, Basics DEF MapToRead, Fail
    <3>2. CASE ~(segSize < ShmSize)
      BY <1>4, <3>2 DEF MapToRead, IInv, PublishTypeOK
    <3> QED
      BY <3>1, <3>2
  <2>2. rBuf' = <<>> /\ rdpc' \in {"idle", "reading"} /\ (rdpc' = "reading" => segSize = ShmSize)
    BY <1>0, <1>4 DEF MapToRead, Absent
  <2>3. clean' \in BOOLEAN /\ (clean' => intact /\ rdpc' = "reading")
    BY <1>4 DEF MapToRead, IInv, PublishTypeOK, Copied
  <2>4. Copied'
    BY <1>0, <2>2, <2>3 DEF Copied
  <2> QED
    BY <1>0, <1>2, <2>1, <2>2, <2>3, <2>4 DEF IInv, Sized
<1>5. CASE GetChar
  <2>1. rBuf' = Append(rBuf, content[Len(rBuf) + 1]) /\ Len(rBuf) + 1 \in Cells
    BY <1>0, <1>5 DEF GetChar, Cells
  <2>2. content[Len(rBuf) + 1] \in Chars
    BY <1>0, <2>1
  <2>3. /\ rBuf' \in Seq(Chars) /\ Len(rBuf') = Len(rBuf) + 1
        /\ \A i \in 1..Len(rBuf) : rBuf'[i] = rBuf[i]
        /\ rBuf'[Len(rBuf) + 1] = content[Len(rBuf) + 1]
    BY <1>0, <2>1, <2>2, AppendProperties
  <2>4. Len(rBuf') <= ShmSize
    BY <1>0, <2>1, <2>3 DEF Cells
  <2>5. Copied'
    <3> SUFFICES ASSUME clean, NEW i \in 1..Len(rBuf')
                 PROVE  rdpc = "reading" /\ intact /\ rBuf'[i] = content[i]
      BY <1>0, <1>5 DEF GetChar, Copied, shm
    <3>1. rdpc = "reading" /\ intact /\ \A j \in 1..Len(rBuf) : rBuf[j] = content[j]
      BY DEF IInv, Copied
    <3>2. i \in 1..Len(rBuf) \/ i = Len(rBuf) + 1
      BY <1>0, <2>3
    <3> QED
      BY <2>3, <3>1, <3>2
  <2> QED
    BY <1>2, <1>5, <2>3, <2>4, <2>5 DEF GetChar, IInv, PublishTypeOK, Sized
<1>6. CASE Return
  <2>1. outcome' = Parse(UpToNul(rBuf)) /\ rdpc = "reading" /\ rdpc' = "idle"
        /\ rBuf' = <<>> /\ clean' = FALSE
    BY <1>6 DEF Return
  <2>2. outcome' \in Outcomes
    BY <1>0, <2>1, UpToNulType, ParseType
  <2>3. segSize = ShmSize
    BY <2>1 DEF IInv, Sized
  <2>4. Copied'
    BY <2>1 DEF Copied
  <2>5. clean' \in BOOLEAN /\ rdpc' \in {"idle", "opened", "reading"} /\ rdpc' # "reading"
    BY <2>1
  <2>6. rBuf' \in Seq(Chars) /\ Len(rBuf') <= ShmSize
    BY <1>0, <2>1
  <2> QED
    BY <1>2, <2>2, <2>3, <2>4, <2>5, <2>6
<1> QED
  BY <1>3, <1>4, <1>5, <1>6 DEF read_ip_port

\* Every step preserves it.
LEMMA IInvNext == IInv /\ [PublishNext]_publishVars => IInv'
<1>1. IInv /\ UNCHANGED publishVars => IInv'
  BY DEF publishVars, shm, writerVars, readerVars, IInv, PublishTypeOK, Sized, Writing, Content, Copied, Holds, Empty
<1> QED
  BY <1>1, WriterKeeps, ReaderKeeps DEF PublishNext

\* It is an invariant.
LEMMA Invariance == PublishSpec => []IInv
  BY IInvInit, IInvNext, PTL DEF PublishSpec

-----------------------------------------------------------------------------
(* The theorems.                                                           *)

\* Every variable keeps its type; in particular neither side ever goes beyond the
\* end of the segment.
THEOREM TypeCorrect == PublishSpec => []PublishTypeOK
  BY Invariance, PTL DEF IInv

\* Once an address was published no read fails.
THEOREM NeverFailsAgain == PublishSpec => NoErrorOncePublished
<1>1. IInv /\ IInv' /\ [PublishNext]_publishVars =>
        [last # NoAddr => (outcome' # outcome => outcome'.kind = "address")]_publishVars
  <2> SUFFICES ASSUME IInv, IInv', PublishNext, last # NoAddr, outcome' # outcome
               PROVE  outcome'.kind = "address"
    OBVIOUS
  <2>1. segSize = ShmSize /\ ShmSize \in Nat \ {0}
    BY TextAssumption DEF IInv, Sized
  <2>2. Return
    BY <2>1 DEF PublishNext, write_shared_memory, OpenToWrite, SetSize, BeginPrint, PutChar, PutNul, WriterDies,
                read_ip_port, OpenShm, MapToRead, GetChar, readerVars, Absent
  <2> QED
    BY <2>2, UpToNulType, ParseType DEF Return, IInv, PublishTypeOK
<1> QED
  BY <1>1, Invariance, PTL DEF PublishSpec, NoErrorOncePublished

\* A step that reads or writes nothing of the register is a stutter: its result
\* stays what it was, since what fails is read before anything was.
LEMMA SilentStep ==
    ASSUME IInv, UNCHANGED <<last, intact, clean>>, (rdpc = "reading") <=> (rdpc' = "reading"),
           \/ outcome' = outcome
           \/ segSize # ShmSize /\ outcome'.kind # "address"
    PROVE  UNCHANGED Register!vars
<1>1. (IF outcome.kind = "address" THEN outcome ELSE Empty)' =
       (IF outcome.kind = "address" THEN outcome ELSE Empty)
  BY DEF IInv, Sized, Empty
<1>2. (rdpc = "reading")' = (rdpc = "reading")
  OBVIOUS
<1> QED
  BY <1>1, <1>2 DEF Register!vars

\* Every step of the writer and the reader is a step of a safe register.
LEMMA StepRefines ==
    ASSUME IInv, IInv', [PublishNext]_publishVars
    PROVE  [Register!Next]_(Register!vars)
<1>0. /\ segSize \in {Absent, 0, ShmSize} /\ ShmSize \in Nat \ {0}
      /\ intact \in BOOLEAN /\ clean \in BOOLEAN /\ clean' \in BOOLEAN
  BY TextAssumption DEF IInv, PublishTypeOK
<1>1. CASE UNCHANGED publishVars
  BY <1>1, SilentStep DEF publishVars, readerVars
<1>2. CASE OpenToWrite \/ SetSize \/ PutChar \/ WriterDies
  BY <1>2, SilentStep DEF OpenToWrite, SetSize, PutChar, WriterDies, readerVars
<1>3. CASE BeginPrint
  <2>1. Register!BeginWrite
    BY <1>3 DEF BeginPrint, Register!BeginWrite
  <2> QED
    BY <2>1 DEF Register!Next
<1>4. CASE PutNul
  <2>1. wAddr \in Addrs /\ ~intact
    BY <1>4 DEF PutNul, IInv, Writing
  <2>2. Register!EndWrite(wAddr)
    BY <1>4, <2>1 DEF PutNul, Register!EndWrite, readerVars
  <2> QED
    BY <2>1, <2>2 DEF Register!Next
<1>5. CASE OpenShm
  <2>1. outcome' = outcome \/ (segSize # ShmSize /\ outcome'.kind # "address")
    BY <1>0, <1>5 DEF OpenShm, Fail, Absent
  <2>2. UNCHANGED <<last, intact, clean>> /\ rdpc # "reading" /\ rdpc' # "reading"
    BY <1>5 DEF OpenShm
  <2> QED
    BY <2>1, <2>2, SilentStep
<1>6. CASE MapToRead
  <2>1. CASE segSize < ShmSize
    <3>1. segSize # ShmSize /\ outcome'.kind # "address" /\ rdpc # "reading" /\ rdpc' # "reading"
      BY <1>0, <1>6, <2>1 DEF MapToRead, Fail
    <3>2. UNCHANGED <<last, intact, clean>>
      BY <1>6, <2>1 DEF MapToRead
    <3> QED
      BY <3>1, <3>2, SilentStep
  <2>2. CASE ~(segSize < ShmSize)
    <3>1. Register!BeginRead
      BY <1>6, <2>2 DEF MapToRead, Register!BeginRead
    <3> QED
      BY <3>1 DEF Register!Next
  <2> QED
    BY <2>1, <2>2
<1>7. CASE GetChar
  BY <1>7, SilentStep DEF GetChar
<1>8. CASE Return
  <2>1. /\ rBuf \in Seq(Chars) /\ Len(rBuf) = ShmSize /\ outcome' = Parse(UpToNul(rBuf))
        /\ rdpc = "reading" /\ rdpc' = "idle" /\ clean' = FALSE /\ UNCHANGED <<last, intact>>
    BY <1>8 DEF Return, IInv, PublishTypeOK
  <2>2. outcome' \in Outcomes /\ outcome'.kind = "address"
    BY <2>1, UpToNulType, ParseType
  <2>3. ASSUME clean
        PROVE  outcome' = ResultOf(last)
    <3>1. last \in Addrs \union {NoAddr} /\ Holds(content, last)
      BY <2>3 DEF IInv, PublishTypeOK, Content, Copied
    <3>2. \A i \in 1..ShmSize : rBuf[i] = content[i]
      BY <2>1, <2>3 DEF IInv, Copied
    <3>3. Holds(rBuf, last)
      <4>1. CASE last = NoAddr
        BY <3>1, <3>2, <4>1 DEF Holds, Cells
      <4>2. CASE last # NoAddr
        <5>1. last \in Addrs /\ Len(Text[last]) \in 0..(ShmSize - 1)
          BY <3>1, <4>2, Texts
        <5>2. \A i \in 1..(Len(Text[last]) + 1) : rBuf[i] = content[i]
          BY <1>0, <3>2, <5>1
        <5>3. Len(Text[last]) + 1 \in 1..(Len(Text[last]) + 1)
          BY <5>1
        <5> QED
          BY <3>1, <4>2, <5>1, <5>2, <5>3 DEF Holds
      <4> QED
        BY <4>1, <4>2
    <3>4. CASE last = NoAddr
      BY <2>1, <3>3, <3>4, CutNothing DEF ResultOf
    <3>5. CASE last # NoAddr
      BY <2>1, <3>1, <3>3, <3>5, CutCopy DEF ResultOf
    <3> QED
      BY <3>4, <3>5
  <2>4. Register!EndRead
    BY <2>1, <2>2, <2>3 DEF Register!EndRead
  <2> QED
    BY <2>4 DEF Register!Next
<1> QED
  BY <1>1, <1>2, <1>3, <1>4, <1>5, <1>6, <1>7, <1>8 DEF PublishNext, write_shared_memory, read_ip_port

\* The segment, its writer and its reader are a safe register: a read that no
\* write overlaps returns the address whose write was completed last.
THEOREM SegmentIsRegister == PublishSpec => ImplementsRegister
<1>1. PublishInit => Register!Init
  <2> SUFFICES ASSUME PublishInit PROVE Register!Init
    OBVIOUS
  <2>1. Empty \in Outcomes /\ outcome = Empty
    BY EmptySeq DEF PublishInit, Empty, Outcomes
  <2> QED
    BY <2>1 DEF PublishInit, Register!Init
<1>2. IInv /\ IInv' /\ [PublishNext]_publishVars => [Register!Next]_(Register!vars)
  BY StepRefines
<1> QED
  BY <1>1, <1>2, Invariance, PTL DEF PublishSpec, ImplementsRegister, Register!Spec
=============================================================================
