----------------------------- MODULE ShmPublish -----------------------------
(***************************************************************************)
(* The shared memory segment /natghost_shm: write_shared_memory of         *)
(* kernel/memory_pool_optimization.c writes "IP:PORT" into it, and         *)
(* read_ip_port of core/udp_flooder.py and core/adaptive_probe.py reads it *)
(* back.  The two are separate processes with no lock between them; the    *)
(* segment outlives both, and either may run at any time, many times, or   *)
(* be killed at any step.                                                  *)
(*                                                                         *)
(* Both sides go through the segment in ascending order, one character at  *)
(* a time; copying larger units only leaves interleavings out.             *)
(***************************************************************************)
EXTENDS Integers, Sequences

CONSTANTS Addrs,        \* addresses a run of the engine may publish
          Text,         \* Text[a]: the characters of "IP:PORT"
          Digits,       \* the characters int() takes
          Colon, Nul,   \* ':' and the terminating NUL
          ShmSize,      \* SHM_SIZE
          MaxRuns       \* bound: runs of write_shared_memory

Chars == (UNION {{Text[a][i] : i \in DOMAIN Text[a]} : a \in Addrs}) \union {Colon, Nul}

NoAddr == "none"    \* nothing was ever published

ASSUME TextAssumption ==
    /\ ShmSize \in Nat \ {0}
    /\ MaxRuns \in Nat
    /\ NoAddr \notin Addrs
    /\ \A a \in Addrs : /\ Text[a] \in Seq(Chars \ {Nul})
                        /\ Len(Text[a]) < ShmSize
                        /\ \E i \in DOMAIN Text[a] : Text[a][i] = Colon

Absent == -1        \* segSize of a segment that was never created
Cells  == 1..ShmSize

VARIABLES
    segSize,   \* size of the segment: Absent, 0 or ShmSize
    content,   \* its characters
    wrpc,      \* the writer: "idle", "opened", "sized" or "writing"
    wAddr,     \* the address being written
    put,       \* characters written
    runs,      \* runs of the writer so far
    rdpc,      \* the reader: "idle", "opened" or "reading"
    rBuf,      \* what the reader has copied
    outcome,   \* what the last read_ip_port returned
    last,      \* history: the address whose write was completed last
    intact,    \* history: nothing was written since, not even in part
    clean      \* history: the segment was intact since the read began

shm         == <<segSize, content>>
writerVars  == <<wrpc, wAddr, put, runs>>
readerVars  == <<rdpc, rBuf, outcome, clean>>
publishVars == <<shm, writerVars, readerVars, last, intact>>

-----------------------------------------------------------------------------
(* What a reader makes of the characters.                                  *)

\* raw.split(b'\x00', 1)[0]
UpToNul(s) ==
    LET ends == {i \in DOMAIN s : s[i] = Nul /\ \A j \in 1..(i - 1) : s[j] # Nul}
    IN  IF ends = {} THEN s ELSE SubSeq(s, 1, (CHOOSE i \in ends : TRUE) - 1)

Empty == [kind |-> "address", ip |-> <<>>, port |-> <<>>]   \* ('', 0)

\* int(port_str): no digits, or anything else among them, gives port 0,
\* written <<>> here.
PortOf(s) == IF s # <<>> /\ \A i \in DOMAIN s : s[i] \in Digits THEN s ELSE <<>>

\* raw.split(':', 1)
Parse(raw) ==
    LET colons == {i \in DOMAIN raw : raw[i] = Colon /\ \A j \in 1..(i - 1) : raw[j] # Colon}
    IN  IF colons = {} THEN Empty
        ELSE LET c == CHOOSE i \in colons : TRUE IN
             [kind |-> "address", ip |-> SubSeq(raw, 1, c - 1),
              port |-> PortOf(SubSeq(raw, c + 1, Len(raw)))]

\* The tuple of an address that was published in one piece.
ResultOf(a) == IF a = NoAddr THEN Empty ELSE Parse(Text[a])

-----------------------------------------------------------------------------
PublishInit == /\ segSize = Absent
               /\ content = [i \in Cells |-> Nul]
               /\ wrpc = "idle" /\ wAddr = NoAddr /\ put = 0 /\ runs = 0
               /\ rdpc = "idle" /\ rBuf = <<>> /\ outcome = Empty
               /\ last = NoAddr /\ intact = TRUE /\ clean = FALSE

-----------------------------------------------------------------------------
(* write_shared_memory.                                                    *)

\* A defective variant: O_TRUNC among the flags.
OpenTruncates ==
    /\ wrpc = "idle"
    /\ runs < MaxRuns
    /\ segSize' = 0
    /\ wAddr' \in Addrs
    /\ put' = 0
    /\ runs' = runs + 1
    /\ wrpc' = "opened"
    /\ UNCHANGED <<content, readerVars, last, intact>>

\* shm_open(O_CREAT | O_RDWR): a new segment has size 0, an old one keeps
\* its size and its characters.
OpenToWrite ==
    /\ wrpc = "idle"
    /\ runs < MaxRuns
    /\ segSize' = IF segSize = Absent THEN 0 ELSE segSize
    /\ wAddr' \in Addrs
    /\ put' = 0
    /\ runs' = runs + 1
    /\ wrpc' = "opened"
    /\ UNCHANGED <<content, readerVars, last, intact>>

\* A defective variant: the segment is only as long as the string.
SetSizeToText == /\ wrpc = "opened"
                 /\ segSize' = Len(Text[wAddr]) + 1
                 /\ content' = IF segSize = 0 THEN [i \in Cells |-> Nul] ELSE content
                 /\ wrpc' = "sized"
                 /\ UNCHANGED <<wAddr, put, runs, readerVars, last, intact>>

\* ftruncate extends a new segment with zeros; mmap.
SetSize == /\ wrpc = "opened"
           /\ segSize' = ShmSize
           /\ content' = IF segSize = 0 THEN [i \in Cells |-> Nul] ELSE content
           /\ wrpc' = "sized"
           /\ UNCHANGED <<wAddr, put, runs, readerVars, last, intact>>

\* snprintf starts.
BeginPrint == /\ wrpc = "sized"
              /\ wrpc' = "writing"
              /\ intact' = FALSE
              /\ clean' = FALSE
              /\ UNCHANGED <<shm, wAddr, put, runs, rdpc, rBuf, outcome, last>>

PutChar == /\ wrpc = "writing"
           /\ put < Len(Text[wAddr])
           /\ content' = [content EXCEPT ![put + 1] = Text[wAddr][put + 1]]
           /\ put' = put + 1
           /\ UNCHANGED <<segSize, wrpc, wAddr, runs, readerVars, last, intact>>

\* A defective variant: the string is not terminated.
NoTerminator == /\ wrpc = "writing"
                /\ put = Len(Text[wAddr])
                /\ last' = wAddr
                /\ intact' = TRUE
                /\ wrpc' = "idle"
                /\ UNCHANGED <<shm, wAddr, put, runs, readerVars>>

\* snprintf ends its string; munmap and close.
PutNul == /\ wrpc = "writing"
          /\ put = Len(Text[wAddr])
          /\ content' = [content EXCEPT ![put + 1] = Nul]
          /\ last' = wAddr
          /\ intact' = TRUE
          /\ wrpc' = "idle"
          /\ UNCHANGED <<segSize, wAddr, put, runs, readerVars>>

\* The engine is killed; what it has written stays.
WriterDies == /\ wrpc # "idle"
              /\ wrpc' = "idle"
              /\ UNCHANGED <<shm, wAddr, put, runs, readerVars, last, intact>>

-----------------------------------------------------------------------------
(* read_ip_port.                                                           *)

Fail(error) == outcome' = [kind |-> error, ip |-> <<>>, port |-> <<>>]

\* os.open; FileNotFoundError when there is no segment.
OpenShm == /\ rdpc = "idle"
           /\ IF segSize = Absent THEN Fail("FileNotFoundError") /\ UNCHANGED rdpc
              ELSE rdpc' = "opened" /\ UNCHANGED outcome
           /\ UNCHANGED <<shm, writerVars, rBuf, last, intact, clean>>

\* mmap.mmap; ValueError when the segment is shorter than SHM_SIZE.
MapToRead == /\ rdpc = "opened"
             /\ IF segSize < ShmSize
                THEN /\ Fail("ValueError")
                     /\ rdpc' = "idle"
                     /\ UNCHANGED clean
                ELSE /\ rdpc' = "reading"
                     /\ clean' = intact
                     /\ UNCHANGED outcome
             /\ rBuf' = <<>>
             /\ UNCHANGED <<shm, writerVars, last, intact>>

\* m.read(SHM_SIZE) copies the segment.
GetChar == /\ rdpc = "reading"
           /\ Len(rBuf) < ShmSize
           /\ rBuf' = Append(rBuf, content[Len(rBuf) + 1])
           /\ UNCHANGED <<shm, writerVars, rdpc, outcome, last, intact, clean>>

\* Cut at NUL, decode, split at ':' and return.
Return == /\ rdpc = "reading"
          /\ Len(rBuf) = ShmSize
          /\ outcome' = Parse(UpToNul(rBuf))
          /\ rdpc' = "idle"
          /\ rBuf' = <<>>
          /\ clean' = FALSE
          /\ UNCHANGED <<shm, writerVars, last, intact>>

-----------------------------------------------------------------------------
write_shared_memory == OpenToWrite \/ SetSize \/ BeginPrint \/ PutChar \/ PutNul \/ WriterDies
read_ip_port == OpenShm \/ MapToRead \/ GetChar \/ Return

PublishNext == write_shared_memory \/ read_ip_port

PublishSpec == PublishInit /\ [][PublishNext]_publishVars

-----------------------------------------------------------------------------
(* What must hold.                                                         *)

Outcomes == [kind : {"address", "FileNotFoundError", "ValueError"},
             ip : Seq(Chars), port : Seq(Chars)]

\* Type invariant.
PublishTypeOK == /\ segSize \in {Absent, 0, ShmSize}
                 /\ content \in [Cells -> Chars]
                 /\ wrpc \in {"idle", "opened", "sized", "writing"}
                 /\ wAddr \in Addrs \union {NoAddr}
                 /\ put \in 0..(ShmSize - 1)
                 /\ runs \in 0..MaxRuns
                 /\ rdpc \in {"idle", "opened", "reading"}
                 /\ rBuf \in Seq(Chars) /\ Len(rBuf) <= ShmSize
                 /\ outcome \in Outcomes
                 /\ last \in Addrs \union {NoAddr}
                 /\ intact \in BOOLEAN /\ clean \in BOOLEAN

\* The reader's copy is the register's result; errors are outside it.
Register == INSTANCE SafeRegister WITH
    Values <- Addrs \union {NoAddr}, Results <- Outcomes, Read <- ResultOf,
    value <- last, reading <- rdpc = "reading",
    result <- IF outcome.kind = "address" THEN outcome ELSE Empty

\* write_shared_memory and read_ip_port make the segment a safe register:
\* whatever was in it before, longer or shorter, a read that no write
\* overlaps returns exactly the last address written.
ImplementsRegister == Register!Spec

\* core/udp_flooder.py l.19-22: once an address was published every later
\* read succeeds, also while the engine runs again: the segment is neither
\* removed nor cut.
NoErrorOncePublished ==
    [][last # NoAddr => (outcome' # outcome => outcome'.kind = "address")]_publishVars
=============================================================================
