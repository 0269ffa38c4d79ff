------------------------------ MODULE TaskPool ------------------------------
(***************************************************************************)
(* The task pool in the segment /shrmem: kernel/memory_map.c deals the     *)
(* tasks 1, 2, ... into one block per virtual machine, and                 *)
(* kernel/map_reader.c reads one machine's block.  Each computes the       *)
(* layout from its own vm_count argument; they are separate processes with *)
(* no lock, and the writer truncates the segment on every run.             *)
(*                                                                         *)
(* The segment is an array of int-sized words: a block is the ID, the task *)
(* count, and the tasks.                                                   *)
(***************************************************************************)
EXTENDS Integers, Sequences

CONSTANTS Overall,      \* OVERALL_TASK and PORT_SPACE, 65536
          PageWords,    \* words in a page of memory
          MaxCount,     \* bound: the largest vm_count tried
          MaxWrites     \* bound: runs of the writer

ASSUME SizesAssumption == /\ Overall \in Nat
                          /\ PageWords \in Nat \ {0}
                          /\ MaxCount \in Nat \ {0}
                          /\ MaxWrites \in Nat

Counts == 1..MaxCount

-----------------------------------------------------------------------------
(* The layout for n machines.                                              *)

EachTask(n)  == Overall \div n
BlockSize(n) == 2 + EachTask(n)
TotalSize(n) == BlockSize(n) * n

\* A defective variant: task lists start at 0 in every block.
RestartingWord(n, k) ==
    LET block == k \div BlockSize(n)
        field == k % BlockSize(n)
    IN  CASE field = 0 -> block
          [] field = 1 -> EachTask(n)
          [] OTHER     -> field - 1

\* The word at position k: the writer fills blocks, and the fields of a
\* block, in ascending order, counting tasks through all of them.
WordAt(n, k) ==
    LET block == k \div BlockSize(n)
        field == k % BlockSize(n)
    IN  CASE field = 0 -> block
          [] field = 1 -> EachTask(n)
          [] OTHER     -> block * EachTask(n) + field - 1

Largest == Overall + 2 * MaxCount    \* no layout is longer
Words   == 0..Largest                \* an ID, a count or a task

Pages(words) == (words + PageWords - 1) \div PageWords

-----------------------------------------------------------------------------
VARIABLES
    size,      \* words in the segment; -1 before it is created
    mem,       \* the words
    wpc,       \* the writer: "idle", "opened" or "filling"
    wCount,    \* its vm_count
    wPos,      \* words written
    writes,    \* runs of the writer so far
    rpc,       \* the reader: "idle", "id", "loop", "task", "done" or "fault"
    rCount,    \* its vm_count
    rId,       \* its vm_id
    gotId,     \* block->ID it has printed
    gotTasks,  \* the tasks it has printed
    settled,   \* history: vm_count of the last complete, untouched layout, or 0
    calm       \* history: that layout was the reader's since it opened

poolVars == <<size, mem, wpc, wCount, wPos, writes, rpc, rCount, rId, gotId,
          gotTasks, settled, calm>>
reader == <<rpc, rCount, rId, gotId, gotTasks>>

PoolInit == /\ size = -1
            /\ mem = [k \in 0..(Largest - 1) |-> 0]
            /\ wpc = "idle" /\ wCount = 1 /\ wPos = 0 /\ writes = 0
            /\ rpc = "idle" /\ rCount = 1 /\ rId = 0 /\ gotId = 0 /\ gotTasks = <<>>
            /\ settled = 0 /\ calm = FALSE

-----------------------------------------------------------------------------
(* memory_map.c.                                                           *)

\* shm_open with O_TRUNC: whatever was in the segment is gone.
OpenTruncated == /\ wpc = "idle"
                 /\ writes < MaxWrites
                 /\ wCount' \in Counts
                 /\ size' = 0
                 /\ mem' = [k \in DOMAIN mem |-> 0]
                 /\ wPos' = 0
                 /\ writes' = writes + 1
                 /\ wpc' = "opened"
                 /\ settled' = 0
                 /\ calm' = FALSE
                 /\ UNCHANGED reader

\* A defective variant: room for the tasks but not for the block headers.
ResizeTasksOnly == /\ wpc = "opened"
                   /\ size' = Overall
                   /\ wpc' = "filling"
                   /\ UNCHANGED <<mem, wCount, wPos, writes, reader, settled, calm>>

\* ftruncate and mmap.
Resize == /\ wpc = "opened"
          /\ size' = TotalSize(wCount)
          /\ wpc' = "filling"
          /\ UNCHANGED <<mem, wCount, wPos, writes, reader, settled, calm>>

Fill == /\ wpc = "filling"
        /\ wPos < TotalSize(wCount)
        /\ mem' = [mem EXCEPT ![wPos] = WordAt(wCount, wPos)]
        /\ wPos' = wPos + 1
        /\ UNCHANGED <<size, wpc, wCount, writes, reader, settled, calm>>

Filled == /\ wpc = "filling"
          /\ wPos = TotalSize(wCount)
          /\ wpc' = "idle"
          /\ settled' = wCount
          /\ UNCHANGED <<size, mem, wCount, wPos, writes, reader, calm>>

\* ftruncate or mmap fails and main returns, or the writer is killed.
WriterStops == /\ wpc # "idle"
               /\ wpc' = "idle"
               /\ UNCHANGED <<size, mem, wCount, wPos, writes, reader, settled, calm>>

-----------------------------------------------------------------------------
(* map_reader.c.                                                           *)

\* vm_id is checked against the reader's own vm_count; shm_open fails
\* without a segment; mmap of a short segment succeeds.
OpenToRead == /\ rpc \in {"idle", "done", "fault"}
              /\ size >= 0
              /\ rCount' \in Counts
              /\ rId' \in 0..(rCount' - 1)
              /\ rpc' = "id"
              /\ gotId' = 0
              /\ gotTasks' = <<>>
              /\ calm' = (settled = rCount')
              /\ UNCHANGED <<size, mem, wpc, wCount, wPos, writes, settled>>

\* A defective variant: blocks are taken to be task lists without a header.
HeaderlessBlock == rId * EachTask(rCount)

\* The first word of the reader's block.
Block == rId * BlockSize(rCount)

\* A word can be read if its page belongs to the segment as it is now and
\* to the mapping; the rest of the segment's last page reads as 0.
Readable(k) == /\ k < PageWords * Pages(size)
               /\ k < PageWords * Pages(TotalSize(rCount))
Word(k) == IF k < size THEN mem[k] ELSE 0

Fault == /\ rpc' = "fault"
         /\ UNCHANGED <<gotId, gotTasks>>

ReadId == /\ rpc = "id"
          /\ IF Readable(Block)
             THEN /\ gotId' = Word(Block)
                  /\ rpc' = "loop"
                  /\ UNCHANGED gotTasks
             ELSE Fault
          /\ UNCHANGED <<size, mem, wpc, wCount, wPos, writes, rCount, rId,
                         settled, calm>>

\* The loop condition i < block->task_count, read anew each time.
ReadCount == /\ rpc = "loop"
             /\ IF Readable(Block + 1)
                THEN /\ rpc' = IF Len(gotTasks) < Word(Block + 1) THEN "task" ELSE "done"
                     /\ UNCHANGED <<gotId, gotTasks>>
                ELSE Fault
             /\ UNCHANGED <<size, mem, wpc, wCount, wPos, writes, rCount, rId,
                            settled, calm>>

ReadTask == /\ rpc = "task"
            /\ LET k == Block + 2 + Len(gotTasks) IN
               IF Readable(k)
               THEN /\ gotTasks' = Append(gotTasks, Word(k))
                    /\ rpc' = "loop"
                    /\ UNCHANGED gotId
               ELSE Fault
            /\ UNCHANGED <<size, mem, wpc, wCount, wPos, writes, rCount, rId,
                           settled, calm>>

-----------------------------------------------------------------------------
Writer == OpenTruncated \/ Resize \/ Fill \/ Filled \/ WriterStops
Reader == OpenToRead \/ ReadId \/ ReadCount \/ ReadTask

PoolNext == Writer \/ Reader

PoolSpec == PoolInit /\ [][PoolNext]_poolVars

-----------------------------------------------------------------------------
(* What must hold.                                                         *)

\* Type invariant: the layout fits the segment.
PoolTypeOK == /\ size \in {-1, 0} \union {TotalSize(n) : n \in Counts}
              /\ mem \in [0..(Largest - 1) -> Words]
              /\ wpc \in {"idle", "opened", "filling"}
              /\ wCount \in Counts
              /\ wPos \in 0..Largest
              /\ writes \in 0..MaxWrites
              /\ rpc \in {"idle", "id", "loop", "task", "done", "fault"}
              /\ rCount \in Counts /\ rId \in 0..(rCount - 1)
              /\ gotId \in Words
              /\ gotTasks \in Seq(Words)
              /\ settled \in {0} \union Counts
              /\ calm \in BOOLEAN

\* The tasks of machine i in a complete layout for n machines.
TasksOf(n, i) == {mem[i * BlockSize(n) + 2 + j] : j \in 0..(EachTask(n) - 1)}

\* memory_map.c l.26 and l.51-59: a complete layout gives every task from 1 on
\* to one machine, except for the remainder of the division, whose tasks no
\* machine gets.  (l.60 calls the tasks ports; without a remainder the last
\* one is 65536, which is none.)
TasksDealtOnce ==
    settled > 0 =>
        /\ UNION {TasksOf(settled, i) : i \in 0..(settled - 1)}
             = 1..(Overall - (Overall % settled))
        /\ \A i, j \in 0..(settled - 1) :
              i # j => TasksOf(settled, i) \cap TasksOf(settled, j) = {}

\* map_reader.c l.44-50: a reader that uses the writer's vm_count and is not
\* overtaken by a new run gets its own ID and exactly its tasks, in order,
\* and touches nothing outside the segment.
CalmReaderGetsBlock ==
    calm => /\ rpc # "fault"
            /\ rpc = "done" =>
                  /\ gotId = rId
                  /\ gotTasks = [j \in 1..EachTask(rCount) |->
                                   rId * EachTask(rCount) + j]
=============================================================================
