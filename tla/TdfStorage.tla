----------------------------- MODULE TdfStorage -----------------------------
(***************************************************************************)
(* The local storage files of Telegram Desktop: the write manager, a       *)
(* thread with a queue of jobs, the steps by which it replaces a file, the *)
(* reading of a file, and crashes between any two steps.                   *)
(*                                                                         *)
(* A file has up to three variants: 's', written by QSaveFile (whose       *)
(* commit() replaces it in one step), and the '0' and '1' of older         *)
(* versions, '0' being also where a failed commit falls back to.  Contents *)
(* are numbered in the order they are written; a file that was opened and  *)
(* not finished is Torn, which the md5 at its end tells.                   *)
(*                                                                         *)
(* Every operation on the disk may fail: opening and committing 's',       *)
(* opening '0', writing it in full (nobody looks), renaming and removing.  *)
(* The reader is the main thread, at any time; it removes the variant that *)
(* it has not read.                                                        *)
(***************************************************************************)
EXTENDS Integers, Sequences

CONSTANTS Names,        \* the files
          Old,          \* those left by an older version, as '0' or '1'
          MaxWrites,    \* bound: writes
          MaxCrashes,   \* bound: crashes
          MaxFailures   \* bound: operations on the disk that fail

ASSUME StorageAssumption ==
  /\ MaxWrites \in Nat /\ MaxCrashes \in Nat /\ MaxFailures \in Nat
  /\ Old \subseteq Names

Absent == 0
Torn == -1
Content == Torn .. MaxWrites + 1
Variants == {"s", "0", "1"}
NoEntry == [name |-> "none", content |-> Absent]
NoRead == [name |-> "none", victim |-> "none"]
Entry == [name : Names, content : 1 .. MaxWrites + 1]
Job == [op : {"write", "sync"}, entry : Entry]
         \cup [op : {"all", "tick"}, entry : {NoEntry}]

VARIABLES
  disk,             \* the content of each variant of each file
  queue,            \* jobs sent to the thread of the WriteManager
  scheduled,        \* WriteManager::_scheduled
  op, entry, step,  \* the job at work, what writeNow() writes, its next step
  blocked,          \* the main thread waits in with_sync()
  reading,          \* the file that ReadFile() has read, the variant to remove
  written,          \* history: the last content handed over, for each file
  confirmed,        \* history: the last content whose write was waited for
  broken,           \* history: files whose only copy is being truncated, or
                    \* whose last write was given up, until one arrives
  writes, crashes, failures

manager == <<queue, scheduled, op, entry, step, blocked>>
counters == <<writes, crashes, failures>>
vars == <<disk, manager, reading, written, confirmed, broken, counters>>

(* Every file exists, as 's' or in one of the variants of older versions.  *)
Init ==
  /\ \E of \in [Names -> Variants] :
       /\ \A n \in Names : of[n] = "s" <=> n \notin Old
       /\ disk = [n \in Names |-> [v \in Variants |-> IF v = of[n] THEN 1 ELSE Absent]]
  /\ queue = <<>> /\ scheduled = <<>> /\ blocked = FALSE /\ reading = NoRead
  /\ op = "idle" /\ entry = NoEntry /\ step = "idle"
  /\ written = [n \in Names |-> 1] /\ confirmed = written /\ broken = {}
  /\ writes = 0 /\ crashes = 0 /\ failures = 0

(* ReadFile(): 's' if it exists, else the newer of '0' and '1' and then    *)
(* the other; Absent if none of them is complete.                          *)
ReadFile(n) ==
  LET f == disk[n]
      good(c) == IF c = Torn THEN Absent ELSE c
  IN  IF f["s"] # Absent THEN good(f["s"])
      ELSE IF good(f["0"]) # Absent THEN f["0"] ELSE good(f["1"])

----------------------------------------------------------------------------
(* The main thread.                                                        *)

(* ReadFile() finds no 's' but both of the others, and reads one of them...*)
Both(f) == f["s"] = Absent /\ f["0"] # Absent /\ f["1"] # Absent
ReadLooks(n) ==
  /\ ~blocked /\ reading = NoRead
  /\ Both(disk[n]) /\ ReadFile(n) # Absent
  /\ reading' = [name |-> n, victim |-> IF disk[n]["0"] = Torn THEN "0" ELSE "1"]
  /\ UNCHANGED <<disk, manager, written, confirmed, broken, counters>>

(* writeNow() has opened '0' of n and has not renamed it yet.              *)
Falls(n) == step \in {"write", "dropBackup", "rename", "dropSafe"} /\ entry.name = n

(* ... and removes the other one, whatever the thread has done meanwhile.  *)
ReadRemoves ==
  LET n == reading.name
      v == reading.victim
  IN  /\ reading # NoRead
      /\ reading' = NoRead
      /\ disk' = [disk EXCEPT ![n][v] = Absent]
      /\ broken' = IF v = "0" /\ (disk[n]["0"] > 0 \/ Falls(n)) THEN broken \cup {n} ELSE broken
      /\ UNCHANGED <<manager, written, confirmed, counters>>

(* FileWriteDescriptor::finish(), with or without _sync.                   *)
Write(n, sync) ==
  /\ ~blocked /\ reading = NoRead /\ writes < MaxWrites
  /\ writes' = writes + 1
  /\ written' = [written EXCEPT ![n] = writes' + 1]
  /\ queue' = Append(queue, [op |-> IF sync THEN "sync" ELSE "write",
                             entry |-> [name |-> n, content |-> writes' + 1]])
  /\ blocked' = sync
  /\ UNCHANGED <<disk, scheduled, op, entry, step, reading, confirmed, broken,
                 crashes, failures>>

(* Sync(), and the first half of Finish().                                 *)
SyncAll ==
  /\ ~blocked /\ reading = NoRead
  /\ queue' = Append(queue, [op |-> "all", entry |-> NoEntry])
  /\ blocked' = TRUE
  /\ UNCHANGED <<disk, scheduled, op, entry, step, reading, written, confirmed, broken,
                 counters>>

(* A crash, and the next start: only the disk is left.                     *)
Crash ==
  /\ crashes < MaxCrashes
  /\ crashes' = crashes + 1
  /\ queue' = <<>> /\ scheduled' = <<>> /\ blocked' = FALSE
  /\ op' = "idle" /\ entry' = NoEntry /\ step' = "idle" /\ reading' = NoRead
  /\ written' = [n \in Names |-> ReadFile(n)]
  /\ UNCHANGED <<disk, confirmed, broken, writes, failures>>

----------------------------------------------------------------------------
(* The thread of the WriteManager.                                         *)

(* Mutant: scheduleWrite() is not called.                                  *)
WithTick_None(q) == q

(* scheduleWrite() sends the thread a job, to write one scheduled entry.   *)
WithTick(q) == Append(q, [op |-> "tick", entry |-> NoEntry])

(* Mutant: write() schedules a second entry for the file.                  *)
Scheduled_Twice(e) == Append(scheduled, e)

(* write() replaces what is scheduled for the same file, in its place.     *)
Scheduled(e) ==
  IF \E i \in DOMAIN scheduled : scheduled[i].name = e.name
  THEN [i \in DOMAIN scheduled |-> IF scheduled[i].name = e.name THEN e ELSE scheduled[i]]
  ELSE Append(scheduled, e)

(* Mutant: writeSync() leaves the older entry scheduled.                   *)
Unscheduled_Keeps(e) == scheduled

(* writeSync() erases it instead.                                          *)
Unscheduled(e) ==
  LET found == {i \in DOMAIN scheduled : scheduled[i].name = e.name}
      erased(i) == [j \in 1 .. Len(scheduled) - 1 |-> scheduled[IF j < i THEN j ELSE j + 1]]
  IN  IF found = {} THEN scheduled
      ELSE erased(CHOOSE i \in found : \A j \in found : i <= j)

Begin(o, e) == op' = o /\ entry' = e /\ step' = "save"

(* writeOneScheduledNow(), or the end of the job if there is nothing left. *)
BeginScheduled(o) ==
  IF scheduled = <<>>
  THEN /\ op' = "idle" /\ entry' = NoEntry /\ step' = "idle"
       /\ UNCHANGED scheduled
  ELSE Begin(o, Head(scheduled)) /\ scheduled' = Tail(scheduled)

TakeJob ==
  /\ op = "idle" /\ queue # <<>>
  /\ LET job == Head(queue)
     IN  \/ /\ job.op = "write"
            /\ scheduled' = Scheduled(job.entry)
            /\ queue' = WithTick(Tail(queue))
            /\ UNCHANGED <<op, entry, step, blocked, confirmed>>
         \/ /\ job.op = "sync"
            /\ scheduled' = Unscheduled(job.entry)
            /\ Begin("sync", job.entry)
            /\ queue' = Tail(queue)
            /\ UNCHANGED <<blocked, confirmed>>
         \/ /\ job.op \in {"all", "tick"}
            /\ BeginScheduled(job.op)
            /\ queue' = Tail(queue)
            /\ blocked' = (blocked /\ ~(job.op = "all" /\ scheduled = <<>>))
            /\ confirmed' = IF blocked' = blocked THEN confirmed ELSE written
  /\ UNCHANGED <<disk, reading, written, broken, counters>>

(* A step of writeNow() that makes the file at work f, and another that    *)
(* fails and changes nothing.                                              *)
Make(f, next, breaks) ==
  /\ disk' = [disk EXCEPT ![entry.name] = f]
  /\ step' = next
  /\ broken' = IF breaks THEN broken \cup {entry.name} ELSE broken
  /\ UNCHANGED <<queue, scheduled, op, entry, blocked, reading, written, confirmed, counters>>
Fails(next, breaks) ==
  /\ failures < MaxFailures
  /\ failures' = failures + 1
  /\ step' = next
  /\ broken' = IF breaks THEN broken \cup {entry.name} ELSE broken
  /\ UNCHANGED <<disk, queue, scheduled, op, entry, blocked, reading, written, confirmed,
                 writes, crashes>>

(* The file at work, with a variant changed.                               *)
File == disk[entry.name]
With(v, c) == [File EXCEPT ![v] = c]

(* 's' has been replaced: nothing is broken any more, if it is the last.   *)
Replace(f, next) ==
  /\ disk' = [disk EXCEPT ![entry.name] = f]
  /\ step' = next
  /\ broken' = IF f["s"] = written[entry.name] THEN broken \ {entry.name} ELSE broken
  /\ UNCHANGED <<queue, scheduled, op, entry, blocked, reading, written, confirmed, counters>>

Commit == step = "save" /\ Replace(With("s", entry.content), "dropSimple")
DropSimple == step = "dropSimple" /\ Make(With("0", Absent), "dropOld", FALSE)
DropOld == step = "dropOld" /\ Make(With("1", Absent), "done", FALSE)

(* open(save, 's') or commit() fails.                                      *)
CommitFails == step = "save" /\ Fails("open", FALSE)

(* '0' is truncated, the only copy perhaps.                                *)
Open == step = "open" /\ Make(With("0", Torn), "write", File["s"] = Absent /\ File["0"] > 0)
OpenFails == step = "open" /\ Fails("done", TRUE)

(* The content is written, into nothing when a reader has removed the file.*)
WritePlain ==
  /\ step = "write"
  /\ Make(With("0", IF File["0"] = Absent THEN Absent ELSE entry.content), "dropBackup", FALSE)
(* Nobody looks whether write() or FlushFileData() have worked.            *)
ShortWrite == step = "write" /\ Fails("dropBackup", TRUE)

DropBackup == step = "dropBackup" /\ Make(With("1", Absent), "rename", FALSE)

Rename ==
  /\ step = "rename" /\ File["0"] # Absent
  /\ Replace([File EXCEPT !["s"] = File["0"], !["0"] = Absent], "done")

(* A failed rename, or nothing to rename: 's' is removed, '0' is left.     *)
RenameFails ==
  /\ step = "rename"
  /\ \/ Fails("dropSafe", FALSE)
     \/ File["0"] = Absent /\ Make(File, "dropSafe", FALSE)
DropSafe == step = "dropSafe" /\ Make(With("s", Absent), "done", FALSE)

(* QFile::remove() fails, which nobody looks at either.                    *)
RemoveFails ==
  \/ step = "dropSimple" /\ Fails("dropOld", FALSE)
  \/ step = "dropOld" /\ Fails("done", FALSE)
  \/ step = "dropBackup" /\ Fails("rename", FALSE)
  \/ step = "dropSafe" /\ Fails("done", TRUE)

(* writeNow() returns: to the waiting main thread, to writeScheduled(),    *)
(* which goes on with a new job, or to the loop of writeSyncAll().         *)
Return ==
  /\ step = "done"
  /\ \/ /\ op = "sync"
        /\ op' = "idle" /\ entry' = NoEntry /\ step' = "idle"
        /\ blocked' = FALSE
        /\ confirmed' = [confirmed EXCEPT ![entry.name] = entry.content]
        /\ UNCHANGED <<queue, scheduled>>
     \/ /\ op = "tick"
        /\ op' = "idle" /\ entry' = NoEntry /\ step' = "idle"
        /\ queue' = IF scheduled = <<>> THEN queue ELSE WithTick(queue)
        /\ UNCHANGED <<scheduled, blocked, confirmed>>
     \/ /\ op = "all"
        /\ BeginScheduled("all")
        /\ blocked' = (scheduled # <<>>)
        /\ confirmed' = IF scheduled = <<>> THEN written ELSE confirmed
        /\ UNCHANGED queue
  /\ UNCHANGED <<disk, reading, written, broken, counters>>

Thread == \/ TakeJob \/ Commit \/ DropSimple \/ DropOld \/ CommitFails
          \/ Open \/ OpenFails \/ WritePlain \/ ShortWrite \/ DropBackup
          \/ Rename \/ RenameFails \/ DropSafe \/ RemoveFails \/ Return

Next == \/ \E n \in Names, sync \in BOOLEAN : Write(n, sync)
        \/ SyncAll
        \/ \E n \in Names : ReadLooks(n)
        \/ ReadRemoves
        \/ Crash
        \/ Thread

(* The thread goes on as long as it has something to do.                   *)
Spec == Init /\ [][Next]_vars /\ WF_vars(Thread)

----------------------------------------------------------------------------
(* Properties.                                                             *)

(* The types, with a file scheduled at most once.                          *)
TypeOK ==
  /\ disk \in [Names -> [Variants -> Content]]
  /\ queue \in Seq(Job) /\ scheduled \in Seq(Entry)
  /\ op \in {"idle", "sync", "all", "tick"} /\ entry \in Entry \cup {NoEntry}
  /\ step \in {"idle", "save", "dropSimple", "dropOld", "open", "write",
               "dropBackup", "rename", "dropSafe", "done"}
  /\ blocked \in BOOLEAN
  /\ reading \in [name : Names, victim : {"0", "1"}] \cup {NoRead}
  /\ written \in [Names -> 0 .. MaxWrites + 1]
  /\ confirmed \in [Names -> 0 .. MaxWrites + 1] /\ broken \subseteq Names
  /\ writes \in 0 .. MaxWrites /\ crashes \in 0 .. MaxCrashes
  /\ failures \in 0 .. MaxFailures
  /\ \A i, j \in DOMAIN scheduled : scheduled[i].name = scheduled[j].name => i = j
  /\ op = "idle" <=> step = "idle" /\ entry = NoEntry

(* At every step of writeNow() a reader, also after a crash, finds a       *)
(* complete content, never one older than it has found before or than a    *)
(* synchronous write has returned for; and Sync() returns when all that    *)
(* was handed over is on the disk.  It takes a second failure to break the *)
(* promise for a file (the first, if an older version has left it), and    *)
(* the next complete write of the file brings it back.                     *)
Promise == INSTANCE DurableCells WITH Cell <- Names, durable <- [n \in Names |-> ReadFile(n)]
KeepsThePromise == Promise!Spec

(* Every content is on the disk in the end, or a newer one is, unless the  *)
(* program crashes before or the file is broken by failures.               *)
WritesArrive ==
  \A n \in Names, c \in 1 .. MaxWrites + 1 :
    written[n] = c ~> ReadFile(n) >= c \/ written[n] < c \/ n \in broken
=============================================================================
