-------------------------- MODULE TdfStorageProofs --------------------------
(***************************************************************************)
(* Theorems about the local storage files: for any set of files, whatever  *)
(* an older version has left, and for any number of writes, crashes and    *)
(* failed operations, the write manager implements the promise of          *)
(* DurableCells.                                                           *)
(***************************************************************************)
EXTENDS TdfStorage, TLAPS

Writing == {"write", "sync"}        \* the jobs that carry an entry
Waited == {"sync", "all"}           \* the jobs the main thread waits for
PlainSteps == {"open", "write", "dropBackup", "rename", "dropSafe"}

(* The job at work: it is one as long as it has a step to make, and what   *)
(* it writes is no longer scheduled.                                       *)
AtWork ==
  /\ op = "idle" <=> step = "idle"
  /\ op # "idle" => entry \in Entry
  /\ op # "idle" => \A i \in DOMAIN scheduled : scheduled[i].name # entry.name

(* ReadFile() as a function of what is on the disk. *)
Reading(f) ==
  IF f["s"] # Absent THEN IF f["s"] = Torn THEN Absent ELSE f["s"]
  ELSE IF f["0"] # Absent /\ f["0"] # Torn THEN f["0"]
  ELSE IF f["1"] = Torn THEN Absent ELSE f["1"]

(* At every step of writeNow() some variant of a file is complete, unless  *)
(* the file is broken.                                                     *)
Readable ==
  \A n \in Names \ broken :
    1 <= Reading(disk[n]) /\ Reading(disk[n]) <= written[n]

(* '1' is never written, and what is on the disk has been handed over.     *)
OnDisk ==
  \A n \in Names :
    /\ disk[n]["1"] # Torn
    /\ \A v \in Variants : disk[n][v] <= writes + 1

(* It takes failures for a file to be broken or without 's', for '0' to be *)
(* torn, and for a reader to remove it.                                    *)
Blame(n, k) == k > 1 \/ (k = 1 /\ n \in Old)
Blamed ==
  /\ \A n \in broken : Blame(n, failures)
  /\ \A n \in Names : disk[n]["s"] = Absent => failures > 1 \/ n \in Old
  /\ \A n \in Names : disk[n]["0"] = Torn => failures > 0
  /\ step \in PlainSteps => failures > 0
  /\ step = "dropSafe" => failures > 1 \/ entry.name \in Old
  /\ reading # NoRead /\ reading.victim = "0" => Blame(reading.name, failures)

(* How far the steps of writeNow() have come with a file f.                *)
StepOn(f, st, c) ==
  /\ st \in {"dropSimple", "dropOld"} => f["s"] = c
  /\ st = "write" => f["0"] = Torn
  /\ st \in {"dropBackup", "rename", "dropSafe"} => f["0"] = c
  /\ st = "done" => Reading(f) = c
StepDone ==
  op # "idle" /\ entry.name \notin broken => StepOn(disk[entry.name], step, entry.content)

(* A reader that is to remove '1' has left something to be read.           *)
Spares(f) == f["s"] # Absent \/ f["0"] >= 1
ReaderSpares ==
  reading # NoRead /\ reading.victim = "1" /\ reading.name \notin broken
    => Spares(disk[reading.name])

(* Contents come to the disk in the order they were handed over: what is   *)
(* queued is newer than what is queued before it, scheduled or at work,    *)
(* none is older than what the disk has of its file, and none is newer     *)
(* than the last one handed over.                                          *)
NoneNewer(f, c) == \A v \in Variants : f[v] <= c
InOrder ==
  /\ \A n \in Names : written[n] <= writes + 1
  /\ \A i, j \in DOMAIN queue :
       i < j /\ {queue[i].op, queue[j].op} \subseteq Writing
         => queue[i].entry.content < queue[j].entry.content
  /\ \A j \in DOMAIN queue : queue[j].op \in Writing =>
       LET e == queue[j].entry
       IN  /\ NoneNewer(disk[e.name], e.content) /\ e.content <= written[e.name]
           /\ \A i \in DOMAIN scheduled : scheduled[i].content < e.content
           /\ op # "idle" => entry.content < e.content
  /\ \A i \in DOMAIN scheduled :
       LET e == scheduled[i]
       IN  NoneNewer(disk[e.name], e.content) /\ e.content <= written[e.name]
  /\ op # "idle" => /\ NoneNewer(disk[entry.name], entry.content)
                    /\ entry.content <= written[entry.name]

(* The main thread waits for what it has asked for last.                   *)
WaitsForLast ==
  /\ \A i, j \in DOMAIN queue : i < j /\ queue[i].op \in Waited => queue[j].op = "tick"
  /\ op \in Waited => blocked /\ \A i \in DOMAIN queue : queue[i].op = "tick"
  /\ (\E i \in DOMAIN queue : queue[i].op \in Waited) => blocked

(* Nothing is forgotten: the last content handed over for a file is on the *)
(* disk, at work, scheduled or queued, unless the file is broken.          *)
Kept ==
  \A n \in Names \ broken :
    LET e == [name |-> n, content |-> written[n]]
    IN  \/ Reading(disk[n]) = written[n]
        \/ op # "idle" /\ entry = e
        \/ \E i \in DOMAIN scheduled : scheduled[i] = e
        \/ \E i \in DOMAIN queue : queue[i].op \in Writing /\ queue[i].entry = e

OfFiles == Readable /\ OnDisk /\ Blamed /\ StepDone /\ ReaderSpares

StorageInv == TypeOK /\ AtWork /\ OfFiles /\ InOrder /\ WaitsForLast /\ Kept

-----------------------------------------------------------------------------
(* Sequences, and what is read from a file.                                *)

LEMMA TailOf ==
  ASSUME NEW S, NEW q \in Seq(S), q # <<>>
  PROVE  /\ Head(q) = q[1] /\ 1 \in DOMAIN q /\ q[1] \in S
         /\ Tail(q) \in Seq(S)
         /\ \A i \in DOMAIN Tail(q) : i \in Int /\ i + 1 \in DOMAIN q /\ Tail(q)[i] = q[i + 1]
         /\ \A i \in DOMAIN q : i # 1 => i - 1 \in DOMAIN Tail(q) /\ Tail(q)[i - 1] = q[i]
         /\ \A i \in DOMAIN q : i \in Int /\ i >= 1
OBVIOUS

LEMMA AppendOf ==
  ASSUME NEW S, NEW q \in Seq(S), NEW x \in S
  PROVE  /\ Append(q, x) \in Seq(S)
         /\ \A i \in DOMAIN Append(q, x) :
              \/ i \in DOMAIN q /\ Append(q, x)[i] = q[i]
              \/ i = Len(q) + 1 /\ Append(q, x)[i] = x
         /\ \A i \in DOMAIN q : /\ i \in DOMAIN Append(q, x) /\ Append(q, x)[i] = q[i]
                                /\ i \in Int /\ i < Len(q) + 1
         /\ Len(q) + 1 \in DOMAIN Append(q, x) /\ Append(q, x)[Len(q) + 1] = x
         /\ Len(q) \in Nat
OBVIOUS

LEMMA ReadingIsReadFile ==
  ASSUME NEW n
  PROVE  ReadFile(n) = Reading(disk[n]) /\ ReadFile(n)' = Reading(disk'[n])
BY DEF ReadFile, Reading, Absent, Torn

LEMMA JobType ==
  ASSUME NEW j \in Job
  PROVE  /\ j.op \in {"write", "sync", "all", "tick"}
         /\ j.op \in Writing => j.entry \in Entry
         /\ j.op \notin Writing => j.entry = NoEntry
BY DEF Job, Writing

LEMMA EntryType ==
  ASSUME NEW e \in Entry
  PROVE  /\ e.name \in Names /\ e.content \in 1 .. MaxWrites + 1 /\ e # NoEntry
         /\ e = [name |-> e.name, content |-> e.content]
BY StorageAssumption DEF Entry, NoEntry, Absent

LEMMA Numbers ==
  ASSUME TypeOK
  PROVE  /\ MaxWrites \in Nat /\ writes \in Nat /\ failures \in Nat /\ MaxFailures \in Nat
         /\ \A n \in Names : written[n] \in Nat
         /\ \A n \in Names : /\ disk[n] \in [Variants -> Content]
                             /\ \A v \in Variants : disk[n][v] \in Int
<1>1. /\ MaxWrites \in Nat /\ writes \in Nat /\ failures \in Nat /\ MaxFailures \in Nat
      /\ written \in [Names -> 0 .. MaxWrites + 1]
      /\ disk \in [Names -> [Variants -> Content]]
  BY StorageAssumption DEF TypeOK
<1>2. \A n \in Names : written[n] \in Nat
  BY <1>1
<1>3. \A n \in Names : disk[n] \in [Variants -> Content]
  BY <1>1
<1>4. Content \subseteq Int
  BY <1>1 DEF Content, Torn
<1> QED
  BY <1>1, <1>2, <1>3, <1>4

(* What is read is nothing, or complete in one of the variants. *)
LEMMA ReadingRange ==
  ASSUME NEW f \in [Variants -> Content], f["1"] # Torn
  PROVE  /\ Reading(f) \in Nat
         /\ Reading(f) = 0 \/ \E v \in Variants : Reading(f) = f[v]
<1>1. \A v \in Variants : f[v] \in Int /\ f[v] >= -1
  BY StorageAssumption DEF Content, Torn
<1>2. "s" \in Variants /\ "0" \in Variants /\ "1" \in Variants
  BY DEF Variants
<1> QED
  BY <1>1, <1>2 DEF Reading, Absent, Torn

(* The invariant holds at first.                                           *)
LEMMA Initially == Init => StorageInv
<1> SUFFICES ASSUME Init PROVE StorageInv
  OBVIOUS
<1>1. PICK of \in [Names -> Variants] :
        /\ \A n \in Names : of[n] = "s" <=> n \notin Old
        /\ disk = [n \in Names |-> [v \in Variants |-> IF v = of[n] THEN 1 ELSE Absent]]
  BY DEF Init
<1>2. ASSUME NEW n \in Names
      PROVE  /\ disk[n] \in [Variants -> Content] /\ Reading(disk[n]) = 1
             /\ disk[n]["1"] # Torn /\ disk[n]["0"] # Torn
             /\ disk[n]["s"] = Absent => n \in Old
             /\ \A v \in Variants : disk[n][v] \in Int /\ disk[n][v] <= 1
  <2>1. disk[n] = [v \in Variants |-> IF v = of[n] THEN 1 ELSE Absent] /\ of[n] \in Variants
    BY <1>1
  <2>2. \A v \in Variants : disk[n][v] = IF v = of[n] THEN 1 ELSE 0
    BY <2>1 DEF Absent
  <2>3. disk[n] \in [Variants -> Content]
    BY <2>1, StorageAssumption DEF Content, Absent, Torn
  <2>4. /\ disk[n]["s"] = (IF of[n] = "s" THEN 1 ELSE 0)
        /\ disk[n]["0"] = (IF of[n] = "0" THEN 1 ELSE 0)
        /\ disk[n]["1"] = (IF of[n] = "1" THEN 1 ELSE 0)
        /\ of[n] \in {"s", "0", "1"}
    BY <2>1, <2>2 DEF Variants
  <2>5. Reading(disk[n]) = 1
    BY <2>4 DEF Reading, Absent, Torn
  <2>6. \A v \in Variants : disk[n][v] \in Int /\ disk[n][v] <= 1
    BY <2>2
  <2> QED
    BY <1>1, <2>3, <2>4, <2>5, <2>6 DEF Absent, Torn
<1>3. TypeOK
  <2>1. disk \in [Names -> [Variants -> Content]]
    BY <1>1, <1>2
  <2>2. written \in [Names -> 0 .. MaxWrites + 1] /\ confirmed = written
    BY StorageAssumption DEF Init
  <2>3. writes \in 0 .. MaxWrites /\ crashes \in 0 .. MaxCrashes /\ failures \in 0 .. MaxFailures
    BY StorageAssumption DEF Init
  <2>4. /\ queue \in Seq(Job) /\ scheduled = <<>> /\ scheduled \in Seq(Entry)
        /\ op = "idle" /\ entry = NoEntry /\ step = "idle" /\ blocked = FALSE
        /\ reading = NoRead /\ broken = {}
    BY DEF Init
  <2>5. \A i, j \in DOMAIN scheduled : scheduled[i].name = scheduled[j].name => i = j
    BY <2>4
  <2> QED
    BY <2>1, <2>2, <2>3, <2>4, <2>5 DEF TypeOK
<1>4. /\ \A n \in Names : written[n] = 1
      /\ writes = 0 /\ op = "idle" /\ step = "idle" /\ broken = {} /\ reading = NoRead
  BY DEF Init
<1>5. AtWork /\ InOrder /\ WaitsForLast
  BY <1>4 DEF Init, AtWork, InOrder, WaitsForLast, Waited
<1>6. Readable /\ OnDisk /\ StepDone /\ ReaderSpares
  BY <1>2, <1>4 DEF Readable, OnDisk, StepDone, ReaderSpares
<1>7. Blamed
  BY <1>2, <1>4 DEF Blamed, PlainSteps
<1>8. Kept
  BY <1>2, <1>4 DEF Kept
<1> QED
  BY <1>3, <1>5, <1>6, <1>7, <1>8 DEF StorageInv, OfFiles

-----------------------------------------------------------------------------
(* The main thread.                                                        *)

LEMMA WriteStep ==
  ASSUME StorageInv, NEW n \in Names, NEW sync \in BOOLEAN, Write(n, sync)
  PROVE  StorageInv' /\ Promise!Write(n)
<1> DEFINE e == [name |-> n, content |-> writes + 2]
           job == [op |-> IF sync THEN "sync" ELSE "write", entry |-> e]
<1>1. /\ TypeOK /\ AtWork /\ OfFiles /\ InOrder /\ WaitsForLast /\ Kept
  BY DEF StorageInv
<1>2. /\ ~blocked /\ reading = NoRead /\ writes < MaxWrites /\ writes' = writes + 1
      /\ written' = [written EXCEPT ![n] = writes + 2]
      /\ queue' = Append(queue, job) /\ blocked' = sync
      /\ UNCHANGED <<disk, scheduled, op, entry, step, reading, confirmed, broken, crashes, failures>>
  <2>1. writes' = writes + 1 /\ writes \in Nat
    BY <1>1, Numbers DEF Write
  <2> QED
    BY <2>1 DEF Write
<1>3. /\ MaxWrites \in Nat /\ writes \in Nat
      /\ \A m \in Names : written[m] \in Nat /\ written[m] <= writes + 1
  BY <1>1, Numbers DEF InOrder
<1>4. e \in Entry /\ job \in Job /\ job.entry = e /\ job.op \in Writing
  <2>1. e \in Entry
    BY <1>2, <1>3 DEF Entry
  <2> QED
    BY <2>1 DEF Job, Writing
<1>5. job.entry.name = n /\ job.entry.content = writes + 2
  OBVIOUS
<1> HIDE DEF job
<1>6. queue \in Seq(Job) /\ written \in [Names -> 0 .. MaxWrites + 1]
  BY <1>1 DEF TypeOK
<1>7. /\ queue' \in Seq(Job)
      /\ \A i \in DOMAIN queue' : \/ i \in DOMAIN queue /\ queue'[i] = queue[i]
                                  \/ i = Len(queue) + 1 /\ queue'[i] = job
      /\ \A i \in DOMAIN queue : /\ i \in DOMAIN queue' /\ queue'[i] = queue[i]
                                 /\ i \in Int /\ i < Len(queue) + 1
      /\ Len(queue) + 1 \in DOMAIN queue' /\ queue'[Len(queue) + 1] = job
      /\ Len(queue) \in Nat
  BY <1>2, <1>4, <1>6, AppendOf
<1>8. \A m \in Names : /\ written'[m] = IF m = n THEN writes + 2 ELSE written[m]
                       /\ written[m] <= written'[m] /\ written'[m] \in Nat
                       /\ disk'[m] = disk[m]
  BY <1>2, <1>3, <1>6
<1>9. TypeOK'
  <2>1. confirmed' \in [Names -> 0 .. MaxWrites + 1]
    BY <1>1, <1>2 DEF TypeOK
  <2>2. written' \in [Names -> 0 .. MaxWrites + 1]
    BY <1>2, <1>3, <1>6
  <2>3. writes' \in 0 .. MaxWrites
    BY <1>2, <1>3
  <2> QED
    BY <1>1, <1>2, <1>7, <2>1, <2>2, <2>3 DEF TypeOK
<1>10. AtWork'
  BY <1>1, <1>2 DEF AtWork
<1>11. Readable'
  <2> SUFFICES ASSUME NEW m \in Names, m \notin broken
               PROVE  1 <= Reading(disk'[m]) /\ Reading(disk'[m]) <= written'[m]
    BY <1>2 DEF Readable
  <2>1. 1 <= Reading(disk[m]) /\ Reading(disk[m]) <= written[m]
    BY <1>1 DEF OfFiles, Readable
  <2>2. Reading(disk[m]) \in Nat
    BY <1>1, Numbers, ReadingRange DEF OfFiles, OnDisk
  <2> QED
    BY <1>3, <1>8, <2>1, <2>2
<1>12. OfFiles'
  <2>1. OnDisk'
    <3> SUFFICES ASSUME NEW m \in Names
                 PROVE  /\ disk'[m]["1"] # Torn
                        /\ \A v \in Variants : disk'[m][v] <= writes' + 1
      BY DEF OnDisk
    <3>1. \A v \in Variants : disk[m][v] \in Int /\ disk[m][v] <= writes + 1
      BY <1>1, Numbers DEF OfFiles, OnDisk
    <3>2. disk[m]["1"] # Torn
      BY <1>1 DEF OfFiles, OnDisk
    <3> QED
      BY <1>2, <1>3, <1>8, <3>1, <3>2
  <2>2. Blamed' /\ StepDone' /\ ReaderSpares'
    BY <1>1, <1>2 DEF OfFiles, Blamed, StepDone, ReaderSpares
  <2> QED
    BY <1>11, <2>1, <2>2 DEF OfFiles
<1>13. InOrder'
  <2>1. \A m \in Names : written'[m] <= writes' + 1
    BY <1>2, <1>3, <1>8
  <2>2. \A j \in DOMAIN queue : queue[j].op \in Writing => queue[j].entry \in Entry
    BY <1>6, JobType
  <2>3. \A j \in DOMAIN queue : queue[j].op \in Writing =>
          queue[j].entry.content \in Nat /\ queue[j].entry.content < writes + 2
    BY <1>1, <1>3, <2>2, EntryType DEF InOrder
  <2>4. \A i, j \in DOMAIN queue' :
          i < j /\ {queue'[i].op, queue'[j].op} \subseteq Writing
            => queue'[i].entry.content < queue'[j].entry.content
    BY <1>1, <1>5, <1>7, <2>3 DEF InOrder
  <2>5. \A i \in DOMAIN scheduled : /\ scheduled[i] \in Entry /\ scheduled[i].content < writes + 2
                                    /\ scheduled[i].content <= written'[scheduled[i].name]
    <3>1. \A i \in DOMAIN scheduled : scheduled[i] \in Entry
      BY <1>1 DEF TypeOK
    <3> QED
      BY <1>1, <1>3, <1>8, <3>1, EntryType DEF InOrder
  <2>6. op # "idle" => /\ entry.content < writes + 2
                       /\ entry.content <= written'[entry.name]
    BY <1>1, <1>3, <1>8, EntryType DEF InOrder, AtWork
  <2>7. \A j \in DOMAIN queue' : queue'[j].op \in Writing =>
          /\ NoneNewer(disk'[queue'[j].entry.name], queue'[j].entry.content)
          /\ queue'[j].entry.content <= written'[queue'[j].entry.name]
          /\ \A i \in DOMAIN scheduled' : scheduled'[i].content < queue'[j].entry.content
          /\ op' # "idle" => entry'.content < queue'[j].entry.content
    <3> SUFFICES ASSUME NEW j \in DOMAIN queue', queue'[j].op \in Writing
                 PROVE  /\ NoneNewer(disk'[queue'[j].entry.name], queue'[j].entry.content)
                        /\ queue'[j].entry.content <= written'[queue'[j].entry.name]
                        /\ \A i \in DOMAIN scheduled' : scheduled'[i].content < queue'[j].entry.content
                        /\ op' # "idle" => entry'.content < queue'[j].entry.content
      OBVIOUS
    <3>1. CASE j \in DOMAIN queue /\ queue'[j] = queue[j]
      <4>1. queue[j].entry \in Entry /\ queue[j].entry.name \in Names /\ queue[j].entry.content \in Nat
        BY <2>2, <2>3, <3>1, EntryType
      <4> QED
        BY <1>1, <1>2, <1>3, <1>8, <3>1, <4>1 DEF InOrder
    <3>2. CASE queue'[j] = job
      <4>1. NoneNewer(disk'[n], writes + 2)
        <5>1. \A v \in Variants : disk[n][v] \in Int /\ disk[n][v] <= writes + 1
          BY <1>1, Numbers DEF OfFiles, OnDisk
        <5> QED
          BY <1>3, <1>8, <5>1 DEF NoneNewer
      <4> QED
        BY <1>2, <1>3, <1>5, <1>8, <2>5, <2>6, <3>2, <4>1
    <3> QED
      BY <1>7, <3>1, <3>2
  <2>8. \A i \in DOMAIN scheduled' :
          /\ NoneNewer(disk'[scheduled'[i].name], scheduled'[i].content)
          /\ scheduled'[i].content <= written'[scheduled'[i].name]
    BY <1>1, <1>2, <2>5 DEF InOrder
  <2> QED
    <3>1. op' # "idle" => NoneNewer(disk'[entry'.name], entry'.content)
      BY <1>1, <1>2 DEF InOrder
    <3> QED
      BY <1>2, <2>1, <2>4, <2>6, <2>7, <2>8, <3>1 DEF InOrder
<1>14. WaitsForLast'
  <2>1. op \notin Waited /\ \A i \in DOMAIN queue : queue[i].op \notin Waited
    BY <1>1, <1>2 DEF WaitsForLast
  <2>2. job.op \in Waited => sync
    BY DEF job, Waited
  <2> QED
    BY <1>1, <1>2, <1>7, <2>1, <2>2 DEF WaitsForLast
<1>15. Kept'
  <2> SUFFICES ASSUME NEW m \in Names, m \notin broken
               PROVE  \/ Reading(disk'[m]) = written'[m]
                      \/ op' # "idle" /\ entry' = [name |-> m, content |-> written'[m]]
                      \/ \E i \in DOMAIN scheduled' : scheduled'[i] = [name |-> m, content |-> written'[m]]
                      \/ \E i \in DOMAIN queue' : /\ queue'[i].op \in Writing
                                                  /\ queue'[i].entry = [name |-> m, content |-> written'[m]]
    BY <1>2 DEF Kept
  <2>1. CASE m = n
    BY <1>4, <1>7, <1>8, <2>1
  <2>2. CASE m # n
    BY <1>1, <1>2, <1>7, <1>8, <2>2 DEF Kept
  <2> QED
    BY <2>1, <2>2
<1>16. Promise!Write(n)
  <2>1. written'[n] > written[n] /\ written' = [written EXCEPT ![n] = written'[n]]
    BY <1>2, <1>3, <1>6
  <2>2. [m \in Names |-> ReadFile(m)]' = [m \in Names |-> ReadFile(m)]
    BY <1>2 DEF ReadFile
  <2> QED
    BY <1>2, <2>1, <2>2 DEF Promise!Write
<1> QED
  BY <1>9, <1>10, <1>12, <1>13, <1>14, <1>15, <1>16 DEF StorageInv

(* Nothing that DurableCells speaks of changes. *)
Stutter == UNCHANGED <<written, confirmed, broken, failures, [n \in Names |-> ReadFile(n)]>>

(* A step that leaves the disk alone, after which no step of writeNow()    *)
(* has been made.                                                          *)
LEMMA SameFiles ==
  ASSUME OfFiles, UNCHANGED <<disk, broken, failures, writes, written>>,
         reading' \in {reading, NoRead}, step' \in {"idle", "save"}
  PROVE  OfFiles'
<1>1. Readable' /\ OnDisk'
  BY DEF OfFiles, Readable, OnDisk
<1>2. Blamed'
  BY DEF OfFiles, Blamed, PlainSteps
<1>3. StepDone' /\ ReaderSpares'
  BY DEF OfFiles, StepDone, StepOn, ReaderSpares
<1> QED
  BY <1>1, <1>2, <1>3 DEF OfFiles

LEMMA SyncAllStep ==
  ASSUME StorageInv, SyncAll
  PROVE  StorageInv' /\ Stutter
<1> DEFINE job == [op |-> "all", entry |-> NoEntry]
<1>1. /\ TypeOK /\ AtWork /\ OfFiles /\ InOrder /\ WaitsForLast /\ Kept
  BY DEF StorageInv
<1>2. /\ ~blocked /\ queue' = Append(queue, job) /\ blocked' = TRUE
      /\ UNCHANGED <<disk, scheduled, op, entry, step, reading, written, confirmed, broken,
                     writes, crashes, failures>>
  BY DEF SyncAll, counters
<1>3. job \in Job /\ job.op = "all"
  BY DEF Job
<1>4. queue \in Seq(Job)
  BY <1>1 DEF TypeOK
<1> HIDE DEF job
<1>5. /\ queue' \in Seq(Job)
      /\ \A i \in DOMAIN queue' : \/ i \in DOMAIN queue /\ queue'[i] = queue[i]
                                  \/ i = Len(queue) + 1 /\ queue'[i] = job
      /\ \A i \in DOMAIN queue : /\ i \in DOMAIN queue' /\ queue'[i] = queue[i]
                                 /\ i \in Int /\ i < Len(queue) + 1
      /\ Len(queue) + 1 \in DOMAIN queue' /\ queue'[Len(queue) + 1] = job
      /\ Len(queue) \in Nat
  BY <1>2, <1>3, <1>4, AppendOf
<1>6. TypeOK'
  BY <1>1, <1>2, <1>5 DEF TypeOK
<1>7. AtWork' /\ OfFiles'
  BY <1>1, <1>2 DEF AtWork, OfFiles, Readable, OnDisk, Blamed, StepDone, ReaderSpares
<1>8. InOrder'
  BY <1>1, <1>2, <1>3, <1>5 DEF InOrder, Writing
<1>9. WaitsForLast'
  BY <1>1, <1>2, <1>5 DEF WaitsForLast
<1>10. Kept'
  BY <1>1, <1>2, <1>5 DEF Kept
<1>11. Stutter
  BY <1>2 DEF Stutter, ReadFile
<1> QED
  BY <1>6, <1>7, <1>8, <1>9, <1>10, <1>11 DEF StorageInv

LEMMA ReadLooksStep ==
  ASSUME StorageInv, NEW n \in Names, ReadLooks(n)
  PROVE  StorageInv' /\ Stutter
<1>1. /\ TypeOK /\ AtWork /\ OfFiles /\ InOrder /\ WaitsForLast /\ Kept
  BY DEF StorageInv
<1>2. /\ disk[n]["s"] = Absent /\ disk[n]["0"] # Absent
      /\ reading' = [name |-> n, victim |-> IF disk[n]["0"] = Torn THEN "0" ELSE "1"]
      /\ UNCHANGED <<disk, queue, scheduled, op, entry, step, blocked, written, confirmed, broken,
                     writes, crashes, failures>>
  BY DEF ReadLooks, Both, manager, counters
<1>3. reading'.name = n /\ reading'.victim = IF disk[n]["0"] = Torn THEN "0" ELSE "1"
  BY <1>2
<1>4. TypeOK'
  BY <1>1, <1>2 DEF TypeOK
<1>5. AtWork' /\ InOrder' /\ WaitsForLast' /\ Kept'
  BY <1>1, <1>2 DEF AtWork, InOrder, WaitsForLast, Kept
<1>6. OfFiles'
  <2>1. Readable' /\ OnDisk' /\ StepDone'
    BY <1>1, <1>2 DEF OfFiles, Readable, OnDisk, StepDone
  <2>2. disk[n]["0"] = Torn => Blame(n, failures)
    <3>1. disk[n]["0"] = Torn => failures > 0 /\ failures \in Nat
      BY <1>1, Numbers DEF OfFiles, Blamed
    <3>2. failures > 1 \/ n \in Old
      BY <1>1, <1>2 DEF OfFiles, Blamed
    <3> QED
      BY <3>1, <3>2 DEF Blame
  <2>3. Blamed'
    BY <1>1, <1>2, <1>3, <2>2 DEF OfFiles, Blamed, Blame
  <2>4. disk[n]["0"] # Torn => disk[n]["0"] >= 1
    <3>1. disk[n]["0"] \in -1 .. MaxWrites + 1 /\ MaxWrites \in Nat
      BY <1>1, Numbers DEF Content, Torn, Variants
    <3> QED
      BY <1>2, <3>1 DEF Absent, Torn
  <2>5. ReaderSpares'
    BY <1>2, <1>3, <2>4 DEF ReaderSpares, Spares
  <2> QED
    BY <2>1, <2>3, <2>5 DEF OfFiles
<1>7. Stutter
  BY <1>2 DEF Stutter, ReadFile
<1> QED
  BY <1>4, <1>5, <1>6, <1>7 DEF StorageInv

LEMMA CrashStep ==
  ASSUME StorageInv, Crash
  PROVE  StorageInv' /\ Promise!Crash
<1>1. TypeOK /\ OfFiles
  BY DEF StorageInv
<1>2. /\ crashes < MaxCrashes /\ crashes' = crashes + 1
      /\ queue' = <<>> /\ scheduled' = <<>> /\ blocked' = FALSE
      /\ op' = "idle" /\ entry' = NoEntry /\ step' = "idle" /\ reading' = NoRead
      /\ written' = [n \in Names |-> ReadFile(n)]
      /\ UNCHANGED <<disk, confirmed, broken, writes, failures>>
  BY DEF Crash
<1>3. \A n \in Names : written'[n] = Reading(disk[n])
  BY <1>2, ReadingIsReadFile
<1>4. ASSUME NEW n \in Names
      PROVE  Reading(disk[n]) \in Nat /\ Reading(disk[n]) <= writes + 1
  <2>1. /\ disk[n] \in [Variants -> Content] /\ disk[n]["1"] # Torn
        /\ \A v \in Variants : disk[n][v] <= writes + 1
        /\ writes \in Nat
    BY <1>1, Numbers DEF OfFiles, OnDisk
  <2> QED
    BY <2>1, ReadingRange
<1>5. TypeOK'
  <2>1. written' \in [Names -> 0 .. MaxWrites + 1]
    <3>1. writes \in Nat /\ MaxWrites \in Nat /\ writes <= MaxWrites
      BY <1>1, Numbers DEF TypeOK
    <3>2. \A n \in Names : written'[n] \in 0 .. MaxWrites + 1
      BY <1>3, <1>4, <3>1
    <3> QED
      BY <1>2, <3>2
  <2>2. crashes' \in 0 .. MaxCrashes
    BY <1>1, <1>2, StorageAssumption DEF TypeOK
  <2>3. queue' \in Seq(Job) /\ scheduled' \in Seq(Entry)
        /\ \A i, j \in DOMAIN scheduled' : scheduled'[i].name = scheduled'[j].name => i = j
    BY <1>2
  <2> QED
    BY <1>1, <1>2, <2>1, <2>2, <2>3 DEF TypeOK
<1>6. AtWork' /\ WaitsForLast'
  BY <1>2 DEF AtWork, WaitsForLast, Waited
<1>7. OfFiles'
  <2>1. Readable'
    <3> SUFFICES ASSUME NEW n \in Names, n \notin broken
                 PROVE  1 <= Reading(disk[n]) /\ Reading(disk[n]) <= written'[n]
      BY <1>2 DEF Readable
    <3>1. 1 <= Reading(disk[n])
      BY <1>1 DEF OfFiles, Readable
    <3> QED
      BY <1>3, <1>4, <3>1
  <2>2. OnDisk' /\ StepDone' /\ ReaderSpares'
    BY <1>1, <1>2 DEF OfFiles, OnDisk, StepDone, ReaderSpares
  <2>3. Blamed'
    BY <1>1, <1>2 DEF OfFiles, Blamed, PlainSteps
  <2> QED
    BY <2>1, <2>2, <2>3 DEF OfFiles
<1>8. Kept'
  BY <1>2, <1>3 DEF Kept
<1>9. InOrder'
  BY <1>2, <1>3, <1>4 DEF InOrder
<1>10. Promise!Crash
  <2>1. [n \in Names |-> ReadFile(n)]' = [n \in Names |-> ReadFile(n)]
    BY <1>2 DEF ReadFile
  <2> QED
    BY <1>2, <2>1 DEF Promise!Crash
<1> QED
  BY <1>5, <1>6, <1>7, <1>8, <1>9, <1>10 DEF StorageInv

-----------------------------------------------------------------------------
(* The thread takes a job.                                                 *)

(* What the first job of the queue leaves, with or without a new tick. *)
LEMMA Dequeued ==
  ASSUME TypeOK, queue # <<>>, queue' = Tail(queue) \/ queue' = WithTick(Tail(queue))
  PROVE  /\ 1 \in DOMAIN queue /\ Head(queue) = queue[1] /\ queue[1] \in Job
         /\ queue' \in Seq(Job)
         /\ \A i \in DOMAIN queue' : /\ i \in Int
                                     /\ \/ queue'[i].op = "tick"
                                        \/ i + 1 \in DOMAIN queue /\ queue'[i] = queue[i + 1]
         /\ \A i \in DOMAIN queue : i # 1 => /\ i \in Int /\ i > 1 /\ i - 1 \in DOMAIN queue'
                                             /\ queue'[i - 1] = queue[i]
<1> DEFINE tail == Tail(queue)
           tick == [op |-> "tick", entry |-> NoEntry]
<1>1. queue \in Seq(Job)
  BY DEF TypeOK
<1>2. /\ Head(queue) = queue[1] /\ 1 \in DOMAIN queue /\ queue[1] \in Job
      /\ tail \in Seq(Job)
      /\ \A i \in DOMAIN tail : i \in Int /\ i + 1 \in DOMAIN queue /\ tail[i] = queue[i + 1]
      /\ \A i \in DOMAIN queue : i # 1 => i - 1 \in DOMAIN tail /\ tail[i - 1] = queue[i]
      /\ \A i \in DOMAIN queue : i \in Int /\ i >= 1
  BY <1>1, TailOf
<1>3. tick \in Job /\ tick.op = "tick"
  BY DEF Job
<1> HIDE DEF tail, tick
<1>4. CASE queue' = tail
  BY <1>2, <1>4
<1>5. CASE queue' = Append(tail, tick)
  <2>1. /\ queue' \in Seq(Job)
        /\ \A i \in DOMAIN queue' : \/ i \in DOMAIN tail /\ queue'[i] = tail[i]
                                    \/ i = Len(tail) + 1 /\ queue'[i] = tick
        /\ \A i \in DOMAIN tail : i \in DOMAIN queue' /\ queue'[i] = tail[i]
        /\ Len(tail) \in Nat
    BY <1>2, <1>3, <1>5, AppendOf
  <2> QED
    BY <1>2, <1>3, <2>1
<1> QED
  BY <1>4, <1>5 DEF WithTick, tail, tick

LEMMA DequeuedInOrder ==
  ASSUME TypeOK, InOrder, queue # <<>>, queue' = Tail(queue) \/ queue' = WithTick(Tail(queue))
  PROVE  \A i, j \in DOMAIN queue' :
           i < j /\ {queue'[i].op, queue'[j].op} \subseteq Writing
             => queue'[i].entry.content < queue'[j].entry.content
<1> SUFFICES ASSUME NEW i \in DOMAIN queue', NEW j \in DOMAIN queue', i < j,
                    queue'[i].op \in Writing, queue'[j].op \in Writing
             PROVE  queue'[i].entry.content < queue'[j].entry.content
  OBVIOUS
<1>1. /\ i \in Int /\ i + 1 \in DOMAIN queue /\ queue'[i] = queue[i + 1]
      /\ j \in Int /\ j + 1 \in DOMAIN queue /\ queue'[j] = queue[j + 1]
  BY Dequeued DEF Writing
<1>2. i + 1 < j + 1
  BY <1>1
<1> QED
  BY <1>1, <1>2 DEF InOrder

LEMMA ScheduledHas ==
  ASSUME TypeOK, NEW e \in Entry, NEW new, new = Scheduled(e)
  PROVE  /\ new \in Seq(Entry)
         /\ \A i, j \in DOMAIN new : new[i].name = new[j].name => i = j
         /\ \E i \in DOMAIN new : new[i] = e
         /\ \A i \in DOMAIN new :
              new[i] = e \/ \E k \in DOMAIN scheduled : new[i] = scheduled[k]
         /\ \A k \in DOMAIN scheduled :
              scheduled[k].name # e.name => \E i \in DOMAIN new : new[i] = scheduled[k]
<1>1. /\ scheduled \in Seq(Entry)
      /\ \A i, j \in DOMAIN scheduled : scheduled[i].name = scheduled[j].name => i = j
  BY DEF TypeOK
<1>2. CASE \E i \in DOMAIN scheduled : scheduled[i].name = e.name
  <2>1. new = [i \in DOMAIN scheduled |-> IF scheduled[i].name = e.name THEN e ELSE scheduled[i]]
    BY <1>2 DEF Scheduled
  <2>2. new \in Seq(Entry) /\ DOMAIN new = DOMAIN scheduled
    BY <1>1, <2>1
  <2>3. \A i \in DOMAIN new : new[i] = IF scheduled[i].name = e.name THEN e ELSE scheduled[i]
    BY <2>1
  <2> QED
    BY <1>1, <1>2, <2>2, <2>3
<1>3. CASE ~ \E i \in DOMAIN scheduled : scheduled[i].name = e.name
  <2>1. new = Append(scheduled, e)
    BY <1>3 DEF Scheduled
  <2>2. /\ new \in Seq(Entry)
        /\ \A i \in DOMAIN new : \/ i \in DOMAIN scheduled /\ new[i] = scheduled[i]
                                 \/ i = Len(scheduled) + 1 /\ new[i] = e
        /\ \A i \in DOMAIN scheduled : i \in DOMAIN new /\ new[i] = scheduled[i]
        /\ Len(scheduled) + 1 \in DOMAIN new /\ new[Len(scheduled) + 1] = e
    BY <1>1, <2>1, AppendOf
  <2> QED
    BY <1>1, <1>3, <2>2
<1> QED
  BY <1>2, <1>3

LEMMA UnscheduledHas ==
  ASSUME TypeOK, NEW e \in Entry, NEW new, new = Unscheduled(e)
  PROVE  /\ new \in Seq(Entry)
         /\ \A i, j \in DOMAIN new : new[i].name = new[j].name => i = j
         /\ \A i \in DOMAIN new : /\ new[i].name # e.name
                                  /\ \E k \in DOMAIN scheduled : new[i] = scheduled[k]
         /\ \A k \in DOMAIN scheduled :
              scheduled[k].name # e.name => \E i \in DOMAIN new : new[i] = scheduled[k]
<1> DEFINE found == {i \in DOMAIN scheduled : scheduled[i].name = e.name}
<1>1. /\ scheduled \in Seq(Entry) /\ Len(scheduled) \in Nat
      /\ DOMAIN scheduled = 1 .. Len(scheduled)
      /\ \A i, j \in DOMAIN scheduled : scheduled[i].name = scheduled[j].name => i = j
  BY DEF TypeOK
<1>2. CASE found = {}
  <2>1. new = scheduled
    BY <1>2 DEF Unscheduled
  <2> QED
    BY <1>1, <1>2, <2>1
<1>3. CASE found # {}
  <2>1. PICK k \in found : TRUE
    BY <1>3
  <2>2. found = {k} /\ k \in 1 .. Len(scheduled) /\ scheduled[k].name = e.name
    BY <1>1, <2>1
  <2>3. k = CHOOSE i \in found : \A j \in found : i <= j
    BY <2>2
  <2>4. new = [j \in 1 .. Len(scheduled) - 1 |-> scheduled[IF j < k THEN j ELSE j + 1]]
    BY <1>3, <2>3 DEF Unscheduled
  <2> HIDE DEF found
  <2>5. /\ DOMAIN new = 1 .. Len(scheduled) - 1
        /\ \A j \in DOMAIN new : new[j] = scheduled[IF j < k THEN j ELSE j + 1]
    BY <2>4
  <2>6. \A j \in DOMAIN new : /\ (IF j < k THEN j ELSE j + 1) \in DOMAIN scheduled
                              /\ (IF j < k THEN j ELSE j + 1) # k
    BY <1>1, <2>2, <2>5
  <2>7. new \in Seq(Entry)
    <3>1. \A j \in 1 .. Len(scheduled) - 1 : new[j] \in Entry
      BY <1>1, <2>5, <2>6
    <3>2. Len(scheduled) - 1 \in Nat
      BY <1>1, <2>2
    <3> QED
      BY <2>4, <3>1, <3>2
  <2>8. ASSUME NEW i \in DOMAIN new, NEW j \in DOMAIN new, new[i].name = new[j].name
        PROVE  i = j
    <3>1. (IF i < k THEN i ELSE i + 1) = (IF j < k THEN j ELSE j + 1)
      BY <1>1, <2>5, <2>6, <2>8
    <3> QED
      BY <1>1, <2>2, <2>5, <3>1
  <2>9. \A j \in DOMAIN new : new[j].name # e.name
    BY <1>1, <2>2, <2>5, <2>6
  <2>10. \A i \in DOMAIN scheduled : scheduled[i].name # e.name =>
           (IF i < k THEN i ELSE i - 1) \in DOMAIN new
             /\ new[IF i < k THEN i ELSE i - 1] = scheduled[i]
    BY <1>1, <2>2, <2>5
  <2> QED
    BY <2>5, <2>6, <2>7, <2>8, <2>9, <2>10
<1> QED
  BY <1>2, <1>3

(* What the thread leaves alone when it takes a job or returns. *)
Elsewhere == UNCHANGED <<disk, reading, written, broken, writes, crashes, failures>>

LEMMA TakeWrite ==
  ASSUME StorageInv, op = "idle", queue # <<>>, Head(queue).op = "write",
         scheduled' = Scheduled(Head(queue).entry), queue' = WithTick(Tail(queue)),
         UNCHANGED <<op, entry, step, blocked, confirmed>>, Elsewhere
  PROVE  StorageInv' /\ Stutter
<1> DEFINE e == queue[1].entry
<1>1. /\ TypeOK /\ AtWork /\ OfFiles /\ InOrder /\ WaitsForLast /\ Kept
  BY DEF StorageInv
<1>2. /\ 1 \in DOMAIN queue /\ Head(queue) = queue[1] /\ queue[1] \in Job
      /\ queue' \in Seq(Job)
      /\ \A i \in DOMAIN queue' : /\ i \in Int
                                  /\ \/ queue'[i].op = "tick"
                                     \/ i + 1 \in DOMAIN queue /\ queue'[i] = queue[i + 1]
      /\ \A i \in DOMAIN queue : i # 1 => /\ i \in Int /\ i > 1 /\ i - 1 \in DOMAIN queue'
                                          /\ queue'[i - 1] = queue[i]
  BY <1>1, Dequeued
<1>3. queue[1].op = "write" /\ queue[1].op \in Writing /\ e \in Entry /\ scheduled' = Scheduled(e)
  BY <1>2, JobType DEF Writing
<1>4. e.name \in Names /\ e.content \in Nat
  BY <1>3, EntryType, StorageAssumption
<1>5. /\ NoneNewer(disk[e.name], e.content) /\ e.content <= written[e.name]
      /\ \A i \in DOMAIN scheduled : scheduled[i].content < e.content
  BY <1>1, <1>2, <1>3 DEF InOrder, Elsewhere
<1>6. \A j \in DOMAIN queue : j # 1 /\ queue[j].op \in Writing => e.content < queue[j].entry.content
  BY <1>1, <1>2, <1>3 DEF InOrder, Elsewhere
<1> HIDE DEF e
<1>7. /\ scheduled' \in Seq(Entry)
      /\ \A i, j \in DOMAIN scheduled' : scheduled'[i].name = scheduled'[j].name => i = j
      /\ \E i \in DOMAIN scheduled' : scheduled'[i] = e
      /\ \A i \in DOMAIN scheduled' :
           scheduled'[i] = e \/ \E k \in DOMAIN scheduled : scheduled'[i] = scheduled[k]
      /\ \A k \in DOMAIN scheduled :
           scheduled[k].name # e.name => \E i \in DOMAIN scheduled' : scheduled'[i] = scheduled[k]
  BY <1>1, <1>3, ScheduledHas
<1>8. TypeOK'
  BY <1>1, <1>2, <1>7 DEF TypeOK, Elsewhere
<1>9. AtWork' /\ OfFiles'
  <2>1. step' = "idle"
    BY <1>1 DEF AtWork
  <2> QED
    BY <1>1, <2>1, SameFiles DEF AtWork, Elsewhere
<1>10. InOrder'
  <2>1. \A n \in Names : written'[n] <= writes' + 1
    BY <1>1 DEF InOrder, Elsewhere
  <2>2. \A i, j \in DOMAIN queue' :
          i < j /\ {queue'[i].op, queue'[j].op} \subseteq Writing
            => queue'[i].entry.content < queue'[j].entry.content
    BY <1>1, DequeuedInOrder
  <2>3. ASSUME NEW j \in DOMAIN queue', queue'[j].op \in Writing
        PROVE  /\ NoneNewer(disk'[queue'[j].entry.name], queue'[j].entry.content)
               /\ queue'[j].entry.content <= written'[queue'[j].entry.name]
               /\ \A i \in DOMAIN scheduled' : scheduled'[i].content < queue'[j].entry.content
    <3>1. j + 1 \in DOMAIN queue /\ queue'[j] = queue[j + 1] /\ j + 1 # 1
      BY <1>2, <2>3 DEF Writing
    <3>2. /\ NoneNewer(disk[queue'[j].entry.name], queue'[j].entry.content)
          /\ queue'[j].entry.content <= written[queue'[j].entry.name]
          /\ \A i \in DOMAIN scheduled : scheduled[i].content < queue'[j].entry.content
          /\ e.content < queue'[j].entry.content
      BY <1>1, <1>6, <2>3, <3>1 DEF InOrder, Elsewhere
    <3> QED
      BY <1>7, <3>2 DEF Elsewhere
  <2>4. \A i \in DOMAIN scheduled' :
          /\ NoneNewer(disk'[scheduled'[i].name], scheduled'[i].content)
          /\ scheduled'[i].content <= written'[scheduled'[i].name]
    BY <1>1, <1>5, <1>7 DEF InOrder, Elsewhere
  <2> QED
    BY <2>1, <2>2, <2>3, <2>4 DEF InOrder, Elsewhere
<1>11. WaitsForLast'
  BY <1>1, <1>2 DEF WaitsForLast, Waited
<1>12. Kept'
  <2> SUFFICES ASSUME NEW m \in Names, m \notin broken, Reading(disk[m]) # written[m]
               PROVE  LET d == [name |-> m, content |-> written[m]]
                      IN  \/ \E i \in DOMAIN scheduled' : scheduled'[i] = d
                          \/ \E i \in DOMAIN queue' : queue'[i].op \in Writing /\ queue'[i].entry = d
    BY DEF Kept, Elsewhere
  <2> DEFINE d == [name |-> m, content |-> written[m]]
  <2>1. d.name = m /\ d.content = written[m] /\ written[m] \in Nat
    BY <1>1, Numbers
  <2>2. \/ \E i \in DOMAIN scheduled : scheduled[i] = d
        \/ \E i \in DOMAIN queue : queue[i].op \in Writing /\ queue[i].entry = d
    BY <1>1 DEF Kept, Elsewhere
  <2> HIDE DEF d
  <2>3. CASE \E i \in DOMAIN scheduled : scheduled[i] = d
    <3>1. PICK k \in DOMAIN scheduled : scheduled[k] = d
      BY <2>3
    <3>2. d.name # e.name
      BY <1>4, <1>5, <2>1, <3>1
    <3> QED
      BY <1>7, <3>1, <3>2 DEF d
  <2>4. CASE \E i \in DOMAIN queue : queue[i].op \in Writing /\ queue[i].entry = d
    BY <1>2, <1>7, <2>4 DEF d, e
  <2> QED
    BY <2>2, <2>3, <2>4
<1>13. Stutter
  BY DEF Stutter, ReadFile, Elsewhere
<1> QED
  BY <1>8, <1>9, <1>10, <1>11, <1>12, <1>13 DEF StorageInv

LEMMA TakeSync ==
  ASSUME StorageInv, op = "idle", queue # <<>>, Head(queue).op = "sync",
         scheduled' = Unscheduled(Head(queue).entry), queue' = Tail(queue),
         Begin("sync", Head(queue).entry),
         UNCHANGED <<blocked, confirmed>>, Elsewhere
  PROVE  StorageInv' /\ Stutter
<1> DEFINE e == queue[1].entry
<1>1. /\ TypeOK /\ AtWork /\ OfFiles /\ InOrder /\ WaitsForLast /\ Kept
  BY DEF StorageInv
<1>2. /\ 1 \in DOMAIN queue /\ Head(queue) = queue[1] /\ queue[1] \in Job
      /\ queue' \in Seq(Job)
      /\ \A i \in DOMAIN queue' : /\ i \in Int
                                  /\ \/ queue'[i].op = "tick"
                                     \/ i + 1 \in DOMAIN queue /\ queue'[i] = queue[i + 1]
      /\ \A i \in DOMAIN queue : i # 1 => /\ i \in Int /\ i > 1 /\ i - 1 \in DOMAIN queue'
                                          /\ queue'[i - 1] = queue[i]
  BY <1>1, Dequeued
<1>3. queue[1].op = "sync" /\ queue[1].op \in Writing /\ e \in Entry
  BY <1>2, JobType DEF Writing
<1>4. /\ scheduled' = Unscheduled(e) /\ op' = "sync" /\ entry' = e /\ step' = "save"
  BY <1>2 DEF Begin
<1>5. e.name \in Names /\ e.content \in Nat /\ e # NoEntry
  BY <1>3, EntryType, StorageAssumption
<1>6. /\ NoneNewer(disk[e.name], e.content) /\ e.content <= written[e.name]
      /\ \A i \in DOMAIN scheduled : scheduled[i].content < e.content
  BY <1>1, <1>2, <1>3 DEF InOrder, Elsewhere
<1>7. blocked /\ \A i \in DOMAIN queue : i # 1 => queue[i].op = "tick"
  BY <1>1, <1>2, <1>3 DEF WaitsForLast, Waited
<1> HIDE DEF e
<1>8. \A i \in DOMAIN queue' : queue'[i].op = "tick"
  BY <1>2, <1>7
<1>9. /\ scheduled' \in Seq(Entry)
      /\ \A i, j \in DOMAIN scheduled' : scheduled'[i].name = scheduled'[j].name => i = j
      /\ \A i \in DOMAIN scheduled' : /\ scheduled'[i].name # e.name
                                      /\ \E k \in DOMAIN scheduled : scheduled'[i] = scheduled[k]
      /\ \A k \in DOMAIN scheduled :
           scheduled[k].name # e.name => \E i \in DOMAIN scheduled' : scheduled'[i] = scheduled[k]
  BY <1>1, <1>3, <1>4, UnscheduledHas
<1>10. TypeOK'
  BY <1>1, <1>2, <1>3, <1>4, <1>5, <1>9 DEF TypeOK, Elsewhere
<1>11. AtWork'
  BY <1>3, <1>4, <1>9 DEF AtWork
<1>12. OfFiles'
  BY <1>1, <1>4, SameFiles DEF Elsewhere
<1>13. InOrder'
  <2>1. \A n \in Names : written'[n] <= writes' + 1
    BY <1>1 DEF InOrder, Elsewhere
  <2>2. \A i \in DOMAIN scheduled' :
          /\ NoneNewer(disk'[scheduled'[i].name], scheduled'[i].content)
          /\ scheduled'[i].content <= written'[scheduled'[i].name]
    BY <1>1, <1>9 DEF InOrder, Elsewhere
  <2>3. \A i \in DOMAIN queue' : queue'[i].op \notin Writing
    BY <1>8 DEF Writing
  <2> QED
    BY <1>4, <1>6, <2>1, <2>2, <2>3 DEF InOrder, Elsewhere
<1>14. WaitsForLast'
  BY <1>4, <1>7, <1>8 DEF WaitsForLast, Waited
<1>15. Kept'
  <2> SUFFICES ASSUME NEW m \in Names, m \notin broken, Reading(disk[m]) # written[m]
               PROVE  LET d == [name |-> m, content |-> written[m]]
                      IN  \/ entry' = d
                          \/ \E i \in DOMAIN scheduled' : scheduled'[i] = d
    BY <1>4 DEF Kept, Elsewhere
  <2> DEFINE d == [name |-> m, content |-> written[m]]
  <2>1. d.name = m /\ d.content = written[m] /\ written[m] \in Nat
    BY <1>1, Numbers
  <2>2. \/ \E i \in DOMAIN scheduled : scheduled[i] = d
        \/ \E i \in DOMAIN queue : queue[i].op \in Writing /\ queue[i].entry = d
    BY <1>1 DEF Kept, Elsewhere
  <2> HIDE DEF d
  <2>3. CASE \E i \in DOMAIN scheduled : scheduled[i] = d
    <3>1. PICK k \in DOMAIN scheduled : scheduled[k] = d
      BY <2>3
    <3>2. d.name # e.name
      BY <1>5, <1>6, <2>1, <3>1
    <3> QED
      BY <1>9, <3>1, <3>2 DEF d
  <2>4. CASE \E i \in DOMAIN queue : queue[i].op \in Writing /\ queue[i].entry = d
    <3>1. queue[1].entry = d
      BY <1>7, <2>4 DEF Writing
    <3> QED
      BY <1>4, <3>1 DEF d, e
  <2> QED
    BY <2>2, <2>3, <2>4
<1>16. Stutter
  BY DEF Stutter, ReadFile, Elsewhere
<1> QED
  BY <1>10, <1>11, <1>12, <1>13, <1>14, <1>15, <1>16 DEF StorageInv

(* A job that carries no entry leaves the queue, or a tick is added: the   *)
(* entries in the queue and their order are the same.                      *)
SameEntries ==
  /\ queue' \in Seq(Job)
  /\ \A j \in DOMAIN queue' : queue'[j].op \in Writing =>
       \E k \in DOMAIN queue : queue'[j] = queue[k]
  /\ \A k \in DOMAIN queue : queue[k].op \in Writing =>
       \E j \in DOMAIN queue' : queue'[j] = queue[k]
  /\ \A i, j \in DOMAIN queue' :
       i < j /\ {queue'[i].op, queue'[j].op} \subseteq Writing
         => queue'[i].entry.content < queue'[j].entry.content

(* The end of writeNow() finds the content on the disk. *)
(* The end of writeNow() finds the content on the disk, if the file is     *)
(* not broken.                                                             *)
LEMMA DoneIsRead ==
  ASSUME StorageInv, step = "done"
  PROVE  /\ op # "idle" /\ entry \in Entry
         /\ entry.name \notin broken => Reading(disk[entry.name]) = entry.content
<1>1. op # "idle" /\ entry \in Entry
  BY DEF StorageInv, AtWork
<1>2. entry.name \notin broken => Reading(disk[entry.name]) = entry.content
  BY <1>1 DEF StorageInv, OfFiles, StepDone, StepOn
<1> QED
  BY <1>1, <1>2

(* The thread has nothing more to do for a job. *)
LEMMA EndOfJob ==
  ASSUME StorageInv, op = "idle" \/ step = "done", SameEntries, WaitsForLast',
         op' = "idle", entry' = NoEntry, step' = "idle", blocked' \in BOOLEAN,
         confirmed' \in [Names -> 0 .. MaxWrites + 1],
         UNCHANGED scheduled, Elsewhere
  PROVE  StorageInv'
<1>1. /\ TypeOK /\ AtWork /\ OfFiles /\ InOrder /\ Kept
  BY DEF StorageInv
<1>2. TypeOK'
  BY <1>1 DEF TypeOK, SameEntries, Elsewhere
<1>3. AtWork'
  BY DEF AtWork
<1>4. OfFiles'
  BY <1>1, SameFiles DEF Elsewhere
<1>5. InOrder'
  BY <1>1 DEF InOrder, SameEntries, Elsewhere
<1>6. Kept'
  <2> SUFFICES ASSUME NEW m \in Names, m \notin broken, Reading(disk[m]) # written[m]
               PROVE  LET d == [name |-> m, content |-> written[m]]
                      IN  \/ \E i \in DOMAIN scheduled : scheduled[i] = d
                          \/ \E i \in DOMAIN queue' : queue'[i].op \in Writing /\ queue'[i].entry = d
    BY DEF Kept, Elsewhere
  <2> DEFINE d == [name |-> m, content |-> written[m]]
  <2>1. ~(op # "idle" /\ entry = d)
    <3>1. CASE op = "idle"
      BY <3>1
    <3>2. CASE step = "done" /\ entry = d
      <4>1. Reading(disk[entry.name]) = entry.content
        BY <3>2, DoneIsRead
      <4> QED
        BY <3>2, <4>1
    <3> QED
      BY <3>1, <3>2
  <2>2. \/ \E i \in DOMAIN scheduled : scheduled[i] = d
        \/ \E i \in DOMAIN queue : queue[i].op \in Writing /\ queue[i].entry = d
    BY <1>1, <2>1 DEF Kept, Elsewhere
  <2> HIDE DEF d
  <2>3. \/ \E i \in DOMAIN scheduled : scheduled[i] = d
        \/ \E i \in DOMAIN queue' : queue'[i].op \in Writing /\ queue'[i].entry = d
    BY <2>2 DEF SameEntries
  <2> QED
    BY <2>3 DEF d
<1> QED
  BY <1>2, <1>3, <1>4, <1>5, <1>6 DEF StorageInv


(* writeOneScheduledNow() begins with the first of the scheduled entries. *)
LEMMA BeginNext ==
  ASSUME StorageInv, op = "idle" \/ step = "done", SameEntries, WaitsForLast',
         scheduled # <<>>, scheduled' = Tail(scheduled),
         op' \in {"all", "tick"}, entry' = Head(scheduled), step' = "save",
         UNCHANGED <<blocked, confirmed>>, Elsewhere
  PROVE  StorageInv'
<1> DEFINE e == scheduled[1]
<1>1. /\ TypeOK /\ AtWork /\ OfFiles /\ InOrder /\ Kept
  BY DEF StorageInv
<1>2. /\ Head(scheduled) = e /\ 1 \in DOMAIN scheduled /\ e \in Entry
      /\ scheduled' \in Seq(Entry)
      /\ \A i \in DOMAIN scheduled' : /\ i \in Int /\ i + 1 \in DOMAIN scheduled
                                      /\ scheduled'[i] = scheduled[i + 1]
      /\ \A i \in DOMAIN scheduled :
           i # 1 => i - 1 \in DOMAIN scheduled' /\ scheduled'[i - 1] = scheduled[i]
      /\ \A i \in DOMAIN scheduled : i \in Int /\ i >= 1
  <2>1. scheduled \in Seq(Entry)
    BY <1>1 DEF TypeOK, Elsewhere
  <2> QED
    BY <2>1, TailOf
<1>3. \A i, j \in DOMAIN scheduled : scheduled[i].name = scheduled[j].name => i = j
  BY <1>1 DEF TypeOK, Elsewhere
<1>4. /\ \A i, j \in DOMAIN scheduled' : scheduled'[i].name = scheduled'[j].name => i = j
      /\ \A i \in DOMAIN scheduled' : scheduled'[i].name # e.name
  BY <1>2, <1>3
<1>5. /\ NoneNewer(disk[e.name], e.content) /\ e.content <= written[e.name]
      /\ \A j \in DOMAIN queue : queue[j].op \in Writing => e.content < queue[j].entry.content
  BY <1>1, <1>2 DEF InOrder, Elsewhere
<1>6. e # NoEntry
  BY <1>2, EntryType
<1> HIDE DEF e
<1>7. TypeOK'
  BY <1>1, <1>2, <1>4, <1>6 DEF TypeOK, SameEntries, Elsewhere
<1>8. AtWork'
  BY <1>2, <1>4 DEF AtWork
<1>9. OfFiles'
  BY <1>1, SameFiles DEF Elsewhere
<1>10. InOrder'
  <2>1. \A n \in Names : written'[n] <= writes' + 1
    BY <1>1 DEF InOrder, Elsewhere
  <2>2. \A i \in DOMAIN scheduled' :
          /\ NoneNewer(disk'[scheduled'[i].name], scheduled'[i].content)
          /\ scheduled'[i].content <= written'[scheduled'[i].name]
    BY <1>1, <1>2 DEF InOrder, Elsewhere
  <2>3. ASSUME NEW j \in DOMAIN queue', queue'[j].op \in Writing
        PROVE  /\ NoneNewer(disk'[queue'[j].entry.name], queue'[j].entry.content)
               /\ queue'[j].entry.content <= written'[queue'[j].entry.name]
               /\ \A i \in DOMAIN scheduled' : scheduled'[i].content < queue'[j].entry.content
               /\ e.content < queue'[j].entry.content
    <3>1. PICK k \in DOMAIN queue : queue'[j] = queue[k]
      BY <2>3 DEF SameEntries
    <3> QED
      BY <1>1, <1>2, <1>5, <2>3, <3>1 DEF InOrder, Elsewhere
  <2> QED
    BY <1>2, <1>5, <2>1, <2>2, <2>3 DEF InOrder, SameEntries, Elsewhere
<1>11. Kept'
  <2> SUFFICES ASSUME NEW m \in Names, m \notin broken, Reading(disk[m]) # written[m]
               PROVE  LET d == [name |-> m, content |-> written[m]]
                      IN  \/ entry' = d
                          \/ \E i \in DOMAIN scheduled' : scheduled'[i] = d
                          \/ \E i \in DOMAIN queue' : queue'[i].op \in Writing /\ queue'[i].entry = d
    BY DEF Kept, Elsewhere
  <2> DEFINE d == [name |-> m, content |-> written[m]]
  <2>1. ~(op # "idle" /\ entry = d)
    <3>1. CASE op = "idle"
      BY <3>1
    <3>2. CASE step = "done" /\ entry = d
      <4>1. Reading(disk[entry.name]) = entry.content
        BY <3>2, DoneIsRead
      <4> QED
        BY <3>2, <4>1
    <3> QED
      BY <3>1, <3>2
  <2>2. \/ \E i \in DOMAIN scheduled : scheduled[i] = d
        \/ \E i \in DOMAIN queue : queue[i].op \in Writing /\ queue[i].entry = d
    BY <1>1, <2>1 DEF Kept, Elsewhere
  <2> HIDE DEF d
  <2>3. \/ entry' = d
        \/ \E i \in DOMAIN scheduled' : scheduled'[i] = d
        \/ \E i \in DOMAIN queue' : queue'[i].op \in Writing /\ queue'[i].entry = d
    <3>1. CASE \E i \in DOMAIN scheduled : scheduled[i] = d
      <4>1. PICK i \in DOMAIN scheduled : scheduled[i] = d
        BY <3>1
      <4>2. entry' = e
        BY <1>2
      <4> QED
        BY <1>2, <4>1, <4>2 DEF e
    <3>2. CASE \E i \in DOMAIN queue : queue[i].op \in Writing /\ queue[i].entry = d
      BY <3>2 DEF SameEntries
    <3> QED
      BY <2>2, <3>1, <3>2
  <2> QED
    BY <2>3 DEF d
<1> QED
  BY <1>7, <1>8, <1>9, <1>10, <1>11 DEF StorageInv


(* When the thread is idle or done and nothing is scheduled or queued, all *)
(* that was handed over is on the disk, broken files apart.                *)
LEMMA AllIsRead ==
  ASSUME StorageInv, op = "idle" \/ step = "done", scheduled = <<>>,
         \A i \in DOMAIN queue : queue[i].op \notin Writing
  PROVE  \A n \in Names \ broken : ReadFile(n) = written[n]
<1>1. Kept
  BY DEF StorageInv
<1>2. ASSUME NEW n \in Names, n \notin broken PROVE Reading(disk[n]) = written[n]
  <2> DEFINE d == [name |-> n, content |-> written[n]]
  <2>0. \A i \in DOMAIN scheduled : FALSE
    OBVIOUS
  <2>1. Reading(disk[n]) = written[n] \/ (op # "idle" /\ entry = d)
    BY <1>1, <1>2, <2>0 DEF Kept
  <2>2. CASE step = "done" /\ entry = d
    <3>1. Reading(disk[entry.name]) = entry.content
      BY <1>2, <2>2, DoneIsRead
    <3> QED
      BY <2>2, <3>1
  <2> QED
    BY <2>1, <2>2
<1> QED
  BY <1>2, ReadingIsReadFile

LEMMA ConfirmAll ==
  ASSUME \A n \in Names \ broken : ReadFile(n) = written[n], confirmed' = written,
         UNCHANGED <<disk, written, broken, failures>>
  PROVE  Promise!Confirm(Names)
<1>1. \A n \in Names \ broken : [m \in Names |-> ReadFile(m)][n] = written[n]
  OBVIOUS
<1>2. \A n \in Names \ broken :
        confirmed'[n] = IF n \in Names THEN [m \in Names |-> ReadFile(m)][n] ELSE confirmed[n]
  BY <1>1
<1>3. [m \in Names |-> ReadFile(m)]' = [m \in Names |-> ReadFile(m)]
  BY DEF ReadFile
<1> QED
  BY <1>1, <1>2, <1>3 DEF Promise!Confirm

LEMMA TakeScheduled ==
  ASSUME StorageInv, op = "idle", queue # <<>>, Head(queue).op \in {"all", "tick"},
         BeginScheduled(Head(queue).op), queue' = Tail(queue),
         blocked' = (blocked /\ ~(Head(queue).op = "all" /\ scheduled = <<>>)),
         confirmed' = (IF blocked' = blocked THEN confirmed ELSE written),
         Elsewhere
  PROVE  StorageInv' /\ (Stutter \/ Promise!Confirm(Names))
<1>1. TypeOK /\ InOrder /\ WaitsForLast
  BY DEF StorageInv
<1>2. /\ 1 \in DOMAIN queue /\ Head(queue) = queue[1] /\ queue[1] \in Job
      /\ queue' \in Seq(Job)
      /\ \A i \in DOMAIN queue' : /\ i \in Int
                                  /\ \/ queue'[i].op = "tick"
                                     \/ i + 1 \in DOMAIN queue /\ queue'[i] = queue[i + 1]
      /\ \A i \in DOMAIN queue : i # 1 => /\ i \in Int /\ i > 1 /\ i - 1 \in DOMAIN queue'
                                          /\ queue'[i - 1] = queue[i]
  BY <1>1, Dequeued
<1>3. queue[1].op \notin Writing
  BY <1>2 DEF Writing
<1>4. SameEntries
  <2>1. \A i, j \in DOMAIN queue' :
          i < j /\ {queue'[i].op, queue'[j].op} \subseteq Writing
            => queue'[i].entry.content < queue'[j].entry.content
    BY <1>1, DequeuedInOrder
  <2>2. \A j \in DOMAIN queue' : queue'[j].op \in Writing =>
          \E k \in DOMAIN queue : queue'[j] = queue[k]
    BY <1>2 DEF Writing
  <2>3. \A k \in DOMAIN queue : queue[k].op \in Writing =>
          \E j \in DOMAIN queue' : queue'[j] = queue[k]
    BY <1>2, <1>3
  <2> QED
    BY <1>2, <2>1, <2>2, <2>3 DEF SameEntries
<1>5. /\ blocked \in BOOLEAN
      /\ confirmed \in [Names -> 0 .. MaxWrites + 1] /\ written \in [Names -> 0 .. MaxWrites + 1]
  BY <1>1 DEF TypeOK
<1>6. queue[1].op = "all" => blocked /\ \A i \in DOMAIN queue' : queue'[i].op = "tick"
  BY <1>1, <1>2 DEF WaitsForLast, Waited
<1>7. \A i, j \in DOMAIN queue' : i < j /\ queue'[i].op \in Waited => queue'[j].op = "tick"
  BY <1>1, <1>2 DEF WaitsForLast, Waited
<1>8. (\E i \in DOMAIN queue' : queue'[i].op \in Waited) => blocked
  BY <1>1, <1>2 DEF WaitsForLast, Waited
<1>9. CASE scheduled # <<>>
  <2>1. /\ op' = queue[1].op /\ entry' = Head(scheduled) /\ step' = "save"
        /\ scheduled' = Tail(scheduled) /\ blocked' = blocked /\ confirmed' = confirmed
    BY <1>2, <1>5, <1>9 DEF BeginScheduled, Begin
  <2>2. WaitsForLast'
    BY <1>6, <1>7, <1>8, <2>1 DEF WaitsForLast, Waited
  <2>3. StorageInv'
    BY <1>2, <1>4, <1>9, <2>1, <2>2, BeginNext
  <2> QED
    BY <2>1, <2>3 DEF Stutter, ReadFile, Elsewhere
<1>10. CASE scheduled = <<>> /\ queue[1].op = "tick"
  <2>1. /\ op' = "idle" /\ entry' = NoEntry /\ step' = "idle" /\ scheduled' = scheduled
        /\ blocked' = blocked /\ confirmed' = confirmed
    BY <1>2, <1>5, <1>10 DEF BeginScheduled
  <2>2. WaitsForLast'
    BY <1>7, <1>8, <2>1 DEF WaitsForLast, Waited
  <2>3. StorageInv'
    BY <1>4, <1>5, <2>1, <2>2, EndOfJob
  <2> QED
    BY <2>1, <2>3 DEF Stutter, ReadFile, Elsewhere
<1>11. CASE scheduled = <<>> /\ queue[1].op = "all"
  <2>1. /\ op' = "idle" /\ entry' = NoEntry /\ step' = "idle" /\ scheduled' = scheduled
        /\ blocked' = FALSE /\ confirmed' = written
    BY <1>2, <1>6, <1>11 DEF BeginScheduled
  <2>2. WaitsForLast'
    BY <1>6, <1>11, <2>1 DEF WaitsForLast, Waited
  <2>3. StorageInv'
    BY <1>4, <1>5, <2>1, <2>2, EndOfJob
  <2>4. \A i \in DOMAIN queue : queue[i].op \notin Writing
    BY <1>2, <1>6, <1>11 DEF Writing
  <2>5. \A n \in Names \ broken : ReadFile(n) = written[n]
    BY <1>11, <2>4, AllIsRead
  <2> QED
    BY <2>1, <2>3, <2>5, ConfirmAll DEF Elsewhere
<1> QED
  BY <1>2, <1>9, <1>10, <1>11

LEMMA TakeJobStep ==
  ASSUME StorageInv, TakeJob
  PROVE  StorageInv' /\ (Stutter \/ Promise!Confirm(Names))
<1>0. Elsewhere
  BY DEF TakeJob, Elsewhere, counters
<1>1. CASE Head(queue).op = "write"
  BY <1>0, <1>1, TakeWrite DEF TakeJob
<1>2. CASE Head(queue).op = "sync"
  BY <1>0, <1>2, TakeSync DEF TakeJob
<1>3. CASE Head(queue).op \in {"all", "tick"}
  BY <1>0, <1>3, TakeScheduled DEF TakeJob
<1> QED
  BY <1>1, <1>2, <1>3 DEF TakeJob

LEMMA ReturnStep ==
  ASSUME StorageInv, Return
  PROVE  StorageInv' /\ (Stutter \/ \E C \in SUBSET Names : Promise!Confirm(C))
<1>1. TypeOK /\ InOrder /\ WaitsForLast /\ Kept /\ AtWork
  BY DEF StorageInv
<1>2. /\ step = "done" /\ op # "idle" /\ entry \in Entry
      /\ entry.name \notin broken => Reading(disk[entry.name]) = entry.content
      /\ Elsewhere
  BY DoneIsRead DEF Return, Elsewhere, counters
<1>3. entry.name \in Names /\ entry.content \in 1 .. MaxWrites + 1
  BY <1>2, EntryType
<1>4. /\ blocked \in BOOLEAN /\ queue \in Seq(Job)
      /\ confirmed \in [Names -> 0 .. MaxWrites + 1] /\ written \in [Names -> 0 .. MaxWrites + 1]
  BY <1>1 DEF TypeOK
<1>5. queue' = queue => SameEntries
  BY <1>1, <1>4 DEF InOrder, SameEntries
<1>6. CASE op = "sync"
  <2>1. /\ op' = "idle" /\ entry' = NoEntry /\ step' = "idle" /\ blocked' = FALSE
        /\ confirmed' = [confirmed EXCEPT ![entry.name] = entry.content]
        /\ queue' = queue /\ scheduled' = scheduled
    BY <1>6 DEF Return
  <2>2. \A i \in DOMAIN queue : queue[i].op = "tick"
    BY <1>1, <1>6 DEF WaitsForLast, Waited
  <2>3. WaitsForLast'
    BY <2>1, <2>2 DEF WaitsForLast, Waited
  <2>4. confirmed' \in [Names -> 0 .. MaxWrites + 1]
    BY <1>3, <1>4, <2>1
  <2>5. StorageInv'
    BY <1>2, <1>5, <2>1, <2>3, <2>4, EndOfJob
  <2>6. entry.name \notin broken => written[entry.name] = entry.content
    <3> SUFFICES ASSUME entry.name \notin broken PROVE written[entry.name] = entry.content
      OBVIOUS
    <3> DEFINE d == [name |-> entry.name, content |-> written[entry.name]]
    <3>1. \A i \in DOMAIN queue : queue[i].op \notin Writing
      BY <2>2 DEF Writing
    <3>2. \A i \in DOMAIN scheduled : scheduled[i] # d
      BY <1>1, <1>2 DEF AtWork
    <3>3. Reading(disk[entry.name]) = written[entry.name] \/ entry = d
      BY <1>1, <1>3, <3>1, <3>2 DEF Kept
    <3> QED
      BY <1>2, <3>3
  <2>7. Promise!Confirm({entry.name})
    <3>1. entry.name \notin broken => [m \in Names |-> ReadFile(m)][entry.name] = entry.content
      BY <1>2, <1>3, ReadingIsReadFile
    <3>2. \A n \in Names \ broken :
            confirmed'[n] = IF n \in {entry.name}
                            THEN [m \in Names |-> ReadFile(m)][n] ELSE confirmed[n]
      BY <1>3, <1>4, <2>1, <3>1
    <3>3. [m \in Names |-> ReadFile(m)]' = [m \in Names |-> ReadFile(m)]
      BY <1>2 DEF ReadFile, Elsewhere
    <3>4. \A n \in {entry.name} \ broken : [m \in Names |-> ReadFile(m)][n] = written[n]
      BY <2>6, <3>1
    <3> QED
      BY <1>2, <3>2, <3>3, <3>4 DEF Promise!Confirm, Elsewhere
  <2> QED
    BY <1>3, <2>5, <2>7
<1>7. CASE op = "tick"
  <2> DEFINE tick == [op |-> "tick", entry |-> NoEntry]
  <2>1. /\ op' = "idle" /\ entry' = NoEntry /\ step' = "idle"
        /\ queue' = (IF scheduled = <<>> THEN queue ELSE Append(queue, tick))
        /\ UNCHANGED <<scheduled, blocked, confirmed>>
    BY <1>7 DEF Return, WithTick
  <2>2. tick \in Job /\ tick.op = "tick" /\ tick.op \notin Writing /\ tick.op \notin Waited
    BY DEF Job, Writing, Waited
  <2> HIDE DEF tick
  <2>3. SameEntries /\ WaitsForLast'
    <3>1. CASE queue' = queue
      <4>1. SameEntries
        BY <1>5, <3>1
      <4>2. WaitsForLast'
        BY <1>1, <2>1, <3>1 DEF WaitsForLast, Waited
      <4> QED
        BY <4>1, <4>2
    <3>2. CASE queue' = Append(queue, tick)
      <4>1. /\ queue' \in Seq(Job)
            /\ \A i \in DOMAIN queue' : \/ i \in DOMAIN queue /\ queue'[i] = queue[i]
                                        \/ i = Len(queue) + 1 /\ queue'[i] = tick
            /\ \A i \in DOMAIN queue : /\ i \in DOMAIN queue' /\ queue'[i] = queue[i]
                                       /\ i \in Int /\ i < Len(queue) + 1
            /\ Len(queue) \in Nat
        BY <1>4, <2>2, <3>2, AppendOf
      <4>2. SameEntries
        BY <1>1, <2>2, <4>1 DEF InOrder, SameEntries
      <4>3. WaitsForLast'
        BY <1>1, <2>1, <2>2, <4>1 DEF WaitsForLast, Waited
      <4> QED
        BY <4>2, <4>3
    <3> QED
      BY <2>1, <3>1, <3>2
  <2>4. StorageInv'
    BY <1>2, <1>4, <2>1, <2>3, EndOfJob
  <2> QED
    BY <1>2, <2>1, <2>4 DEF Stutter, ReadFile, Elsewhere
<1>8. CASE op = "all" /\ scheduled = <<>>
  <2>1. /\ op' = "idle" /\ entry' = NoEntry /\ step' = "idle" /\ blocked' = FALSE
        /\ confirmed' = written /\ queue' = queue /\ scheduled' = scheduled
    BY <1>8 DEF Return, BeginScheduled
  <2>2. \A i \in DOMAIN queue : queue[i].op = "tick"
    BY <1>1, <1>8 DEF WaitsForLast, Waited
  <2>3. WaitsForLast'
    BY <2>1, <2>2 DEF WaitsForLast, Waited
  <2>4. StorageInv'
    BY <1>2, <1>4, <1>5, <2>1, <2>3, EndOfJob
  <2>5. \A n \in Names \ broken : ReadFile(n) = written[n]
    BY <1>2, <1>8, <2>2, AllIsRead DEF Writing
  <2> QED
    BY <1>2, <2>1, <2>4, <2>5, ConfirmAll DEF Elsewhere
<1>9. CASE op = "all" /\ scheduled # <<>>
  <2>1. blocked /\ \A i \in DOMAIN queue : queue[i].op = "tick"
    BY <1>1, <1>9 DEF WaitsForLast, Waited
  <2>2. /\ op' = "all" /\ entry' = Head(scheduled) /\ step' = "save" /\ blocked' = blocked
        /\ scheduled' = Tail(scheduled) /\ confirmed' = confirmed /\ queue' = queue
    BY <1>4, <1>9, <2>1 DEF Return, BeginScheduled, Begin
  <2>3. WaitsForLast'
    BY <2>1, <2>2 DEF WaitsForLast, Waited
  <2>4. StorageInv'
    BY <1>2, <1>5, <1>9, <2>2, <2>3, BeginNext
  <2> QED
    BY <1>2, <2>2, <2>4 DEF Stutter, ReadFile, Elsewhere
<1> QED
  BY <1>6, <1>7, <1>8, <1>9 DEF Return

-----------------------------------------------------------------------------
(* The steps on the disk, of writeNow() and of a reader.                   *)

(* File n becomes g, with k failures so far and the files in B broken: what*)
(* the invariant asks of such a step.                                      *)
Changes(n, g, k, B) ==
  /\ disk' = [disk EXCEPT ![n] = g] /\ g \in [Variants -> Content]
  /\ failures' = k /\ k \in {failures, failures + 1} /\ k <= MaxFailures
  /\ broken' = B /\ B \in {broken, broken \cup {n}, broken \ {n}}
  /\ reading' \in {reading, NoRead}
  /\ UNCHANGED <<queue, scheduled, op, entry, blocked, written, confirmed, writes, crashes>>

(* Nothing comes into the file but the content at work; 's' is missed and  *)
(* '0' is torn after failures only.                                        *)
Fills(n, g, k) ==
  /\ g["1"] # Torn
  /\ \A v \in Variants : \/ g[v] <= 0
                         \/ \E w \in Variants : g[v] = disk[n][w]
                         \/ op # "idle" /\ n = entry.name /\ g[v] = entry.content
  /\ g["s"] = Absent => disk[n]["s"] = Absent \/ k > 1 \/ n \in Old
  /\ g["0"] = Torn => k > 0

(* A reader still finds what it has found or the content at work, or the   *)
(* last one is there again, or the file is broken.                         *)
Reads(n, g, B) ==
  n \notin B =>
    \/ Reading(g) = written[n] /\ Reading(g) >= 1
    \/ n \notin broken /\ Reading(g) = Reading(disk[n])
    \/ n \notin broken /\ op # "idle" /\ n = entry.name /\ Reading(g) = entry.content

Goes(k) ==
  /\ step' \in {"idle", "save", "dropSimple", "dropOld", "open", "write",
                "dropBackup", "rename", "dropSafe", "done"}
  /\ op = "idle" <=> step' = "idle"
  /\ step' \in PlainSteps => k > 0
  /\ step' = "dropSafe" => k > 1 \/ entry.name \in Old

LEMMA DiskNumbers ==
  ASSUME StorageInv, NEW n \in Names
  PROVE  /\ Reading(disk[n]) \in Nat
         /\ \A k \in Nat : NoneNewer(disk[n], k) => Reading(disk[n]) <= k
         /\ op # "idle" => /\ entry \in Entry /\ entry.name \in Names /\ entry.content \in Nat
                           /\ entry.content >= 1 /\ entry.content \in Content
                           /\ entry = [name |-> entry.name, content |-> entry.content]
                           /\ entry.content <= written[entry.name]
                           /\ written[entry.name] <= writes + 1
<1>1. /\ disk[n] \in [Variants -> Content] /\ disk[n]["1"] # Torn
      /\ \A v \in Variants : disk[n][v] \in Int
  BY Numbers DEF StorageInv, OfFiles, OnDisk
<1>2. Reading(disk[n]) \in Nat /\ (Reading(disk[n]) = 0 \/ \E v \in Variants : Reading(disk[n]) = disk[n][v])
  BY <1>1, ReadingRange
<1>3. \A k \in Nat : NoneNewer(disk[n], k) => Reading(disk[n]) <= k
  BY <1>1, <1>2 DEF NoneNewer
<1>4. op # "idle" => entry \in Entry /\ entry.content <= written[entry.name]
  BY DEF StorageInv, AtWork, InOrder
<1>5. op # "idle" => /\ entry.name \in Names /\ entry.content \in 1 .. MaxWrites + 1
                     /\ entry = [name |-> entry.name, content |-> entry.content]
  BY <1>4, EntryType
<1>6. op # "idle" => written[entry.name] <= writes + 1
  BY <1>5 DEF StorageInv, InOrder
<1> QED
  BY <1>2, <1>3, <1>4, <1>5, <1>6, StorageAssumption DEF Content, Torn

LEMMA DiskStep ==
  ASSUME StorageInv, NEW n \in Names, NEW g, NEW k, NEW B,
         Changes(n, g, k, B), Fills(n, g, k), Reads(n, g, B), Goes(k),
         n \in B => Blame(n, k),
         op # "idle" /\ entry.name \notin B => StepOn(disk'[entry.name], step', entry.content),
         reading' # NoRead /\ reading.name = n /\ reading.victim = "1" /\ n \notin B => Spares(g)
  PROVE  StorageInv'
<1>1. /\ TypeOK /\ AtWork /\ OfFiles /\ InOrder /\ WaitsForLast /\ Kept
  BY DEF StorageInv
<1>2. /\ disk' = [disk EXCEPT ![n] = g] /\ g \in [Variants -> Content]
      /\ failures' = k /\ k \in {failures, failures + 1} /\ k <= MaxFailures
      /\ broken' = B /\ B \in {broken, broken \cup {n}, broken \ {n}}
      /\ reading' \in {reading, NoRead}
      /\ UNCHANGED <<queue, scheduled, op, entry, blocked, written, confirmed, writes, crashes>>
  BY DEF Changes
<1>3. /\ MaxWrites \in Nat /\ writes \in Nat /\ failures \in Nat /\ MaxFailures \in Nat /\ k \in Nat
      /\ \A m \in Names : written[m] \in Nat
      /\ \A m \in Names : /\ disk[m] \in [Variants -> Content]
                          /\ \A v \in Variants : disk[m][v] \in Int
  BY <1>1, <1>2, Numbers
<1>4. /\ disk' \in [Names -> [Variants -> Content]] /\ disk'[n] = g
      /\ \A m \in Names : m # n => disk'[m] = disk[m] /\ (m \in B <=> m \in broken)
      /\ \A v \in Variants : g[v] \in Int
  <2>1. disk \in [Names -> [Variants -> Content]]
    BY <1>1 DEF TypeOK
  <2>2. Content \subseteq Int
    BY <1>3 DEF Content, Torn
  <2> QED
    BY <1>2, <2>1, <2>2
<1>5. op # "idle" => /\ entry \in Entry /\ entry.name \in Names /\ entry.content \in Nat
                     /\ entry.content >= 1
                     /\ entry = [name |-> entry.name, content |-> entry.content]
                     /\ entry.content <= written[entry.name]
                     /\ written[entry.name] <= writes + 1
  BY DiskNumbers
<1>6. op # "idle" => NoneNewer(disk[entry.name], entry.content)
  BY <1>1 DEF InOrder
<1>7. TypeOK'
  <2>1. failures' \in 0 .. MaxFailures /\ broken' \subseteq Names
    BY <1>1, <1>2, <1>3 DEF TypeOK
  <2>2. reading' \in [name : Names, victim : {"0", "1"}] \cup {NoRead}
    BY <1>1, <1>2 DEF TypeOK
  <2>3. op' = "idle" <=> step' = "idle" /\ entry' = NoEntry
    BY <1>1, <1>2 DEF TypeOK, Goes
  <2> QED
    BY <1>1, <1>2, <1>4, <2>1, <2>2, <2>3 DEF TypeOK, Goes
<1>8. AtWork'
  BY <1>1, <1>2 DEF AtWork, Goes
<1>9. n \notin B => Reading(g) \in Nat /\ 1 <= Reading(g) /\ Reading(g) <= written[n]
  <2>1. n \notin broken => /\ Reading(disk[n]) \in Nat /\ 1 <= Reading(disk[n])
                           /\ Reading(disk[n]) <= written[n]
    BY <1>1, DiskNumbers DEF OfFiles, Readable
  <2> QED
    BY <1>3, <1>5, <2>1 DEF Reads
<1>10. Readable'
  <2> SUFFICES ASSUME NEW m \in Names, m \notin B
               PROVE  1 <= Reading(disk'[m]) /\ Reading(disk'[m]) <= written[m]
    BY <1>2 DEF Readable
  <2>1. CASE m = n
    BY <1>4, <1>9, <2>1
  <2>2. CASE m # n
    BY <1>1, <1>4, <2>2 DEF OfFiles, Readable
  <2> QED
    BY <2>1, <2>2
<1>11. OnDisk'
  <2> SUFFICES ASSUME NEW m \in Names
               PROVE  /\ disk'[m]["1"] # Torn
                      /\ \A v \in Variants : disk'[m][v] <= writes + 1
    BY <1>2 DEF OnDisk
  <2>1. /\ disk[m]["1"] # Torn
        /\ \A v \in Variants : disk[m][v] <= writes + 1
    BY <1>1 DEF OfFiles, OnDisk
  <2>2. CASE m = n
    BY <1>3, <1>4, <1>5, <2>1, <2>2 DEF Fills
  <2>3. CASE m # n
    BY <1>4, <2>1, <2>3
  <2> QED
    BY <2>2, <2>3
<1>12. Blamed'
  <2>1. \A m \in Names : Blame(m, failures) => Blame(m, k)
    BY <1>2, <1>3 DEF Blame
  <2>2. \A m \in B : Blame(m, k)
    BY <1>1, <1>2, <2>1 DEF OfFiles, Blamed, TypeOK
  <2>3. \A m \in Names : disk'[m]["s"] = Absent => k > 1 \/ m \in Old
    <3>1. \A m \in Names : disk[m]["s"] = Absent => failures > 1 \/ m \in Old
      BY <1>1 DEF OfFiles, Blamed
    <3>2. failures > 1 => k > 1
      BY <1>2, <1>3
    <3> QED
      BY <1>4, <3>1, <3>2 DEF Fills
  <2>4. \A m \in Names : disk'[m]["0"] = Torn => k > 0
    <3>1. \A m \in Names : disk[m]["0"] = Torn => failures > 0
      BY <1>1 DEF OfFiles, Blamed
    <3>2. failures > 0 => k > 0
      BY <1>2, <1>3
    <3> QED
      BY <1>4, <3>1, <3>2 DEF Fills
  <2>5. reading' # NoRead /\ reading'.victim = "0" => Blame(reading'.name, k)
    <3>1. reading # NoRead => reading.name \in Names
      BY <1>1 DEF TypeOK
    <3> QED
      BY <1>1, <1>2, <2>1, <3>1 DEF OfFiles, Blamed
  <2> QED
    BY <1>2, <2>2, <2>3, <2>4, <2>5 DEF Blamed, Goes
<1>13. StepDone'
  BY <1>2 DEF StepDone
<1>14. ReaderSpares'
  <2> SUFFICES ASSUME reading' # NoRead, reading.victim = "1", reading.name \notin B
               PROVE  Spares(disk'[reading.name])
    BY <1>2 DEF ReaderSpares
  <2>1. reading # NoRead /\ reading.name \in Names
    BY <1>1, <1>2 DEF TypeOK
  <2>2. CASE reading.name = n
    BY <1>4, <2>2
  <2>3. CASE reading.name # n
    BY <1>1, <1>4, <2>1, <2>3 DEF OfFiles, ReaderSpares
  <2> QED
    BY <2>2, <2>3
<1>15. InOrder'
  <2>1. ASSUME NEW m \in Names, NEW c \in Nat, NoneNewer(disk[m], c),
               op # "idle" /\ m = entry.name => entry.content <= c
        PROVE  NoneNewer(disk'[m], c)
    <3>1. CASE m = n
      BY <1>3, <1>4, <1>5, <2>1, <3>1 DEF NoneNewer, Fills
    <3>2. CASE m # n
      BY <1>4, <2>1, <3>2
    <3> QED
      BY <3>1, <3>2
  <2>2. \A m \in Names : written'[m] <= writes' + 1
    BY <1>1, <1>2 DEF InOrder
  <2>3. ASSUME NEW j \in DOMAIN queue', queue'[j].op \in Writing
        PROVE  /\ NoneNewer(disk'[queue'[j].entry.name], queue'[j].entry.content)
               /\ queue'[j].entry.content <= written'[queue'[j].entry.name]
               /\ \A i \in DOMAIN scheduled' : scheduled'[i].content < queue'[j].entry.content
               /\ op' # "idle" => entry'.content < queue'[j].entry.content
    <3> DEFINE e == queue[j].entry
    <3>1. j \in DOMAIN queue /\ queue'[j] = queue[j] /\ queue[j].op \in Writing /\ queue[j] \in Job
      BY <1>1, <1>2, <2>3 DEF TypeOK
    <3>2. e \in Entry /\ e.name \in Names /\ e.content \in Nat
      BY <3>1, JobType, EntryType, StorageAssumption
    <3>3. /\ NoneNewer(disk[e.name], e.content) /\ e.content <= written[e.name]
          /\ \A i \in DOMAIN scheduled : scheduled[i].content < e.content
          /\ op # "idle" => entry.content < e.content
      BY <1>1, <3>1 DEF InOrder
    <3>4. NoneNewer(disk'[e.name], e.content)
      BY <1>5, <2>1, <3>2, <3>3
    <3> QED
      BY <1>2, <3>1, <3>3, <3>4
  <2>4. ASSUME NEW i \in DOMAIN scheduled'
        PROVE  /\ NoneNewer(disk'[scheduled'[i].name], scheduled'[i].content)
               /\ scheduled'[i].content <= written'[scheduled'[i].name]
    <3> DEFINE e == scheduled[i]
    <3>1. e \in Entry /\ e.name \in Names /\ e.content \in Nat /\ i \in DOMAIN scheduled
      BY <1>1, <1>2, EntryType, StorageAssumption DEF TypeOK
    <3>2. NoneNewer(disk[e.name], e.content) /\ e.content <= written[e.name]
      BY <1>1, <3>1 DEF InOrder
    <3>3. op # "idle" => e.name # entry.name
      BY <1>1, <3>1 DEF AtWork
    <3>4. NoneNewer(disk'[e.name], e.content)
      BY <2>1, <3>1, <3>2, <3>3
    <3> QED
      BY <1>2, <3>2, <3>4
  <2>5. op # "idle" => NoneNewer(disk'[entry.name], entry.content)
    BY <1>5, <1>6, <2>1
  <2> QED
    BY <1>1, <1>2, <1>5, <2>2, <2>3, <2>4, <2>5 DEF InOrder
<1>16. WaitsForLast'
  BY <1>1, <1>2 DEF WaitsForLast
<1>17. Kept'
  <2> SUFFICES ASSUME NEW m \in Names, m \notin B
               PROVE  LET e == [name |-> m, content |-> written[m]]
                      IN  \/ Reading(disk'[m]) = written[m]
                          \/ op # "idle" /\ entry = e
                          \/ \E i \in DOMAIN scheduled : scheduled[i] = e
                          \/ \E i \in DOMAIN queue : queue[i].op \in Writing /\ queue[i].entry = e
    BY <1>2 DEF Kept
  <2> DEFINE e == [name |-> m, content |-> written[m]]
             kept == \/ op # "idle" /\ entry = e
                     \/ \E i \in DOMAIN scheduled : scheduled[i] = e
                     \/ \E i \in DOMAIN queue : queue[i].op \in Writing /\ queue[i].entry = e
  <2>1. m \notin broken => Reading(disk[m]) = written[m] \/ kept
    BY <1>1 DEF Kept
  <2> HIDE DEF kept
  <2>2. Reading(disk'[m]) = written[m] \/ kept
    <3>1. CASE m # n
      BY <1>4, <2>1, <3>1
    <3>2. CASE m = n /\ Reading(g) = written[n]
      BY <1>4, <3>2
    <3>3. CASE m = n /\ n \notin broken /\ Reading(g) = Reading(disk[n])
      BY <1>4, <2>1, <3>3
    <3>4. CASE /\ m = n /\ n \notin broken /\ op # "idle" /\ n = entry.name
               /\ Reading(g) = entry.content
      <4>1. CASE Reading(disk[m]) = written[m]
        <5>1. Reading(disk[m]) <= entry.content
          BY <1>5, <1>6, <3>4, DiskNumbers
        <5>2. entry.content = written[m]
          BY <1>3, <1>5, <3>4, <4>1, <5>1
        <5> QED
          BY <1>4, <3>4, <5>2
      <4> QED
        BY <2>1, <3>4, <4>1
    <3> QED
      BY <3>1, <3>2, <3>3, <3>4 DEF Reads
  <2> QED
    BY <2>2 DEF kept
<1> QED
  BY <1>7, <1>8, <1>10, <1>11, <1>12, <1>13, <1>14, <1>15, <1>16, <1>17 DEF StorageInv, OfFiles

(* What such a step is to DurableCells. *)
LEMMA Refines ==
  ASSUME StorageInv, NEW n \in Names, NEW g, NEW k, NEW B,
         Changes(n, g, k, B), Reads(n, g, B), n \in B => Blame(n, k),
         n \notin B /\ (n \in broken \/ Reading(g) # Reading(disk[n])) => k = failures
  PROVE  [Promise!Next]_(Promise!vars)
<1> DEFINE d == [m \in Names |-> ReadFile(m)]
<1>1. /\ disk' = [disk EXCEPT ![n] = g] /\ failures' = k /\ k \in {failures, failures + 1}
      /\ broken' = B /\ B \in {broken, broken \cup {n}, broken \ {n}}
      /\ UNCHANGED <<written, confirmed>>
  BY DEF Changes
<1>2. disk \in [Names -> [Variants -> Content]] /\ failures \in Nat /\ written[n] \in Nat
  BY Numbers DEF StorageInv, TypeOK
<1>3. disk'[n] = g /\ \A m \in Names : m # n => disk'[m] = disk[m]
  BY <1>1, <1>2
<1>4. \A m \in Names : d[m] = Reading(disk[m]) /\ d'[m] = Reading(disk'[m])
  BY ReadingIsReadFile
<1>5. d' = [d EXCEPT ![n] = Reading(g)] /\ d'[n] = Reading(g)
  <2>1. \A m \in Names : ReadFile(m)' = IF m = n THEN Reading(g) ELSE ReadFile(m)
    BY <1>3, ReadingIsReadFile
  <2> QED
    BY <2>1
<1> HIDE DEF d
<1>6. CASE n \in B
  <2>1. B = broken \cup {n}
    BY <1>1, <1>6
  <2>2. failures' > 1 \/ (failures' = 1 /\ n \in Old)
    BY <1>1, <1>6 DEF Blame
  <2>3. d' = [d EXCEPT ![n] = d'[n]]
    BY <1>5
  <2>4. Promise!Break(n)
    BY <1>1, <2>1, <2>2, <2>3 DEF Promise!Break, d
  <2> QED
    BY <2>4 DEF Promise!Next
<1>7. CASE n \notin B /\ n \in broken
  <2>1. B = broken \ {n} /\ failures' = failures
    BY <1>1, <1>7
  <2>2. Reading(g) = written[n]
    BY <1>7 DEF Reads
  <2>3. d' = [d EXCEPT ![n] = written[n]]
    BY <1>5, <2>2
  <2>4. Promise!Mend(n)
    BY <1>1, <1>7, <2>1, <2>3 DEF Promise!Mend, d
  <2> QED
    BY <2>4 DEF Promise!Next
<1>8. CASE n \notin B /\ n \notin broken /\ Reading(g) = Reading(disk[n])
  <2>1. B = broken
    BY <1>1, <1>8
  <2>2. d' = d
    BY <1>3, <1>8, ReadingIsReadFile DEF d
  <2>3. CASE k = failures
    BY <1>1, <2>1, <2>2, <2>3 DEF Promise!vars, d
  <2>4. CASE k = failures + 1
    <3>1. Promise!Fail
      BY <1>1, <2>1, <2>2, <2>4 DEF Promise!Fail, d
    <3> QED
      BY <3>1 DEF Promise!Next
  <2> QED
    BY <1>1, <2>3, <2>4
<1>9. CASE n \notin B /\ n \notin broken /\ Reading(g) # Reading(disk[n])
  <2>1. B = broken /\ failures' = failures
    BY <1>1, <1>9
  <2>2. Reading(disk[n]) \in Nat /\ Reading(disk[n]) <= written[n]
    BY <1>9, DiskNumbers DEF StorageInv, OfFiles, Readable
  <2>3. Reading(g) > Reading(disk[n]) /\ Reading(g) <= written[n]
    <3>1. CASE Reading(g) = written[n]
      BY <1>2, <1>9, <2>2, <3>1
    <3>2. CASE op # "idle" /\ n = entry.name /\ Reading(g) = entry.content
      <4>1. entry.content \in Nat /\ entry.content <= written[n] /\ NoneNewer(disk[n], entry.content)
        BY <3>2, DiskNumbers DEF StorageInv, InOrder
      <4>2. Reading(disk[n]) <= entry.content
        BY <4>1, DiskNumbers
      <4> QED
        BY <1>2, <1>9, <2>2, <3>2, <4>1, <4>2
    <3> QED
      BY <1>9, <3>1, <3>2 DEF Reads
  <2>4. d'[n] > d[n] /\ d'[n] <= written[n] /\ d' = [d EXCEPT ![n] = d'[n]]
    BY <1>4, <1>5, <2>3
  <2>5. Promise!Flush(n)
    BY <1>1, <1>9, <2>1, <2>4 DEF Promise!Flush, d
  <2> QED
    BY <2>5 DEF Promise!Next
<1> QED
  BY <1>6, <1>7, <1>8, <1>9

LEMMA WriteNowStep ==
  ASSUME StorageInv, step # "idle", NEW g, NEW k, NEW B,
         Changes(entry.name, g, k, B), Fills(entry.name, g, k), Reads(entry.name, g, B), Goes(k),
         entry.name \in B => Blame(entry.name, k),
         entry.name \notin B =>
           /\ StepOn(g, step', entry.content)
           /\ entry.name \in broken \/ Spares(disk[entry.name]) => Spares(g)
           /\ entry.name \in broken \/ Reading(g) # Reading(disk[entry.name]) => k = failures
  PROVE  StorageInv' /\ [Promise!Next]_(Promise!vars)
<1>1. op # "idle" /\ entry.name \in Names
  BY EntryType DEF StorageInv, AtWork
<1>2. disk'[entry.name] = g
  BY <1>1 DEF Changes, StorageInv, TypeOK
<1>3. reading' # NoRead /\ reading.name = entry.name /\ reading.victim = "1" /\ entry.name \notin B
        => Spares(g)
  BY DEF StorageInv, OfFiles, ReaderSpares, Changes
<1>4. StorageInv'
  BY <1>1, <1>2, <1>3, DiskStep
<1>5. [Promise!Next]_(Promise!vars)
  BY <1>1, Refines
<1> QED
  BY <1>4, <1>5

(* The file at work, before a step. *)
LEMMA FileAtWork ==
  ASSUME StorageInv, step # "idle", NEW f, f = disk[entry.name], NEW c, c = entry.content,
         NEW n, n = entry.name
  PROVE  /\ op # "idle" /\ n \in Names /\ c \in Content /\ c \in Nat /\ c >= 1 /\ c <= written[n]
         /\ written[n] \in Nat /\ failures \in Nat
         /\ f \in [Variants -> Content] /\ \A v \in Variants : f[v] \in Int /\ f[v] >= -1 /\ f[v] <= c
         /\ f["1"] # Torn /\ (f["0"] = Torn => failures > 0)
         /\ f["s"] = Absent => failures > 1 \/ n \in Old
         /\ n \in broken => Blame(n, failures)
         /\ n \notin broken => Reading(f) \in Nat /\ 1 <= Reading(f) /\ StepOn(f, step, c)
         /\ step \in PlainSteps => failures > 0
         /\ step = "dropSafe" => failures > 1 \/ n \in Old
<1>1. /\ op # "idle" /\ n \in Names /\ c \in Content /\ c \in Nat /\ c >= 1 /\ c <= written[n]
  <2>1. op # "idle" /\ entry.name \in Names
    BY EntryType DEF StorageInv, AtWork
  <2> QED
    BY <2>1, DiskNumbers
<1>2. written[n] \in Nat /\ failures \in Nat /\ f \in [Variants -> Content]
  BY <1>1, Numbers DEF StorageInv
<1>3. \A v \in Variants : f[v] \in Int /\ f[v] >= -1 /\ f[v] <= c
  <2>1. \A v \in Variants : f[v] \in Content
    BY <1>2
  <2>2. NoneNewer(f, c)
    BY <1>1 DEF StorageInv, InOrder
  <2> QED
    BY <2>1, <2>2, StorageAssumption DEF NoneNewer, Content, Torn
<1>4. /\ f["1"] # Torn /\ (f["0"] = Torn => failures > 0)
      /\ f["s"] = Absent => failures > 1 \/ n \in Old
      /\ n \in broken => Blame(n, failures)
      /\ step \in PlainSteps => failures > 0
      /\ step = "dropSafe" => failures > 1 \/ n \in Old
  BY <1>1 DEF StorageInv, OfFiles, OnDisk, Blamed
<1>5. n \notin broken => Reading(f) \in Nat /\ 1 <= Reading(f) /\ StepOn(f, step, c)
  BY <1>1, DiskNumbers DEF StorageInv, OfFiles, Readable, StepDone
<1> QED
  BY <1>1, <1>2, <1>3, <1>4, <1>5

(* A step of writeNow() that fails leaves the file as it is. *)
LEMMA FailsStep ==
  ASSUME StorageInv, step # "idle", NEW next, NEW breaks \in BOOLEAN, Fails(next, breaks),
         Goes(failures + 1),
         breaks => failures > 0,
         ~breaks /\ entry.name \notin broken => StepOn(disk[entry.name], next, entry.content)
  PROVE  StorageInv' /\ [Promise!Next]_(Promise!vars)
<1> DEFINE n == entry.name
           f == disk[n]
           c == entry.content
           k == failures + 1
           B == IF breaks THEN broken \cup {n} ELSE broken
<1>1. /\ op # "idle" /\ n \in Names /\ failures \in Nat /\ f \in [Variants -> Content]
      /\ \A v \in Variants : f[v] \in Int
      /\ f["1"] # Torn /\ (f["0"] = Torn => failures > 0)
      /\ f["s"] = Absent => failures > 1 \/ n \in Old
      /\ n \in broken => Blame(n, failures)
      /\ n \notin broken => Reading(f) \in Nat /\ 1 <= Reading(f)
  BY FileAtWork
<1>2. disk \in [Names -> [Variants -> Content]]
  BY DEF StorageInv, TypeOK
<1>3. Changes(n, f, k, B)
  <2>1. disk' = [disk EXCEPT ![n] = f]
    BY <1>2 DEF Fails
  <2>2. k <= MaxFailures
    BY <1>1, StorageAssumption DEF Fails
  <2> QED
    BY <1>1, <2>1, <2>2 DEF Fails, Changes
<1>4. Fills(n, f, k)
  BY <1>1 DEF Fills
<1>5. Reads(n, f, B)
  BY DEF Reads
<1>6. n \in B => Blame(n, k)
  BY <1>1 DEF Blame
<1>7. n \notin B => n \notin broken /\ StepOn(f, step', c)
  BY DEF Fails
<1> HIDE DEF n, f, c, k, B
<1>8. Goes(k)
  BY DEF k
<1> QED
  BY <1>3, <1>4, <1>5, <1>6, <1>7, <1>8, WriteNowStep DEF n, f, c

LEMMA FailureSteps ==
  ASSUME StorageInv,
         \/ CommitFails \/ OpenFails \/ ShortWrite \/ RemoveFails
         \/ step = "rename" /\ Fails("dropSafe", FALSE)
  PROVE  StorageInv' /\ [Promise!Next]_(Promise!vars)
<1> DEFINE n == entry.name
           f == disk[n]
           c == entry.content
<1>1. step # "idle"
  BY DEF CommitFails, OpenFails, ShortWrite, RemoveFails
<1>2. /\ op # "idle" /\ failures \in Nat /\ c >= 1 /\ c \in Nat
      /\ n \notin broken => StepOn(f, step, c)
      /\ step \in PlainSteps => failures > 0
  BY <1>1, FileAtWork
<1>3. (step \in PlainSteps => failures + 1 > 1) /\ failures + 1 > 0
  BY <1>2
<1>4. CASE CommitFails
  <2>1. StepOn(f, "open", c)
    BY DEF StepOn
  <2> QED
    BY <1>1, <1>2, <1>3, <1>4, <2>1, FailsStep DEF CommitFails, Fails, Goes
<1>5. CASE OpenFails
  BY <1>1, <1>2, <1>3, <1>5, FailsStep DEF OpenFails, Fails, Goes, PlainSteps
<1>6. CASE ShortWrite
  BY <1>1, <1>2, <1>3, <1>6, FailsStep DEF ShortWrite, Fails, Goes, PlainSteps
<1>7. CASE step = "dropSimple" /\ Fails("dropOld", FALSE)
  <2>1. n \notin broken => StepOn(f, "dropOld", c)
    BY <1>2, <1>7 DEF StepOn
  <2> QED
    BY <1>1, <1>2, <1>3, <1>7, <2>1, FailsStep DEF Fails, Goes
<1>8. CASE step = "dropOld" /\ Fails("done", FALSE)
  <2>1. n \notin broken => f["s"] = c
    BY <1>2, <1>8 DEF StepOn
  <2>2. n \notin broken => StepOn(f, "done", c)
    BY <1>2, <2>1 DEF StepOn, Reading, Absent, Torn
  <2> QED
    BY <1>1, <1>2, <1>3, <1>8, <2>2, FailsStep DEF Fails, Goes
<1>9. CASE step = "dropBackup" /\ Fails("rename", FALSE)
  <2>1. n \notin broken => StepOn(f, "rename", c)
    BY <1>2, <1>9 DEF StepOn
  <2> QED
    BY <1>1, <1>2, <1>3, <1>9, <2>1, FailsStep DEF Fails, Goes
<1>10. CASE step = "dropSafe" /\ Fails("done", TRUE)
  BY <1>1, <1>2, <1>3, <1>10, FailsStep DEF Fails, Goes, PlainSteps
<1>11. CASE step = "rename" /\ Fails("dropSafe", FALSE)
  BY <1>1, <1>2, <1>3, <1>11, FailsStep DEF Fails, Goes, StepOn, PlainSteps
<1> QED
  BY <1>4, <1>5, <1>6, <1>7, <1>8, <1>9, <1>10, <1>11 DEF RemoveFails

(* The two ways in which a step changes the file at work. *)
LEMMA MakeChanges ==
  ASSUME StorageInv, step # "idle", NEW g \in [Variants -> Content], NEW next,
         NEW breaks \in BOOLEAN, Make(g, next, breaks)
  PROVE  /\ Changes(entry.name, g, failures, IF breaks THEN broken \cup {entry.name} ELSE broken)
         /\ step' = next
<1>1. failures \in Nat /\ failures <= MaxFailures
  BY StorageAssumption DEF StorageInv, TypeOK
<1> QED
  BY <1>1 DEF Make, Changes, counters

LEMMA ReplaceChanges ==
  ASSUME StorageInv, step # "idle", NEW g \in [Variants -> Content], NEW next, Replace(g, next)
  PROVE  /\ Changes(entry.name, g, failures,
                    IF g["s"] = written[entry.name] THEN broken \ {entry.name} ELSE broken)
         /\ step' = next
<1>1. failures \in Nat /\ failures <= MaxFailures
  BY StorageAssumption DEF StorageInv, TypeOK
<1> QED
  BY <1>1 DEF Replace, Changes, counters

LEMMA WithFacts ==
  ASSUME NEW f \in [Variants -> Content], NEW v \in Variants, NEW d \in Content,
         NEW g, g = [f EXCEPT ![v] = d]
  PROVE  /\ g \in [Variants -> Content] /\ g[v] = d
         /\ \A w \in Variants : w # v => g[w] = f[w]
OBVIOUS

LEMMA CommitStep ==
  ASSUME StorageInv, Commit
  PROVE  StorageInv' /\ [Promise!Next]_(Promise!vars)
<1> DEFINE n == entry.name
           f == disk[n]
           c == entry.content
           g == [f EXCEPT !["s"] = c]
           B == IF g["s"] = written[n] THEN broken \ {n} ELSE broken
<1>1. step = "save" /\ step # "idle" /\ Replace(g, "dropSimple")
  BY DEF Commit, With, File
<1>2. /\ op # "idle" /\ n \in Names /\ c \in Content /\ c \in Nat /\ c >= 1 /\ c <= written[n]
      /\ written[n] \in Nat /\ failures \in Nat
      /\ f \in [Variants -> Content]
      /\ f["1"] # Torn /\ (f["0"] = Torn => failures > 0)
      /\ n \in broken => Blame(n, failures)
  BY <1>1, FileAtWork
<1>3. /\ g \in [Variants -> Content] /\ g["s"] = c
      /\ \A w \in Variants : w # "s" => g[w] = f[w]
  BY <1>2, WithFacts DEF Variants
<1>4. Changes(n, g, failures, B) /\ step' = "dropSimple"
  BY <1>1, <1>3, ReplaceChanges
<1> HIDE DEF g, f, n, c, B
<1>5. g["0"] = f["0"] /\ g["1"] = f["1"] /\ Reading(g) = c
  BY <1>2, <1>3 DEF Variants, Reading, Absent, Torn
<1>6. Fills(n, g, failures)
  BY <1>2, <1>3, <1>5 DEF Fills, Absent, n, f, c
<1>7. n \notin B => /\ n \in broken => Reading(g) = written[n]
                    /\ n \in broken \/ n \notin broken
  BY <1>3, <1>5 DEF B
<1>8. Reads(n, g, B)
  BY <1>2, <1>5, <1>7 DEF Reads, n, c
<1>9. Goes(failures)
  BY <1>2, <1>4 DEF Goes, PlainSteps
<1>10. n \in B => Blame(n, failures)
  BY <1>2 DEF B
<1>11. StepOn(g, step', c) /\ Spares(g)
  BY <1>2, <1>3, <1>4 DEF StepOn, Spares, Absent
<1> QED
  BY <1>1, <1>4, <1>6, <1>8, <1>9, <1>10, <1>11, WriteNowStep DEF n, c, f

LEMMA RenameStep ==
  ASSUME StorageInv, Rename
  PROVE  StorageInv' /\ [Promise!Next]_(Promise!vars)
<1> DEFINE n == entry.name
           f == disk[n]
           c == entry.content
           g == [f EXCEPT !["s"] = f["0"], !["0"] = Absent]
           B == IF g["s"] = written[n] THEN broken \ {n} ELSE broken
<1>1. step = "rename" /\ step # "idle" /\ f["0"] # Absent /\ Replace(g, "done")
  BY DEF Rename, File
<1>2. /\ op # "idle" /\ n \in Names /\ c \in Nat /\ c >= 1 /\ c <= written[n]
      /\ written[n] \in Nat /\ failures \in Nat
      /\ f \in [Variants -> Content] /\ \A v \in Variants : f[v] \in Int /\ f[v] >= -1 /\ f[v] <= c
      /\ f["1"] # Torn
      /\ n \in broken => Blame(n, failures)
      /\ n \notin broken => StepOn(f, step, c)
  BY <1>1, FileAtWork
<1>3. /\ g \in [Variants -> Content]
      /\ g["s"] = f["0"] /\ g["0"] = Absent /\ g["1"] = f["1"]
  BY <1>2, StorageAssumption DEF Variants, Content, Absent, Torn
<1>4. Changes(n, g, failures, B) /\ step' = "done"
  BY <1>1, <1>3, ReplaceChanges
<1> HIDE DEF g, f, n, c, B
<1>5. f["0"] \in Int /\ f["0"] >= -1 /\ f["0"] <= c /\ f["0"] # 0
  BY <1>1, <1>2 DEF Variants, Absent
<1>6. Fills(n, g, failures)
  <2>1. \A v \in Variants : g[v] <= 0 \/ \E w \in Variants : g[v] = f[w]
    BY <1>3 DEF Variants, Absent
  <2> QED
    BY <1>1, <1>2, <1>3, <2>1 DEF Fills, Absent, Torn, f
<1>7. n \notin B => f["0"] = c /\ Reading(g) = c /\ (n \in broken => Reading(g) = written[n])
  <2>1. CASE n \in broken
    <3>1. n \notin B => f["0"] = written[n]
      BY <1>3, <2>1 DEF B
    <3> QED
      BY <1>2, <1>3, <1>5, <3>1 DEF Reading, Absent, Torn
  <2>2. CASE n \notin broken
    BY <1>1, <1>2, <1>3, <2>2 DEF StepOn, Reading, Absent, Torn
  <2> QED
    BY <2>1, <2>2
<1>8. Reads(n, g, B)
  BY <1>2, <1>7 DEF Reads, n, c
<1>9. Goes(failures)
  BY <1>2, <1>4 DEF Goes, PlainSteps
<1>10. n \in B => Blame(n, failures)
  BY <1>2 DEF B
<1>11. n \notin B => StepOn(g, step', c) /\ Spares(g)
  BY <1>1, <1>2, <1>3, <1>4, <1>7 DEF StepOn, Spares
<1> QED
  BY <1>1, <1>4, <1>6, <1>8, <1>9, <1>10, <1>11, WriteNowStep DEF n, c, f

(* A step that makes one variant of the file at work d. *)
LEMMA MakeStep ==
  ASSUME StorageInv, step # "idle", NEW v \in Variants, NEW d \in Content, NEW next,
         NEW breaks \in BOOLEAN, NEW n, n = entry.name, NEW f, f = disk[n], NEW g, g = [f EXCEPT ![v] = d],
         Make(g, next, breaks), d <= 0 \/ d = entry.content,
         g["1"] # Torn, v = "s" => d # Absent \/ failures > 1 \/ n \in Old,
         v = "0" => d # Torn \/ failures > 0,
         next \in {"save", "dropSimple", "dropOld", "open", "write", "dropBackup", "rename",
                   "dropSafe", "done"},
         next \in PlainSteps => failures > 0,
         next = "dropSafe" => failures > 1 \/ n \in Old,
         breaks => Blame(n, failures),
         n \notin broken /\ ~breaks =>
           /\ Reading(g) = Reading(f) \/ Reading(g) = entry.content
           /\ StepOn(g, next, entry.content)
           /\ Spares(f) => Spares(g)
  PROVE  StorageInv' /\ [Promise!Next]_(Promise!vars)
<1> DEFINE c == entry.content
           B == IF breaks THEN broken \cup {n} ELSE broken
<1>1. /\ op # "idle" /\ n \in Names /\ failures \in Nat
      /\ f \in [Variants -> Content]
      /\ f["1"] # Torn /\ (f["0"] = Torn => failures > 0)
      /\ n \in broken => Blame(n, failures)
  BY FileAtWork
<1>2. g \in [Variants -> Content] /\ g[v] = d /\ \A w \in Variants : w # v => g[w] = f[w]
  BY <1>1, WithFacts
<1>3. Changes(n, g, failures, B) /\ step' = next
  BY <1>2, MakeChanges
<1>4. Fills(n, g, failures)
  <2>1. \A w \in Variants : \/ g[w] <= 0
                            \/ \E u \in Variants : g[w] = f[u]
                            \/ g[w] = c
    BY <1>2
  <2>2. g["s"] = Absent => f["s"] = Absent \/ failures > 1 \/ n \in Old
    BY <1>2 DEF Variants
  <2>3. g["0"] = Torn => failures > 0
    BY <1>1, <1>2 DEF Variants
  <2> QED
    BY <1>1, <2>1, <2>2, <2>3 DEF Fills
<1>5. Reads(n, g, B)
  BY <1>1 DEF Reads
<1>6. Goes(failures)
  BY <1>1, <1>3 DEF Goes
<1>7. n \in B => Blame(n, failures)
  BY <1>1
<1>8. n \notin B => /\ n \notin broken /\ StepOn(g, step', c)
                    /\ Spares(f) => Spares(g)
  BY <1>3
<1> HIDE DEF B
<1> QED
  BY <1>3, <1>4, <1>5, <1>6, <1>7, <1>8, WriteNowStep

LEMMA MakeSteps ==
  ASSUME StorageInv,
         DropSimple \/ DropOld \/ Open \/ WritePlain \/ DropBackup \/ DropSafe
  PROVE  StorageInv' /\ [Promise!Next]_(Promise!vars)
<1> DEFINE n == entry.name
           f == disk[n]
           c == entry.content
<1>1. step # "idle"
  BY DEF DropSimple, DropOld, Open, WritePlain, DropBackup, DropSafe
<1>2. /\ op # "idle" /\ n \in Names /\ c \in Content /\ c \in Nat /\ c >= 1
      /\ failures \in Nat
      /\ f \in [Variants -> Content] /\ \A v \in Variants : f[v] \in Int /\ f[v] >= -1 /\ f[v] <= c
      /\ f["1"] # Torn
      /\ f["s"] = Absent => failures > 1 \/ n \in Old
      /\ n \notin broken => Reading(f) \in Nat /\ 1 <= Reading(f) /\ StepOn(f, step, c)
      /\ step \in PlainSteps => failures > 0
      /\ step = "dropSafe" => failures > 1 \/ n \in Old
  BY <1>1, FileAtWork
<1>3. "s" \in Variants /\ "0" \in Variants /\ "1" \in Variants
  BY DEF Variants
<1>4. Absent \in Content /\ Torn \in Content /\ Absent <= 0 /\ Torn <= 0 /\ Absent # Torn
  BY StorageAssumption DEF Content, Absent, Torn
<1>6. f["s"] \in Int /\ f["0"] \in Int /\ f["1"] \in Int /\ f["0"] >= -1
  BY <1>2, <1>3
<1>7. CASE DropSimple
  <2> DEFINE breaks == FALSE
             g == [f EXCEPT !["0"] = Absent]
  <2>1. Make(g, "dropOld", breaks) /\ ~breaks /\ breaks \in BOOLEAN /\ step = "dropSimple"
    BY <1>7 DEF DropSimple, With, File
  <2>2. g["s"] = f["s"] /\ g["0"] = Absent /\ g["1"] = f["1"] /\ g = [f EXCEPT !["0"] = Absent]
    BY <1>2, <1>4 DEF Variants
  <2> HIDE DEF breaks, g
  <2>3. n \notin broken => /\ Reading(g) = Reading(f) /\ StepOn(g, "dropOld", c)
                           /\ Spares(f) => Spares(g)
    BY <1>2, <2>1, <2>2 DEF Reading, StepOn, Spares, Absent
  <2> QED
    BY <1>1, <1>2, <1>3, <1>4, <2>1, <2>2, <2>3, MakeStep DEF PlainSteps
<1>8. CASE DropOld
  <2> DEFINE breaks == FALSE
             g == [f EXCEPT !["1"] = Absent]
  <2>1. Make(g, "done", breaks) /\ ~breaks /\ breaks \in BOOLEAN /\ step = "dropOld"
    BY <1>8 DEF DropOld, With, File
  <2>2. g["s"] = f["s"] /\ g["0"] = f["0"] /\ g["1"] = Absent /\ g = [f EXCEPT !["1"] = Absent]
    BY <1>2, <1>4 DEF Variants
  <2> HIDE DEF breaks, g
  <2>3. n \notin broken => /\ Reading(g) = Reading(f) /\ StepOn(g, "done", c)
                           /\ Spares(f) => Spares(g)
    BY <1>2, <2>1, <2>2 DEF Reading, StepOn, Spares, Absent, Torn
  <2> QED
    BY <1>1, <1>2, <1>3, <1>4, <2>1, <2>2, <2>3, MakeStep DEF PlainSteps
<1>9. CASE Open
  <2> DEFINE g == [f EXCEPT !["0"] = Torn]
             breaks == f["s"] = Absent /\ f["0"] > 0
  <2>1. Make(g, "write", breaks) /\ step = "open"
    BY <1>9 DEF Open, With, File
  <2>2. g["s"] = f["s"] /\ g["0"] = Torn /\ g["1"] = f["1"] /\ g = [f EXCEPT !["0"] = Torn]
    BY <1>2, <1>4 DEF Variants
  <2>3. breaks \in BOOLEAN /\ (breaks => f["s"] = Absent) /\ (~breaks => f["s"] # Absent \/ ~(f["0"] > 0))
    OBVIOUS
  <2> HIDE DEF g, breaks
  <2>4. failures > 0
    BY <1>2, <2>1 DEF PlainSteps
  <2>5. breaks => Blame(n, failures)
    BY <1>2, <2>3, <2>4 DEF Blame
  <2>6. n \notin broken /\ ~breaks =>
          /\ Reading(g) = Reading(f) /\ StepOn(g, "write", c)
          /\ Spares(f) => Spares(g)
    BY <1>2, <1>6, <2>2, <2>3 DEF Reading, StepOn, Spares, Absent, Torn
  <2> QED
    BY <1>1, <1>2, <1>3, <1>4, <2>1, <2>2, <2>3, <2>4, <2>5, <2>6, MakeStep
<1>10. CASE WritePlain
  <2> DEFINE breaks == FALSE
             d == IF f["0"] = Absent THEN Absent ELSE c
             g == [f EXCEPT !["0"] = d]
  <2>1. Make(g, "dropBackup", breaks) /\ ~breaks /\ breaks \in BOOLEAN /\ step = "write"
    BY <1>10 DEF WritePlain, With, File
  <2>2. d \in Content /\ d \in {Absent, c}
    BY <1>2, <1>4
  <2>3. g["s"] = f["s"] /\ g["0"] = d /\ g["1"] = f["1"] /\ g = [f EXCEPT !["0"] = d]
    BY <1>2, <1>4, <2>2 DEF Variants
  <2>4. f["0"] = Torn => d = c
    BY <1>4
  <2> HIDE DEF breaks, g, d
  <2>5. failures > 0
    BY <1>2, <2>1 DEF PlainSteps
  <2>6. n \notin broken => /\ Reading(g) = Reading(f) \/ Reading(g) = c
                           /\ StepOn(g, "dropBackup", c)
                           /\ Spares(f) => Spares(g)
    BY <1>2, <1>6, <2>1, <2>3, <2>4 DEF Reading, StepOn, Spares, Absent, Torn
  <2>7. d <= 0 \/ d = c
    BY <1>4, <2>2
  <2> QED
    BY <1>1, <1>2, <1>3, <2>1, <2>2, <2>3, <2>5, <2>6, <2>7, MakeStep
<1>11. CASE DropBackup
  <2> DEFINE breaks == FALSE
             g == [f EXCEPT !["1"] = Absent]
  <2>1. Make(g, "rename", breaks) /\ ~breaks /\ breaks \in BOOLEAN /\ step = "dropBackup"
    BY <1>11 DEF DropBackup, With, File
  <2>2. g["s"] = f["s"] /\ g["0"] = f["0"] /\ g["1"] = Absent /\ g = [f EXCEPT !["1"] = Absent]
    BY <1>2, <1>4 DEF Variants
  <2> HIDE DEF breaks, g
  <2>3. failures > 0
    BY <1>2, <2>1 DEF PlainSteps
  <2>4. n \notin broken => /\ Reading(g) = Reading(f) /\ StepOn(g, "rename", c)
                           /\ Spares(f) => Spares(g)
    BY <1>2, <2>1, <2>2 DEF Reading, StepOn, Spares, Absent, Torn
  <2> QED
    BY <1>1, <1>2, <1>3, <1>4, <2>1, <2>2, <2>3, <2>4, MakeStep
<1>12. CASE DropSafe
  <2> DEFINE breaks == FALSE
             g == [f EXCEPT !["s"] = Absent]
  <2>1. Make(g, "done", breaks) /\ ~breaks /\ breaks \in BOOLEAN /\ step = "dropSafe"
    BY <1>12 DEF DropSafe, With, File
  <2>2. g["s"] = Absent /\ g["0"] = f["0"] /\ g["1"] = f["1"] /\ g = [f EXCEPT !["s"] = Absent]
    BY <1>2, <1>4 DEF Variants
  <2> HIDE DEF breaks, g
  <2>3. n \notin broken => /\ Reading(g) = c /\ StepOn(g, "done", c)
                           /\ Spares(f) => Spares(g)
    BY <1>2, <2>1, <2>2 DEF Reading, StepOn, Spares, Absent, Torn
  <2> QED
    BY <1>1, <1>2, <1>3, <1>4, <2>1, <2>2, <2>3, MakeStep DEF PlainSteps
<1> QED
  BY <1>7, <1>8, <1>9, <1>10, <1>11, <1>12

(* There is no '0' to rename, which breaks no file that is not broken. *)
LEMMA NothingToRename ==
  ASSUME StorageInv, step = "rename", File["0"] = Absent, Make(File, "dropSafe", FALSE)
  PROVE  StorageInv' /\ [Promise!Next]_(Promise!vars)
<1> DEFINE n == entry.name
           f == disk[n]
           c == entry.content
           breaks == FALSE
<1>1. /\ step # "idle" /\ f["0"] = Absent /\ Make(f, "dropSafe", breaks)
      /\ ~breaks /\ breaks \in BOOLEAN
  BY DEF File
<1>2. /\ op # "idle" /\ n \in Names /\ c \in Nat /\ c >= 1 /\ failures \in Nat
      /\ f \in [Variants -> Content] /\ \A v \in Variants : f[v] \in Int
      /\ f["1"] # Torn
      /\ n \in broken => Blame(n, failures)
      /\ n \notin broken => StepOn(f, step, c)
  BY <1>1, FileAtWork
<1>3. n \in broken /\ Blame(n, failures)
  BY <1>1, <1>2 DEF StepOn, Absent
<1>4. Absent \in Content /\ Absent <= 0 /\ f = [f EXCEPT !["0"] = Absent] /\ "0" \in Variants
  BY <1>1, <1>2, StorageAssumption DEF Content, Absent, Torn, Variants
<1>5. failures > 0 /\ (failures > 1 \/ n \in Old)
  BY <1>2, <1>3 DEF Blame
<1> HIDE DEF f, n, c, breaks
<1> QED
  BY <1>1, <1>2, <1>3, <1>4, <1>5, MakeStep DEF f, n

LEMMA ReadRemovesStep ==
  ASSUME StorageInv, ReadRemoves
  PROVE  StorageInv' /\ [Promise!Next]_(Promise!vars)
<1> DEFINE n == reading.name
           v == reading.victim
           f == disk[n]
           g == [f EXCEPT ![v] = Absent]
           breaks == v = "0" /\ (f["0"] > 0 \/ Falls(n))
           B == IF breaks THEN broken \cup {n} ELSE broken
<1>1. /\ reading # NoRead /\ reading' = NoRead
      /\ disk' = [disk EXCEPT ![n][v] = Absent] /\ broken' = B
      /\ UNCHANGED <<queue, scheduled, op, entry, step, blocked, written, confirmed,
                     writes, crashes, failures>>
  BY DEF ReadRemoves, manager, counters
<1>2. /\ TypeOK /\ AtWork /\ OfFiles /\ disk \in [Names -> [Variants -> Content]]
      /\ failures \in Nat /\ failures <= MaxFailures
  BY StorageAssumption DEF StorageInv, TypeOK
<1>3. n \in Names /\ v \in {"0", "1"} /\ v \in Variants
  BY <1>1, <1>2 DEF TypeOK, Variants
<1>4. /\ f \in [Variants -> Content] /\ f["1"] # Torn
      /\ f["s"] \in Int /\ f["0"] \in Int /\ f["1"] \in Int /\ f["0"] >= -1
  <2>1. f \in [Variants -> Content] /\ f["1"] # Torn
    BY <1>2, <1>3 DEF OfFiles, OnDisk
  <2> QED
    BY <2>1, StorageAssumption DEF Content, Torn, Variants
<1>5. /\ Absent \in Content
      /\ g \in [Variants -> Content] /\ g[v] = Absent /\ \A w \in Variants : w # v => g[w] = f[w]
  <2>1. Absent \in Content
    BY StorageAssumption DEF Content, Absent, Torn
  <2> QED
    BY <1>3, <1>4, <2>1, WithFacts
<1>6. disk' = [disk EXCEPT ![n] = g]
  BY <1>1, <1>2, <1>3
<1>7. v = "0" => Blame(n, failures)
  BY <1>1, <1>2 DEF OfFiles, Blamed
<1>8. n \in broken => Blame(n, failures)
  BY <1>2 DEF OfFiles, Blamed
<1>9. v = "1" /\ n \notin broken => Spares(f)
  BY <1>1, <1>2 DEF OfFiles, ReaderSpares
<1>10. n \notin B => n \notin broken /\ (v = "0" => ~(f["0"] > 0) /\ ~Falls(n))
  OBVIOUS
<1>11. n \in B => Blame(n, failures)
  BY <1>7, <1>8
<1>12. B \in {broken, broken \cup {n}}
  OBVIOUS
<1> HIDE DEF g, f, n, v, B
<1>13. n \notin B => Reading(g) = Reading(f)
  <2>1. CASE v = "0"
    <3>1. g["s"] = f["s"] /\ g["0"] = Absent /\ g["1"] = f["1"]
      BY <1>5, <2>1 DEF Variants
    <3> QED
      BY <1>4, <1>10, <2>1, <3>1 DEF Reading, Absent, Torn
  <2>2. CASE v = "1"
    <3>1. g["s"] = f["s"] /\ g["0"] = f["0"] /\ g["1"] = Absent
      BY <1>5, <2>2 DEF Variants
    <3> QED
      BY <1>4, <1>9, <1>10, <2>2, <3>1 DEF Reading, Spares, Absent, Torn
  <2> QED
    BY <1>3, <2>1, <2>2
<1>14. Changes(n, g, failures, B)
  BY <1>1, <1>2, <1>5, <1>6, <1>12 DEF Changes
<1>15. Fills(n, g, failures)
  <2>1. \A w \in Variants : g[w] <= 0 \/ \E u \in Variants : g[w] = f[u]
    BY <1>5 DEF Absent
  <2>2. /\ g["s"] = f["s"] /\ g["1"] # Torn
        /\ g["0"] = Torn => f["0"] = Torn
    BY <1>3, <1>4, <1>5 DEF Variants, Absent, Torn
  <2>3. f["0"] = Torn => failures > 0
    BY <1>2, <1>3 DEF OfFiles, Blamed, f
  <2> QED
    BY <2>1, <2>2, <2>3 DEF Fills, f
<1>16. Reads(n, g, B)
  BY <1>10, <1>13 DEF Reads, f
<1>17. Goes(failures)
  <2>1. op = "idle" <=> step = "idle"
    BY <1>2 DEF AtWork
  <2> QED
    BY <1>1, <1>2, <2>1 DEF Goes, OfFiles, Blamed, TypeOK
<1>18. op # "idle" /\ entry.name \notin B => StepOn(disk'[entry.name], step', entry.content)
  <2> SUFFICES ASSUME op # "idle", entry.name \notin B
               PROVE  StepOn(disk'[entry.name], step, entry.content)
    BY <1>1
  <2>1. entry.name \in Names
    BY <1>2, EntryType DEF AtWork
  <2>2. CASE entry.name # n
    <3>1. entry.name \notin broken /\ disk'[entry.name] = disk[entry.name]
      BY <1>2, <1>6, <1>12, <2>1, <2>2
    <3> QED
      BY <1>2, <3>1 DEF OfFiles, StepDone
  <2>3. CASE entry.name = n
    <3>1. n \notin broken /\ disk'[n] = g
      BY <1>2, <1>3, <1>6, <1>10, <2>3
    <3>2. StepOn(f, step, entry.content)
      BY <1>2, <2>3, <3>1 DEF OfFiles, StepDone, f
    <3>3. g["s"] = f["s"] /\ (v = "1" => g["0"] = f["0"])
      BY <1>3, <1>5 DEF Variants
    <3>4. v = "0" => step \notin {"write", "dropBackup", "rename", "dropSafe"}
      BY <1>10, <2>3 DEF Falls
    <3>5. StepOn(g, step, entry.content)
      BY <1>3, <1>13, <2>3, <3>2, <3>3, <3>4 DEF StepOn
    <3> QED
      BY <2>3, <3>1, <3>5
  <2> QED
    BY <2>2, <2>3
<1>19. StorageInv'
  BY <1>1, <1>3, <1>11, <1>14, <1>15, <1>16, <1>17, <1>18, DiskStep
<1>20. [Promise!Next]_(Promise!vars)
  BY <1>3, <1>10, <1>11, <1>13, <1>14, <1>16, Refines DEF f
<1> QED
  BY <1>19, <1>20

-----------------------------------------------------------------------------
(* The theorems.                                                           *)

(* Every step keeps the invariant and is a step of DurableCells, or one    *)
(* that DurableCells does not see.                                         *)
LEMMA NextKeeps ==
  ASSUME StorageInv, [Next]_vars
  PROVE  StorageInv' /\ [Promise!Next]_(Promise!vars)
<1>1. Stutter => UNCHANGED Promise!vars
  BY DEF Stutter, Promise!vars
<1>2. (\E n \in Names : Promise!Write(n)) => Promise!Next
  BY DEF Promise!Next
<1>3. (\E C \in SUBSET Names : Promise!Confirm(C)) => Promise!Next
  BY DEF Promise!Next
<1>4. Promise!Crash => Promise!Next
  BY DEF Promise!Next
<1>5. CASE \E n \in Names, sync \in BOOLEAN : Write(n, sync)
  BY <1>2, <1>5, WriteStep
<1>6. CASE SyncAll
  BY <1>1, <1>6, SyncAllStep
<1>7. CASE \E n \in Names : ReadLooks(n)
  BY <1>1, <1>7, ReadLooksStep
<1>8. CASE ReadRemoves
  BY <1>8, ReadRemovesStep
<1>9. CASE Crash
  BY <1>4, <1>9, CrashStep
<1>10. CASE TakeJob
  BY <1>1, <1>3, <1>10, TakeJobStep
<1>11. CASE Commit
  BY <1>11, CommitStep
<1>12. CASE DropSimple \/ DropOld \/ Open \/ WritePlain \/ DropBackup \/ DropSafe
  BY <1>12, MakeSteps
<1>13. CASE Rename
  BY <1>13, RenameStep
<1>14. CASE CommitFails \/ OpenFails \/ ShortWrite \/ RemoveFails
  BY <1>14, FailureSteps
<1>15. CASE RenameFails
  BY <1>15, FailureSteps, NothingToRename DEF RenameFails
<1>16. CASE Return
  BY <1>1, <1>3, <1>16, ReturnStep
<1>17. CASE UNCHANGED vars
  <2>1. UNCHANGED <<disk, queue, scheduled, op, entry, step, blocked, reading, written, confirmed,
                    broken, writes, crashes, failures>>
    BY <1>17 DEF vars, manager, counters
  <2>2. Stutter
    BY <2>1 DEF Stutter, ReadFile
  <2>3. TypeOK' /\ AtWork' /\ InOrder' /\ WaitsForLast' /\ Kept'
    BY <2>1 DEF StorageInv, TypeOK, AtWork, InOrder, WaitsForLast, Kept
  <2>4. OfFiles'
    BY <2>1 DEF StorageInv, OfFiles, Readable, OnDisk, Blamed, StepDone, ReaderSpares
  <2> QED
    BY <1>1, <2>2, <2>3, <2>4 DEF StorageInv
<1> QED
  BY <1>5, <1>6, <1>7, <1>8, <1>9, <1>10, <1>11, <1>12, <1>13, <1>14, <1>15, <1>16, <1>17
  DEF Next, Thread

(* The types of the write manager and of the disk, a file scheduled at     *)
(* most once, and a job with steps to make exactly while one is at work.   *)
THEOREM TypeCorrect == Spec => []TypeOK
<1>1. StorageInv => TypeOK
  BY DEF StorageInv
<1> QED
  BY <1>1, Initially, NextKeeps, PTL DEF Spec

(* The write manager keeps the promise of DurableCells, whichever          *)
(* operations on the disk fail and wherever it crashes or a reader comes:  *)
(* at every step of writeNow() a reader finds a complete content, never an *)
(* older one than before, and the last one handed over when a synchronous  *)
(* write or Sync() has returned; it takes two failures (one, for a file    *)
(* that an older version has left) for a file to lose that, and the next   *)
(* complete write of its last content gives it back.                       *)
THEOREM StorageKeepsThePromise == Spec => KeepsThePromise
<1>1. Init => Promise!Init
  <2> SUFFICES ASSUME Init PROVE Promise!Init
    OBVIOUS
  <2>1. StorageInv
    BY Initially
  <2>2. /\ written \in [Names -> Nat \ {0}] /\ confirmed = written
        /\ broken = {} /\ failures = 0
    BY StorageAssumption DEF Init
  <2>3. \A n \in Names : ReadFile(n) = written[n]
    <3>1. op = "idle" /\ scheduled = <<>> /\ queue = <<>>
      BY DEF Init
    <3>2. \A i \in DOMAIN queue : queue[i].op \notin Writing
      BY <3>1
    <3>3. \A n \in Names \ broken : ReadFile(n) = written[n]
      BY <2>1, <3>1, <3>2, AllIsRead
    <3> QED
      BY <2>2, <3>3
  <2>4. [n \in Names |-> ReadFile(n)] = written
    BY <2>2, <2>3
  <2> QED
    BY <2>2, <2>4 DEF Promise!Init
<1> QED
  BY <1>1, Initially, NextKeeps, PTL DEF Spec, KeepsThePromise, Promise!Spec
=============================================================================
