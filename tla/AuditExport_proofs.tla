------------------------- MODULE AuditExport_proofs -------------------------
(***************************************************************************)
(* The exported copy of the audit log: for any number of rows, either or   *)
(* both sinks in any order, and any failures and restarts, its chain       *)
(* raises no false alarm, no row is in it twice, and a regular stop leaves *)
(* nothing behind that was queued before it.                               *)
(***************************************************************************)
EXTENDS AuditExport, FiniteSetTheorems, TLAPS

LEMMA SinksShape ==
  /\ Len(Sinks) \in Nat /\ Len(Sinks) >= 1 /\ DOMAIN Sinks = 1 .. Len(Sinks)
  /\ \A k \in 1 .. Len(Sinks) : Sinks[k] \in {"FILE", "HTTP"}
  /\ MaxRecords \in Nat
BY SinksAssumption, RecordsAssumption

(* At most one job runs.                                                   *)
LEMMA JobShape ==
  ASSUME ExportTypeOK
  PROVE  \/ job = <<>> /\ Current = {} /\ JobLines = {}
         \/ /\ job # <<>> /\ job[1] \in Job /\ job = <<job[1]>>
            /\ Current = {job[1].line.id} /\ JobLines = {job[1].line}
<1>1. job \in Seq(Job) /\ Len(job) <= 1
  BY DEF ExportTypeOK
<1>2. CASE Len(job) = 0
  <2>1. job = <<>> /\ DOMAIN job = {}
    BY <1>1, <1>2
  <2>2. QED
    BY <2>1 DEF Current, JobLines, IdsIn
<1>3. CASE Len(job) = 1
  <2>1. job # <<>> /\ job[1] \in Job /\ job = <<job[1]>> /\ DOMAIN job = {1}
    BY <1>1, <1>3
  <2>2. IdsIn(job) = {job[1]}
    BY <2>1 DEF IdsIn
  <2>3. QED
    BY <2>1, <2>2 DEF Current, JobLines
<1>4. Len(job) = 0 \/ Len(job) = 1
  <2>1. Len(job) \in Nat
    BY <1>1
  <2>2. \A n \in Nat : n <= 1 => n = 0 \/ n = 1
    OBVIOUS
  <2>3. QED
    BY <1>1, <2>1, <2>2
<1>5. QED
  BY <1>2, <1>3, <1>4

LEMMA LineShape ==
  /\ Torn \notin Line /\ Glued \notin Line
  /\ \A l \in Line : /\ l.id \in Ids /\ l.seq \in Nat /\ l.prevHash \in Seq(Ids)
                     /\ l.hash \in Seq(Ids)
  /\ \A j \in Job : j.line \in Line /\ j.next \in Nat /\ j.anyOk \in BOOLEAN
BY SinksShape DEF Line, Torn, Glued, Ids, Job

(* The rows of a file that can be read are lines.                          *)
LEMMA ReadableLines ==
  ASSUME NEW f \in Seq(Line \cup {Torn, Glued})
  PROVE  /\ readable(f) \subseteq 1 .. Len(f) /\ IsFiniteSet(readable(f))
         /\ DOMAIN f = 1 .. Len(f) /\ Len(f) \in Nat
         /\ \A i \in readable(f) : f[i] \in Line
<1>1. readable(f) \subseteq 1 .. Len(f) /\ DOMAIN f = 1 .. Len(f) /\ Len(f) \in Nat
  BY DEF readable
<1>2. IsFiniteSet(1 .. Len(f))
  BY <1>1, FS_Interval
<1>3. \A i \in readable(f) : f[i] \in Line
  BY <1>1 DEF readable
<1>4. QED
  BY <1>1, <1>2, <1>3, FS_Subset

(* What onModuleInit continues from has its type, whatever the file holds. *)
LEMMA ResumedShape ==
  ASSUME NEW f \in Seq(Line \cup {Torn, Glued})
  PROVE  verifyExportedChain(f).lines \in Nat /\ verifyExportedChain(f).head \in Seq(Ids)
<1>1. Lines(f, Len(f)) \in Nat
  <2>1. {k \in readable(f) : k <= Len(f)} \subseteq readable(f)
    OBVIOUS
  <2>2. QED
    BY <2>1, ReadableLines, FS_Subset, FS_CardinalityType DEF Lines
<1>2. HeadBefore(f, Len(f) + 1) \in Seq(Ids)
  <2>1. CASE LastBefore(f, Len(f) + 1) = {}
    BY <2>1 DEF HeadBefore, GENESIS
  <2>2. CASE LastBefore(f, Len(f) + 1) # {}
    <3>1. (CHOOSE k \in LastBefore(f, Len(f) + 1) : TRUE) \in LastBefore(f, Len(f) + 1)
      BY <2>2
    <3>2. (CHOOSE k \in LastBefore(f, Len(f) + 1) : TRUE) \in readable(f)
      BY <3>1 DEF LastBefore
    <3>3. QED
      BY <2>2, <3>2, ReadableLines, LineShape DEF HeadBefore
  <2>3. QED
    BY <2>1, <2>2
<1>3. QED
  BY <1>1, <1>2 DEF verifyExportedChain

(* Counting and linking in a file all of which can be read                 *)
LEMMA WholeFile ==
  ASSUME NEW f \in Seq(Line \cup {Torn, Glued}), readable(f) = DOMAIN f
  PROVE  /\ \A i \in 0 .. Len(f) : Lines(f, i) = i
         /\ \A i \in 1 .. Len(f) + 1 :
              HeadBefore(f, i) = IF i = 1 THEN GENESIS ELSE f[i - 1].hash
<1>1. readable(f) = 1 .. Len(f) /\ Len(f) \in Nat
  BY ReadableLines
<1>2. ASSUME NEW i \in 0 .. Len(f) PROVE Lines(f, i) = i
  <2>1. {k \in readable(f) : k <= i} = 1 .. i
    BY <1>1
  <2>2. Cardinality(1 .. i) = i
    BY <1>1, FS_Interval
  <2>3. QED
    BY <2>1, <2>2 DEF Lines
<1>3. ASSUME NEW i \in 1 .. Len(f) + 1
      PROVE  HeadBefore(f, i) = IF i = 1 THEN GENESIS ELSE f[i - 1].hash
  <2>1. CASE i = 1
    <3>1. LastBefore(f, i) = {}
      BY <1>1, <2>1 DEF LastBefore
    <3>2. QED
      BY <2>1, <3>1 DEF HeadBefore
  <2>2. CASE i # 1
    <3>1. i - 1 \in LastBefore(f, i) /\ i - 1 \in readable(f)
      BY <1>1, <2>2 DEF LastBefore
    <3>2. ASSUME NEW k \in LastBefore(f, i) PROVE k = i - 1
      <4>1. k \in 1 .. Len(f) /\ k < i /\ i - 1 <= k
        BY <1>1, <2>2, <3>1 DEF LastBefore
      <4>2. QED
        BY <1>1, <4>1
    <3>3. (CHOOSE k \in LastBefore(f, i) : TRUE) = i - 1
      BY <3>1, <3>2
    <3>4. QED
      BY <2>2, <3>1, <3>3 DEF HeadBefore
  <2>3. QED
    BY <2>1, <2>2
<1>4. QED
  BY <1>2, <1>3

(* A row is appended, or glued to an unterminated one.                     *)
LEMMA AppendLine ==
  ASSUME file \in Seq(Line \cup {Torn, Glued}), NEW l \in Line, file' = Appended(l)
  PROVE  /\ file' \in Seq(Line \cup {Torn, Glued})
         /\ readable(file) \subseteq readable(file')
         /\ \A i \in readable(file) : file'[i] = file[i]
         /\ \A i \in readable(file') : i \in readable(file) \/ file'[i] = l
         /\ \A i, k \in readable(file') \ readable(file) : i = k
         /\ readable(file') = DOMAIN file' => readable(file) = DOMAIN file /\ file' = Append(file, l)
<1>1. Len(file) \in Nat /\ DOMAIN file = 1 .. Len(file)
  OBVIOUS
<1>2. Glued # Torn
  BY DEF Torn, Glued
<1>3. CASE Unterminated
  <2>1. /\ file # <<>> /\ Len(file) \in DOMAIN file /\ file[Len(file)] = Torn
        /\ file' = [file EXCEPT ![Len(file)] = IF l = Torn THEN Torn ELSE Glued]
    BY <1>1, <1>3 DEF Unterminated, Appended
  <2> l # Torn
    BY LineShape
  <2>2. file' \in Seq(Line \cup {Torn, Glued}) /\ DOMAIN file' = DOMAIN file /\ Len(file') = Len(file)
    BY <1>1, <2>1
  <2>3. readable(file') = readable(file) /\ Len(file) \notin readable(file)
    BY <1>1, <2>1, <2>2 DEF readable
  <2>4. \A i \in readable(file) : file'[i] = file[i]
    BY <2>1, <2>3 DEF readable
  <2>5. QED
    BY <2>1, <2>2, <2>3, <2>4
<1>4. CASE ~Unterminated
  <2>1. file' = Append(file, l)
    BY <1>4 DEF Appended
  <2>2. /\ file' \in Seq(Line \cup {Torn, Glued}) /\ DOMAIN file' = 1 .. Len(file) + 1
        /\ file'[Len(file) + 1] = l /\ \A i \in 1 .. Len(file) : file'[i] = file[i]
    BY <1>1, <2>1
  <2>3. readable(file') = readable(file) \cup {Len(file) + 1}
    BY <1>1, <2>2, LineShape DEF readable
  <2>4. Len(file) + 1 \notin readable(file)
    BY <1>1 DEF readable
  <2>5. readable(file) \subseteq 1 .. Len(file)
    BY <1>1 DEF readable
  <2>6. ASSUME readable(file') = DOMAIN file' PROVE readable(file) = DOMAIN file
    <3>1. \A i \in 1 .. Len(file) : i \in readable(file') /\ i # Len(file) + 1
      BY <1>1, <2>2, <2>6
    <3>2. QED
      BY <1>1, <2>3, <2>5, <3>1
  <2>7. QED
    BY <1>1, <2>1, <2>2, <2>3, <2>4, <2>5, <2>6
<1>5. QED
  BY <1>3, <1>4

LEMMA AppendTorn ==
  ASSUME file \in Seq(Line \cup {Torn, Glued}), file' = Appended(Torn)
  PROVE  /\ file' \in Seq(Line \cup {Torn, Glued})
         /\ readable(file) = readable(file')
         /\ \A i \in readable(file) : file'[i] = file[i]
         /\ readable(file') # DOMAIN file'
<1>1. Len(file) \in Nat /\ DOMAIN file = 1 .. Len(file)
  OBVIOUS
<1>2. CASE Unterminated
  <2>1. /\ file # <<>> /\ Len(file) \in DOMAIN file /\ file[Len(file)] = Torn
        /\ file' = [file EXCEPT ![Len(file)] = Torn]
    BY <1>1, <1>2 DEF Unterminated, Appended
  <2>2. file' = file
    BY <2>1
  <2>3. QED
    BY <2>1, <2>2 DEF readable
<1>3. CASE ~Unterminated
  <2>1. file' = Append(file, Torn)
    BY <1>3 DEF Appended
  <2>2. /\ file' \in Seq(Line \cup {Torn, Glued}) /\ DOMAIN file' = 1 .. Len(file) + 1
        /\ file'[Len(file) + 1] = Torn /\ \A i \in 1 .. Len(file) : file'[i] = file[i]
    BY <1>1, <2>1
  <2>3. readable(file') = readable(file) /\ Len(file) + 1 \notin readable(file')
    BY <1>1, <2>2 DEF readable
  <2>4. QED
    BY <1>1, <2>2, <2>3 DEF readable
<1>4. QED
  BY <1>2, <1>3
---------------------------------------------------------------------------
(* The writes to the sinks                                                 *)
LEMMA WroteShape ==
  ASSUME ExportTypeOK, NEW name, Writing(name), NEW ok \in BOOLEAN, Wrote(ok)
  PROVE  /\ job # <<>> /\ job[1] \in Job /\ job' # <<>>
         /\ job' \in Seq(Job) /\ Len(job') <= 1
         /\ job'[1].line = job[1].line /\ job[1].line \in Line
         /\ job'[1].anyOk = (job[1].anyOk \/ ok)
         /\ Current = {job[1].line.id} /\ Current' = {job[1].line.id}
         /\ JobLines = {job[1].line} /\ JobLines' = {job[1].line}
         /\ FileTodo' => FileTodo
         /\ name = "FILE" => FileTodo /\ ~FileTodo'
<1> DEFINE j == [job[1] EXCEPT !.next = @ + 1, !.anyOk = @ \/ ok]
<1>1. /\ job # <<>> /\ job[1] \in Job /\ job[1].line \in Line
      /\ Current = {job[1].line.id} /\ JobLines = {job[1].line}
  BY JobShape, LineShape DEF Writing
<1>2. /\ job[1].next \in 1 .. Len(Sinks) /\ Sinks[job[1].next] = name
      /\ job[1].next \in DOMAIN Sinks
  BY <1>1, SinksShape DEF Writing, Job
<1>3. /\ j \in Job /\ j.line = job[1].line /\ j.next = job[1].next + 1
      /\ j.anyOk = (job[1].anyOk \/ ok)
  <2>1. (job[1].anyOk \/ ok) \in BOOLEAN
    OBVIOUS
  <2>2. job[1].next + 1 \in 1 .. Len(Sinks) + 1
    BY <1>2, SinksShape
  <2>3. \A b \in BOOLEAN, n \in 1 .. Len(Sinks) + 1 :
          LET k == [job[1] EXCEPT !.next = n, !.anyOk = b]
          IN  k \in Job /\ k.line = job[1].line /\ k.next = n /\ k.anyOk = b
    BY <1>1 DEF Job
  <2>4. QED
    BY <2>1, <2>2, <2>3
<1>4. job' = <<j>>
  BY DEF Wrote
<1> HIDE DEF j
<1>5. /\ job' # <<>> /\ job' \in Seq(Job) /\ Len(job') = 1 /\ job'[1] = j /\ DOMAIN job' = {1}
  BY <1>3, <1>4
<1>6. IdsIn(job)' = {j}
  BY <1>5 DEF IdsIn
<1>7. Current' = {job[1].line.id} /\ JobLines' = {job[1].line}
  BY <1>3, <1>6 DEF Current, JobLines
<1>8. FileTodo' <=> \E k \in DOMAIN Sinks : k >= job[1].next + 1 /\ Sinks[k] = "FILE"
  BY <1>3, <1>5 DEF FileTodo
<1>9. FileTodo <=> \E k \in DOMAIN Sinks : k >= job[1].next /\ Sinks[k] = "FILE"
  BY <1>1 DEF FileTodo
<1>10. \A k \in DOMAIN Sinks : k >= job[1].next + 1 => k >= job[1].next /\ k # job[1].next
  BY <1>2, SinksShape
<1>11. FileTodo' => FileTodo
  BY <1>8, <1>9, <1>10
<1>12. name = "FILE" => FileTodo /\ ~FileTodo'
  <2>1. \A k \in DOMAIN Sinks : k >= job[1].next + 1 => Sinks[k] # name
    BY <1>2, <1>10, SinksAssumption
  <2>2. job[1].next >= job[1].next
    BY <1>2, SinksShape
  <2>3. QED
    BY <1>2, <1>8, <1>9, <2>1, <2>2
<1>13. QED
  BY <1>1, <1>3, <1>5, <1>7, <1>11, <1>12

LEMMA WroteKeeps ==
  ASSUME ExportInv, NEW name, Writing(name), NEW ok \in BOOLEAN, Wrote(ok)
  PROVE  JobLinked' /\ AwaitsAll'
<1>1. ExportTypeOK
  BY DEF ExportInv
<1>2. JobLinked'
  BY <1>1, WroteShape DEF Wrote, ExportInv, JobLinked
<1>3. Outstanding' = Outstanding /\ Current' = Current
  BY <1>1, WroteShape DEF Wrote, Outstanding, IdsIn
<1>4. mode' = mode /\ awaited' = awaited /\ owed' = owed /\ queue' = queue
  BY DEF Wrote
<1>5. AwaitsAll'
  BY <1>3, <1>4 DEF ExportInv, AwaitsAll
<1>6. QED
  BY <1>2, <1>5

(* A write that leaves the file as it was; the collector may have received *)
(* the line or not.                                                        *)
LEMMA NoFileStep ==
  ASSUME ExportInv, NEW name, Writing(name), NEW ok \in BOOLEAN, Wrote(ok), file' = file,
         collector' \in {collector, collector \cup {job[1].line}},
         ok => job[1].line \in collector'
  PROVE  ExportInv'
<1>1. ExportTypeOK
  BY DEF ExportInv
<1>2. /\ job # <<>> /\ job[1] \in Job /\ job' # <<>>
      /\ job' \in Seq(Job) /\ Len(job') <= 1
      /\ job'[1].line = job[1].line /\ job[1].line \in Line
      /\ job'[1].anyOk = (job[1].anyOk \/ ok)
      /\ Current = {job[1].line.id} /\ Current' = {job[1].line.id}
      /\ JobLines = {job[1].line} /\ JobLines' = {job[1].line}
      /\ FileTodo' => FileTodo
  BY <1>1, WroteShape
<1>3. /\ UNCHANGED <<auditLog, logging, queue, seq, prevHash, mode, awaited, owed>>
      /\ mode # "down"
  BY DEF Wrote, Writing, Running
<1>4. ExportTypeOK'
  BY <1>1, <1>2, <1>3 DEF ExportTypeOK
<1>5. IdsOnce'
  <2>1. SentIds' \subseteq SentIds \cup Current
    BY <1>2 DEF SentIds
  <2>2. FileIds' = FileIds /\ IdsIn(queue)' = IdsIn(queue)
    BY <1>3 DEF FileIds, IdsIn
  <2>3. QED
    BY <1>2, <1>3, <2>1, <2>2 DEF ExportInv, IdsOnce
<1>6. GoesOn'
  <2> SUFFICES ASSUME FileWhole' PROVE
         /\ FileLinked'
         /\ "FILE" \in IdsIn(Sinks) =>
              IF JobWritten' THEN job'[1].anyOk ELSE seq' = Len(file') /\ prevHash' = EndOf(file')
         /\ job'[1].anyOk => job'[1].line \in collector' \cup IdsIn(file')
    BY DEF GoesOn, IdsIn
  <2>1. FileWhole
    BY <1>2 DEF FileWhole, IdsIn
  <2>2. JobWritten' = JobWritten
    BY <1>2 DEF JobWritten
  <2>3. FileLinked' = FileLinked
    BY DEF FileLinked
  <2>4. QED
    BY <1>2, <1>3, <2>1, <2>2, <2>3 DEF ExportInv, GoesOn
<1>7. NoFile'
  BY DEF ExportInv, NoFile, IdsIn
<1>8. QED
  BY <1>4, <1>5, <1>6, <1>7, WroteKeeps DEF ExportInv

LEMMA HttpWritePreserves == ExportInv /\ HttpWrite => ExportInv'
BY NoFileStep DEF HttpWrite

LEMMA HttpWriteFailsPreserves == ExportInv /\ HttpWriteFails => ExportInv'
BY NoFileStep DEF HttpWriteFails

(* An append: the current line is written behind the end of a whole file.  *)
LEMMA FileWritePreserves ==
  ASSUME ExportInv, FileWrite
  PROVE  ExportInv'
<1> DEFINE l == job[1].line
<1>1. ExportTypeOK
  BY DEF ExportInv
<1>2. /\ job # <<>> /\ job[1] \in Job /\ job' # <<>>
      /\ job' \in Seq(Job) /\ Len(job') <= 1
      /\ job'[1].line = l /\ l \in Line
      /\ job'[1].anyOk
      /\ Current = {l.id} /\ Current' = {l.id}
      /\ JobLines = {l} /\ JobLines' = {l}
      /\ FileTodo /\ ~FileTodo'
  BY <1>1, WroteShape DEF FileWrite
<1>3. /\ UNCHANGED <<auditLog, logging, queue, seq, prevHash, collector, mode, awaited, owed>>
      /\ mode # "down"
  BY DEF FileWrite, Wrote, Writing, Running
<1>4. /\ file \in Seq(Line \cup {Torn, Glued}) /\ file' = Appended(l)
  BY <1>1 DEF FileWrite, ExportTypeOK
<1>5. /\ file' \in Seq(Line \cup {Torn, Glued})
      /\ readable(file) \subseteq readable(file')
      /\ \A i \in readable(file) : file'[i] = file[i]
      /\ \A i \in readable(file') : i \in readable(file) \/ file'[i] = l
      /\ \A i, k \in readable(file') \ readable(file) : i = k
      /\ readable(file') = DOMAIN file' => readable(file) = DOMAIN file /\ file' = Append(file, l)
  BY <1>2, <1>4, AppendLine
<1>6. ExportTypeOK'
  BY <1>1, <1>2, <1>3, <1>5 DEF ExportTypeOK
<1>7. IdsOnce'
  <2>1. FileIds' \subseteq FileIds \cup {l.id}
    BY <1>5 DEF FileIds
  <2>2. \A i, k \in readable(file') : file'[i].id = file'[k].id => i = k
    <3>1. l.id \notin FileIds
      BY <1>2 DEF ExportInv, IdsOnce
    <3>2. \A i \in readable(file) : file[i].id # l.id
      BY <3>1 DEF FileIds
    <3>3. \A i, k \in readable(file) : file[i].id = file[k].id => i = k
      BY DEF ExportInv, IdsOnce
    <3>4. QED
      BY <1>5, <3>2, <3>3
  <2>3. SentIds' = SentIds /\ IdsIn(queue)' = IdsIn(queue)
    BY <1>3 DEF SentIds, IdsIn
  <2>4. QED
    BY <1>2, <1>3, <2>1, <2>2, <2>3 DEF ExportInv, IdsOnce
<1>8. "FILE" \in IdsIn(Sinks)
  BY <1>2 DEF IdsIn, FileTodo
<1>9. GoesOn'
  <2> SUFFICES ASSUME FileWhole'
               PROVE  FileLinked' /\ JobWritten' /\ l \in IdsIn(file')
    BY <1>2 DEF GoesOn, IdsIn
  <2>1. /\ readable(file) = DOMAIN file /\ file' = Append(file, l)
        /\ Len(file) \in Nat /\ DOMAIN file = 1 .. Len(file)
    BY <1>4, <1>5 DEF FileWhole
  <2>2. /\ DOMAIN file' = 1 .. Len(file) + 1 /\ Len(file') = Len(file) + 1
        /\ file'[Len(file) + 1] = l
        /\ \A i \in 1 .. Len(file) : file'[i] = file[i]
        /\ file' # <<>>
    BY <1>2, <1>4, <2>1
  <2>3. IdsIn(file') \subseteq IdsIn(file) \cup {l} /\ l \in IdsIn(file')
    BY <2>1, <2>2 DEF IdsIn
  <2>4. FileWhole
    BY <1>2, <1>3, <2>1, <2>3 DEF FileWhole, IdsIn
  <2>5. JobWritten'
    BY <1>2, <2>2 DEF JobWritten
  <2>6. ~JobWritten
    <3>1. l.id \notin FileIds
      BY <1>2 DEF ExportInv, IdsOnce
    <3>2. file # <<>> => Len(file) \in readable(file)
      BY <1>4, <2>1
    <3>3. QED
      BY <3>1, <3>2 DEF JobWritten, FileIds
  <2>7. seq = Len(file) /\ prevHash = EndOf(file) /\ FileLinked
    BY <1>3, <1>8, <2>4, <2>6 DEF ExportInv, GoesOn
  <2>8. l.seq = Len(file) + 1 /\ l.prevHash = EndOf(file) /\ l.hash = lineHash(l.prevHash, l.id)
    BY <1>2, <2>7 DEF ExportInv, JobLinked
  <2>9. FileLinked'
    <3> SUFFICES ASSUME NEW i \in 1 .. Len(file) + 1
                 PROVE  /\ file'[i].seq = i
                        /\ file'[i].prevHash = IF i = 1 THEN GENESIS ELSE file'[i - 1].hash
                        /\ file'[i].hash = lineHash(file'[i].prevHash, file'[i].id)
      BY <2>2 DEF FileLinked, lineHash
    <3>1. CASE i = Len(file) + 1
      <4>1. i = 1 <=> file = <<>>
        BY <3>1, <1>4, <2>1
      <4>2. i # 1 => i - 1 = Len(file) /\ file'[i - 1] = file[Len(file)]
        <5>1. i # 1 => i - 1 = Len(file) /\ Len(file) \in 1 .. Len(file)
          BY <3>1, <2>1
        <5>2. QED
          BY <5>1, <2>2
      <4>3. QED
        BY <3>1, <2>2, <2>8, <4>1, <4>2 DEF EndOf
    <3>2. CASE i # Len(file) + 1
      <4>1. i \in 1 .. Len(file) /\ (i # 1 => i - 1 \in 1 .. Len(file))
        BY <3>2, <2>1
      <4>2. QED
        BY <2>1, <2>2, <2>7, <4>1 DEF FileLinked
    <3>3. QED
      BY <3>1, <3>2
  <2>10. QED
    BY <2>3, <2>5, <2>9
<1>10. NoFile'
  BY <1>8 DEF NoFile, IdsIn
<1>11. QED
  BY <1>6, <1>7, <1>9, <1>10, WroteKeeps DEF ExportInv, FileWrite

LEMMA FileWriteFailsPreserves ==
  ASSUME ExportInv, FileWriteFails
  PROVE  ExportInv'
<1>1. ExportTypeOK
  BY DEF ExportInv
<1>2. CASE file' = file
  BY <1>2, NoFileStep DEF FileWriteFails
<1>3. CASE file' = Appended(Torn)
  <2>1. /\ job' \in Seq(Job) /\ Len(job') <= 1
        /\ Current' = Current /\ FileTodo /\ ~FileTodo'
    BY <1>1, WroteShape DEF FileWriteFails
  <2>2. /\ UNCHANGED <<auditLog, logging, queue, seq, prevHash, collector, mode, awaited, owed>>
        /\ mode # "down"
    BY DEF FileWriteFails, Wrote, Writing, Running
  <2>3. /\ file' \in Seq(Line \cup {Torn, Glued})
        /\ readable(file) = readable(file')
        /\ \A i \in readable(file) : file'[i] = file[i]
        /\ readable(file') # DOMAIN file'
    BY <1>1, <1>3, AppendTorn DEF ExportTypeOK
  <2>4. ExportTypeOK'
    BY <1>1, <2>1, <2>2, <2>3 DEF ExportTypeOK
  <2>5. IdsOnce'
    <3>1. FileIds' = FileIds
      BY <2>3 DEF FileIds
    <3>2. SentIds' = SentIds /\ IdsIn(queue)' = IdsIn(queue)
      BY <2>2 DEF SentIds, IdsIn
    <3>3. \A i, k \in readable(file') : file'[i].id = file'[k].id => i = k
      BY <2>3 DEF ExportInv, IdsOnce
    <3>4. QED
      BY <2>1, <2>2, <3>1, <3>2, <3>3 DEF ExportInv, IdsOnce
  <2>6. GoesOn'
    BY <2>3 DEF GoesOn, FileWhole
  <2>7. NoFile'
    BY <2>1 DEF NoFile, IdsIn, FileTodo
  <2>8. QED
    BY <2>4, <2>5, <2>6, <2>7, WroteKeeps DEF ExportInv, FileWriteFails
<1>4. QED
  BY <1>2, <1>3 DEF FileWriteFails
---------------------------------------------------------------------------
(* Rows come in                                                            *)
LEMMA LogCreatePreserves ==
  ASSUME ExportInv, LogCreate
  PROVE  ExportInv'
<1>1. /\ auditLog' = auditLog + 1 /\ logging' = logging \cup {auditLog + 1}
      /\ UNCHANGED <<queue, job, seq, prevHash, file, collector, mode, awaited, owed>>
      /\ auditLog \in Nat /\ auditLog < MaxRecords /\ mode # "down" /\ MaxRecords \in Nat
  BY SinksShape DEF LogCreate, ExportInv, ExportTypeOK, Running
<1>2. 1 .. auditLog' = (1 .. auditLog) \cup {auditLog + 1} /\ auditLog + 1 \notin 1 .. auditLog
  BY <1>1
<1>3. ExportTypeOK'
  BY <1>1, <1>2 DEF ExportInv, ExportTypeOK
<1>4. /\ IdsIn(queue)' = IdsIn(queue) /\ Current' = Current /\ FileIds' = FileIds
      /\ SentIds' = SentIds /\ FileTodo' = FileTodo
  BY <1>1 DEF IdsIn, Current, FileIds, SentIds, FileTodo
<1>5. IdsOnce'
  BY <1>1, <1>2, <1>4 DEF ExportInv, IdsOnce
<1>6. JobLinked' /\ GoesOn' /\ NoFile' /\ AwaitsAll'
  BY <1>1 DEF ExportInv, JobLinked, GoesOn, NoFile, AwaitsAll, FileWhole, FileLinked, JobWritten,
              JobLines, Current, Outstanding, IdsIn
<1>7. QED
  BY <1>3, <1>5, <1>6 DEF ExportInv

LEMMA EnqueuePreserves ==
  ASSUME ExportInv, NEW id \in Ids, Enqueue(id)
  PROVE  ExportInv'
<1>1. /\ logging' = logging \ {id} /\ queue' = Append(queue, id) /\ id \in logging
      /\ UNCHANGED <<auditLog, job, seq, prevHash, file, collector, mode, awaited, owed>>
      /\ mode # "down"
  BY DEF Enqueue, Running
<1>2. /\ queue \in Seq(Ids) /\ Len(queue) \in Nat /\ DOMAIN queue = 1 .. Len(queue)
      /\ queue' \in Seq(Ids) /\ DOMAIN queue' = 1 .. Len(queue) + 1
      /\ queue'[Len(queue) + 1] = id
      /\ \A k \in DOMAIN queue : queue'[k] = queue[k] /\ k \in DOMAIN queue'
      /\ \A k \in DOMAIN queue' : k \in DOMAIN queue \/ k = Len(queue) + 1
  BY <1>1 DEF ExportInv, ExportTypeOK
<1>3. ExportTypeOK'
  BY <1>1, <1>2 DEF ExportInv, ExportTypeOK
<1>4. /\ IdsIn(queue)' = IdsIn(queue) \cup {id} /\ Current' = Current /\ FileIds' = FileIds
      /\ SentIds' = SentIds /\ FileTodo' = FileTodo
  BY <1>1, <1>2 DEF IdsIn, Current, FileIds, SentIds, FileTodo
<1>5. IdsOnce'
  <2>1. id \notin IdsIn(queue) \cup Current \cup FileIds \cup SentIds \cup owed
    BY <1>1 DEF ExportInv, IdsOnce
  <2>2. id \in 1 .. auditLog
    BY <1>1 DEF ExportInv, ExportTypeOK
  <2>3. \A k \in DOMAIN queue : queue[k] # id
    BY <2>1 DEF IdsIn
  <2>4. \A i, k \in DOMAIN queue' : queue'[i] = queue'[k] => i = k
    BY <1>2, <2>3 DEF ExportInv, IdsOnce
  <2>5. QED
    BY <1>1, <1>4, <2>1, <2>2, <2>4 DEF ExportInv, IdsOnce
<1>6. JobLinked' /\ GoesOn' /\ NoFile'
  BY <1>1 DEF ExportInv, JobLinked, GoesOn, NoFile, FileWhole, FileLinked, JobWritten,
              JobLines, IdsIn
<1>7. AwaitsAll'
  <2> SUFFICES ASSUME mode = "draining" PROVE
         /\ \A k \in DOMAIN queue' : queue'[k] \in owed =>
               \E m \in DOMAIN queue' : m >= k /\ queue'[m] \in awaited
         /\ Current \cap owed # {} => Outstanding' \cap awaited # {}
    BY <1>1, <1>4 DEF AwaitsAll
  <2>1. id \notin owed
    BY <1>1 DEF ExportInv, IdsOnce
  <2>2. ASSUME NEW k \in DOMAIN queue', queue'[k] \in owed
        PROVE  \E m \in DOMAIN queue' : m >= k /\ queue'[m] \in awaited
    <3>1. k \in DOMAIN queue /\ queue[k] \in owed
      BY <1>2, <2>1, <2>2
    <3>2. PICK m \in DOMAIN queue : m >= k /\ queue[m] \in awaited
      BY <3>1 DEF ExportInv, AwaitsAll
    <3>3. QED
      BY <1>2, <3>2
  <2>3. Outstanding \subseteq Outstanding'
    BY <1>4 DEF Outstanding
  <2>4. QED
    BY <2>2, <2>3 DEF ExportInv, AwaitsAll
<1>8. QED
  BY <1>3, <1>5, <1>6, <1>7 DEF ExportInv

LEMMA JobBeginPreserves ==
  ASSUME ExportInv, JobBegin
  PROVE  ExportInv'
<1> DEFINE id == Head(queue)
           line == [id |-> id, seq |-> seq + 1, prevHash |-> prevHash,
                    hash |-> lineHash(prevHash, id)]
           j == [line |-> line, next |-> 1, anyOk |-> FALSE]
<1>1. /\ job = <<>> /\ queue # <<>> /\ queue' = Tail(queue) /\ job' = <<j>>
      /\ UNCHANGED <<auditLog, logging, seq, prevHash, file, collector, mode, awaited, owed>>
      /\ mode # "down"
  BY DEF JobBegin, Running
<1>2. /\ queue \in Seq(Ids) /\ Len(queue) \in Nat /\ DOMAIN queue = 1 .. Len(queue)
      /\ 1 \in DOMAIN queue /\ id = queue[1] /\ id \in Ids
      /\ queue' \in Seq(Ids) /\ DOMAIN queue' = 1 .. Len(queue) - 1
      /\ \A k \in DOMAIN queue' : queue'[k] = queue[k + 1] /\ k + 1 \in DOMAIN queue
  BY <1>1 DEF ExportInv, ExportTypeOK
<1>3. line \in Line /\ line.id = id
  BY <1>2 DEF ExportInv, ExportTypeOK, Line, lineHash
<1> HIDE DEF id
<1>4. j \in Job /\ j.line = line /\ ~j.anyOk
  BY <1>3, SinksShape DEF Job
<1> HIDE DEF j
<1>5. /\ job' # <<>> /\ job' \in Seq(Job) /\ Len(job') = 1 /\ job'[1] = j
      /\ IdsIn(job)' = {j}
  <2>1. /\ job' # <<>> /\ job' \in Seq(Job) /\ Len(job') = 1 /\ job'[1] = j /\ DOMAIN job' = {1}
    BY <1>1, <1>4
  <2>2. QED
    BY <2>1 DEF IdsIn
<1>6. /\ Current = {} /\ JobLines = {} /\ ~FileTodo /\ ~JobWritten
      /\ Current' = {id} /\ JobLines' = {line}
  BY <1>1, <1>3, <1>4, <1>5, JobShape
  DEF ExportInv, Current, JobLines, FileTodo, JobWritten
<1>7. ExportTypeOK'
  BY <1>1, <1>2, <1>5 DEF ExportInv, ExportTypeOK
<1>8. IdsIn(queue)' \subseteq IdsIn(queue) \ {id} /\ id \in IdsIn(queue)
  <2>1. \A k \in DOMAIN queue' : k + 1 # 1
    BY <1>2
  <2>2. QED
    BY <1>2, <2>1 DEF ExportInv, IdsOnce, IdsIn
<1>9. FileIds' = FileIds /\ SentIds' = SentIds
  BY <1>1 DEF FileIds, SentIds
<1>10. IdsOnce'
  <2>1. \A i, k \in DOMAIN queue' : queue'[i] = queue'[k] => i = k
    <3>1. \A i, k \in DOMAIN queue' : i + 1 = k + 1 => i = k
      BY <1>2
    <3>2. QED
      BY <1>2, <3>1 DEF ExportInv, IdsOnce
  <2>2. QED
    BY <1>1, <1>6, <1>8, <1>9, <2>1 DEF ExportInv, IdsOnce
<1>11. id \notin FileIds /\ id \notin SentIds
  BY <1>8 DEF ExportInv, IdsOnce
<1>12. GoesOn'
  <2> SUFFICES ASSUME FileWhole' PROVE
         /\ FileLinked
         /\ "FILE" \in IdsIn(Sinks) => ~JobWritten' /\ seq = Len(file) /\ prevHash = EndOf(file)
    BY <1>1, <1>4, <1>5 DEF GoesOn, FileLinked, EndOf, IdsIn
  <2>1. line \notin collector
    BY <1>3, <1>11 DEF SentIds
  <2>2. FileWhole
    BY <1>1, <1>6, <2>1 DEF FileWhole, IdsIn
  <2>3. ~JobWritten'
    <3>1. file # <<>> => Len(file) \in DOMAIN file
      BY DEF ExportInv, ExportTypeOK
    <3>2. file # <<>> => Len(file) \in readable(file)
      BY <2>2, <3>1 DEF FileWhole
    <3>3. file # <<>> => file[Len(file)] # line
      BY <1>3, <1>11, <3>2 DEF FileIds
    <3>4. QED
      BY <1>1, <1>4, <1>5, <3>3 DEF JobWritten
  <2>4. QED
    BY <1>1, <1>6, <2>2, <2>3 DEF ExportInv, GoesOn
<1>13. JobLinked'
  BY <1>1, <1>3, <1>4, <1>5 DEF JobLinked
<1>14. NoFile'
  BY <1>1 DEF ExportInv, NoFile, IdsIn
<1>15. AwaitsAll'
  <2> SUFFICES ASSUME mode = "draining" PROVE
         /\ \A k \in DOMAIN queue' : queue'[k] \in owed =>
               \E m \in DOMAIN queue' : m >= k /\ queue'[m] \in awaited
         /\ id \in owed => Outstanding' \cap awaited # {}
    BY <1>1, <1>6 DEF AwaitsAll
  <2>1. \A k \in DOMAIN queue : queue[k] \in owed =>
          \E m \in DOMAIN queue : m >= k /\ queue[m] \in awaited
    BY DEF ExportInv, AwaitsAll
  <2>2. \A m \in DOMAIN queue : m = 1 \/ (m - 1 \in DOMAIN queue' /\ queue'[m - 1] = queue[m])
    <3>1. \A m \in DOMAIN queue : m = 1 \/ (m - 1 \in DOMAIN queue' /\ (m - 1) + 1 = m)
      BY <1>2
    <3>2. QED
      BY <1>2, <3>1
  <2>3. ASSUME NEW k \in DOMAIN queue', queue'[k] \in owed
        PROVE  \E m \in DOMAIN queue' : m >= k /\ queue'[m] \in awaited
    <3>1. PICK m \in DOMAIN queue : m >= k + 1 /\ queue[m] \in awaited
      BY <1>2, <2>1, <2>3
    <3>2. m # 1 /\ m - 1 >= k
      BY <1>2, <3>1
    <3>3. QED
      BY <2>2, <3>1, <3>2
  <2>4. ASSUME id \in owed PROVE Outstanding' \cap awaited # {}
    <3>1. PICK m \in DOMAIN queue : queue[m] \in awaited
      BY <1>2, <2>1, <2>4
    <3>2. queue[m] \in Outstanding'
      BY <1>2, <1>6, <2>2 DEF Outstanding, IdsIn
    <3>3. QED
      BY <3>1, <3>2
  <2>5. QED
    BY <2>3, <2>4
<1>16. QED
  BY <1>7, <1>10, <1>12, <1>13, <1>14, <1>15 DEF ExportInv

(* A job ends.  If some sink took the line then, in a whole file, it is    *)
(* the last line, so what the service remembers is again the file's end.   *)
LEMMA JobEndPreserves ==
  ASSUME ExportInv, JobEnd
  PROVE  ExportInv'
<1> DEFINE l == job[1].line
<1>1. ExportTypeOK
  BY DEF ExportInv
<1>2. /\ job # <<>> /\ job[1] \in Job /\ l \in Line /\ job' = <<>>
      /\ Current = {l.id} /\ JobLines = {l}
      /\ UNCHANGED <<auditLog, logging, queue, file, collector, mode, awaited, owed>>
      /\ mode # "down"
  BY <1>1, JobShape, LineShape DEF JobEnd, Running
<1>3. Current' = {} /\ JobLines' = {} /\ ~FileTodo' /\ ~JobWritten' /\ job' \in Seq(Job) /\ Len(job') = 0
  BY <1>2 DEF Current, JobLines, IdsIn, FileTodo, JobWritten
<1>4. l.seq \in Nat /\ l.hash \in Seq(Ids)
  BY <1>2, LineShape
<1>5. \/ job[1].anyOk /\ seq' = l.seq /\ prevHash' = l.hash
      \/ ~job[1].anyOk /\ seq' = seq /\ prevHash' = prevHash
  BY DEF JobEnd, Advances
<1>6. ExportTypeOK'
  BY <1>1, <1>2, <1>3, <1>4, <1>5 DEF ExportTypeOK
<1>7. IdsIn(queue)' = IdsIn(queue) /\ FileIds' = FileIds /\ SentIds' = SentIds
  BY <1>2 DEF IdsIn, FileIds, SentIds
<1>8. IdsOnce'
  BY <1>2, <1>3, <1>7 DEF ExportInv, IdsOnce
<1>9. GoesOn'
  <2> SUFFICES ASSUME FileWhole' PROVE
         FileLinked /\ ("FILE" \in IdsIn(Sinks) => seq' = Len(file) /\ prevHash' = EndOf(file))
    BY <1>2, <1>3 DEF GoesOn, FileLinked, EndOf, IdsIn
  <2>1. FileWhole /\ collector \subseteq IdsIn(file)
    BY <1>2, <1>3 DEF FileWhole, IdsIn
  <2>2. FileLinked
    BY <2>1 DEF ExportInv, GoesOn
  <2>3. ASSUME "FILE" \in IdsIn(Sinks) PROVE seq' = Len(file) /\ prevHash' = EndOf(file)
    <3>1. IF JobWritten THEN job[1].anyOk ELSE seq = Len(file) /\ prevHash = EndOf(file)
      BY <1>2, <2>1, <2>3 DEF ExportInv, GoesOn
    <3>2. CASE JobWritten
      <4>1. file # <<>> /\ file[Len(file)] = l
        BY <3>2 DEF JobWritten
      <4>2. Len(file) \in DOMAIN file
        BY <1>1, <4>1 DEF ExportTypeOK
      <4>3. l.seq = Len(file) /\ l.hash = EndOf(file)
        BY <2>2, <4>1, <4>2 DEF FileLinked, EndOf
      <4>4. QED
        BY <1>5, <3>1, <3>2, <4>3
    <3>3. CASE ~JobWritten
      <4>1. Len(file) \in Nat /\ DOMAIN file = 1 .. Len(file)
        BY <1>1 DEF ExportTypeOK
      <4>2. l.seq = Len(file) + 1
        BY <1>2, <3>1, <3>3 DEF ExportInv, JobLinked
      <4>3. \A i \in DOMAIN file : file[i].seq # l.seq
        BY <2>2, <4>1, <4>2 DEF FileLinked
      <4>4. l \notin IdsIn(file)
        BY <4>3 DEF IdsIn
      <4>5. ~job[1].anyOk
        BY <1>2, <2>1, <4>4 DEF ExportInv, GoesOn
      <4>6. QED
        BY <1>5, <3>1, <3>3, <4>5
    <3>4. QED
      BY <3>2, <3>3
  <2>4. QED
    BY <2>2, <2>3
<1>10. JobLinked' /\ NoFile'
  BY <1>2 DEF ExportInv, JobLinked, NoFile, IdsIn
<1>11. AwaitsAll'
  BY <1>2, <1>3 DEF ExportInv, AwaitsAll
<1>12. QED
  BY <1>6, <1>8, <1>9, <1>10, <1>11 DEF ExportInv
---------------------------------------------------------------------------
(* The process stops and starts                                            *)
LEMMA SigtermPreserves ==
  ASSUME ExportInv, Sigterm
  PROVE  ExportInv'
<1>1. ExportTypeOK
  BY DEF ExportInv
<1>2. /\ mode = "up" /\ mode' = "draining" /\ awaited' = LastQueued /\ owed' = Outstanding
      /\ UNCHANGED <<auditLog, logging, queue, job, seq, prevHash, file, collector>>
  BY DEF Sigterm, memory
<1>3. /\ queue \in Seq(Ids) /\ Len(queue) \in Nat /\ DOMAIN queue = 1 .. Len(queue)
      /\ IdsIn(queue) \subseteq Ids
      /\ queue # <<>> => Len(queue) \in DOMAIN queue
  BY <1>1 DEF ExportTypeOK, IdsIn
<1>4. Current \subseteq Ids
  BY <1>1, JobShape, LineShape
<1>5. LastQueued \subseteq Ids /\ Outstanding \subseteq Ids
  BY <1>3, <1>4 DEF LastQueued, Outstanding, IdsIn
<1>6. ExportTypeOK'
  BY <1>1, <1>2, <1>5 DEF ExportTypeOK
<1>7. /\ IdsIn(queue)' = IdsIn(queue) /\ Current' = Current /\ FileIds' = FileIds
      /\ SentIds' = SentIds /\ FileTodo' = FileTodo
  BY <1>2 DEF IdsIn, Current, FileIds, SentIds, FileTodo
<1>8. IdsOnce'
  BY <1>2, <1>7 DEF ExportInv, IdsOnce, Outstanding
<1>9. JobLinked' /\ GoesOn' /\ NoFile'
  BY <1>2 DEF ExportInv, JobLinked, GoesOn, NoFile, FileWhole, FileLinked, JobWritten,
              JobLines, IdsIn
<1>10. AwaitsAll'
  <2>1. Outstanding' = Outstanding
    BY <1>2 DEF Outstanding, Current, IdsIn
  <2>2. CASE queue = <<>>
    <3>1. DOMAIN queue = {}
      BY <2>2
    <3>2. Outstanding = Current /\ awaited' = Current
      BY <1>2, <2>2, <3>1 DEF LastQueued, Outstanding, IdsIn
    <3>3. QED
      BY <1>2, <1>7, <2>1, <3>1, <3>2 DEF AwaitsAll
  <2>3. CASE queue # <<>>
    <3>1. awaited' = {queue[Len(queue)]} /\ queue[Len(queue)] \in Outstanding
      BY <1>2, <1>3, <2>3 DEF LastQueued, Outstanding, IdsIn
    <3>2. \A k \in DOMAIN queue : Len(queue) >= k
      BY <1>3
    <3>3. QED
      BY <1>2, <1>3, <2>1, <2>3, <3>1, <3>2 DEF AwaitsAll
  <2>4. QED
    BY <2>2, <2>3
<1>11. QED
  BY <1>6, <1>8, <1>9, <1>10 DEF ExportInv

LEMMA DownPreserves ==
  ASSUME ExportInv, Stop \/ Kill
  PROVE  ExportInv'
<1>1. ExportTypeOK
  BY DEF ExportInv
<1>2. /\ mode' = "down" /\ logging' = {} /\ queue' = <<>> /\ job' = <<>> /\ seq' = 0
      /\ prevHash' = GENESIS /\ awaited' = {} /\ owed' = {}
      /\ UNCHANGED <<auditLog, file, collector>>
  BY DEF Stop, Kill, Forget
<1>3. IdsIn(queue)' = {} /\ Current' = {} /\ JobLines' = {} /\ ~FileTodo'
  BY <1>2 DEF IdsIn, Current, JobLines, FileTodo
<1>4. ExportTypeOK'
  BY <1>1, <1>2 DEF ExportTypeOK, GENESIS
<1>5. FileIds' = FileIds /\ SentIds' = SentIds
  BY <1>2 DEF FileIds, SentIds
<1>6. IdsOnce'
  BY <1>2, <1>3, <1>5 DEF ExportInv, IdsOnce
<1>7. GoesOn'
  <2> SUFFICES ASSUME FileWhole' PROVE FileLinked
    BY <1>2 DEF GoesOn, FileLinked
  <2>1. FileWhole
    BY <1>2, <1>3 DEF FileWhole, IdsIn
  <2>2. QED
    BY <2>1 DEF ExportInv, GoesOn
<1>8. JobLinked' /\ NoFile' /\ AwaitsAll'
  BY <1>2 DEF ExportInv, JobLinked, NoFile, AwaitsAll, IdsIn
<1>9. QED
  BY <1>4, <1>6, <1>7, <1>8 DEF ExportInv

LEMMA RestartPreserves ==
  ASSUME ExportInv, Restart
  PROVE  ExportInv'
<1>1. ExportTypeOK
  BY DEF ExportInv
<1>2. /\ mode = "down" /\ mode' = "up" /\ seq' = Resumed.lines /\ prevHash' = Resumed.head
      /\ UNCHANGED <<auditLog, logging, queue, job, file, collector, awaited, owed>>
  BY DEF Restart
<1>3. file \in Seq(Line \cup {Torn, Glued}) /\ <<>> \in Seq(Line \cup {Torn, Glued})
  BY <1>1 DEF ExportTypeOK
<1>4. Resumed.lines \in Nat /\ Resumed.head \in Seq(Ids)
  BY <1>3, ResumedShape DEF Resumed
<1>5. job = <<>> /\ queue = <<>> /\ logging = {}
  BY <1>1, <1>2 DEF ExportTypeOK
<1>6. ExportTypeOK'
  BY <1>1, <1>2, <1>4 DEF ExportTypeOK
<1>7. IdsOnce'
  <2>1. /\ IdsIn(queue)' = IdsIn(queue) /\ Current' = Current /\ FileIds' = FileIds
        /\ SentIds' = SentIds /\ FileTodo' = FileTodo
    BY <1>2 DEF IdsIn, Current, FileIds, SentIds, FileTodo
  <2>2. QED
    BY <1>2, <2>1 DEF ExportInv, IdsOnce
<1>8. GoesOn'
  <2> SUFFICES ASSUME FileWhole' PROVE
         /\ FileLinked
         /\ "FILE" \in IdsIn(Sinks) => Resumed.lines = Len(file) /\ Resumed.head = EndOf(file)
    BY <1>2, <1>5 DEF GoesOn, FileLinked, EndOf, JobWritten, IdsIn
  <2>1. FileWhole
    BY <1>2 DEF FileWhole, IdsIn, JobLines
  <2>2. FileLinked
    BY <2>1 DEF ExportInv, GoesOn
  <2>3. ASSUME "FILE" \in IdsIn(Sinks)
        PROVE  Resumed.lines = Len(file) /\ Resumed.head = EndOf(file)
    <3>1. Resumed = verifyExportedChain(file)
      BY <2>3 DEF Resumed
    <3>2. Len(file) \in Nat /\ (Len(file) = 0 <=> file = <<>>)
      BY <1>3
    <3>3. Lines(file, Len(file)) = Len(file)
      BY <1>3, <2>1, <3>2, WholeFile DEF FileWhole
    <3>4. HeadBefore(file, Len(file) + 1) = IF Len(file) + 1 = 1 THEN GENESIS ELSE file[(Len(file) + 1) - 1].hash
      BY <1>3, <2>1, <3>2, WholeFile DEF FileWhole
    <3>5. (Len(file) + 1) - 1 = Len(file) /\ (Len(file) + 1 = 1 <=> file = <<>>)
      BY <3>2
    <3>6. HeadBefore(file, Len(file) + 1) = EndOf(file)
      BY <3>4, <3>5 DEF EndOf
    <3>7. QED
      BY <3>1, <3>3, <3>6 DEF verifyExportedChain
  <2>4. QED
    BY <2>2, <2>3
<1>9. JobLinked' /\ NoFile' /\ AwaitsAll'
  BY <1>2, <1>5 DEF ExportInv, JobLinked, NoFile, AwaitsAll, IdsIn
<1>10. QED
  BY <1>6, <1>7, <1>8, <1>9 DEF ExportInv
---------------------------------------------------------------------------
LEMMA ExportInvInit == Init => ExportInv
<1> SUFFICES ASSUME Init PROVE ExportInv
  OBVIOUS
<1>1. /\ auditLog = 0 /\ logging = {} /\ queue = <<>> /\ job = <<>> /\ seq = 0
      /\ prevHash = <<>> /\ file = <<>> /\ collector = {} /\ mode = "up"
      /\ awaited = {} /\ owed = {}
  BY DEF Init, GENESIS
<1>2. ExportTypeOK
  BY <1>1, SinksShape DEF ExportTypeOK
<1>3. /\ IdsIn(queue) = {} /\ Current = {} /\ FileIds = {} /\ SentIds = {} /\ ~FileTodo
      /\ readable(file) = {} /\ DOMAIN queue = {} /\ DOMAIN file = {}
  BY <1>1 DEF IdsIn, Current, FileIds, SentIds, FileTodo, readable
<1>4. IdsOnce
  BY <1>1, <1>3 DEF IdsOnce
<1>5. GoesOn
  BY <1>1, <1>3 DEF GoesOn, FileLinked, JobWritten, EndOf, GENESIS
<1>6. JobLinked /\ NoFile /\ AwaitsAll
  BY <1>1 DEF JobLinked, NoFile, AwaitsAll
<1>7. QED
  BY <1>2, <1>4, <1>5, <1>6 DEF ExportInv

LEMMA ExportInvNext == ExportInv /\ [Next]_vars => ExportInv'
<1> SUFFICES ASSUME ExportInv, [Next]_vars PROVE ExportInv'
  OBVIOUS
<1>1. CASE LogCreate \/ JobBegin \/ JobEnd
  BY <1>1, LogCreatePreserves, JobBeginPreserves, JobEndPreserves
<1>2. CASE \E id \in Ids : Enqueue(id)
  BY <1>2, EnqueuePreserves
<1>3. CASE FileWrite \/ FileWriteFails \/ HttpWrite \/ HttpWriteFails
  BY <1>3, FileWritePreserves, FileWriteFailsPreserves, HttpWritePreserves, HttpWriteFailsPreserves
<1>4. CASE Sigterm \/ Stop \/ Kill \/ Restart
  BY <1>4, SigtermPreserves, DownPreserves, RestartPreserves
<1>5. CASE UNCHANGED vars
  <2>1. UNCHANGED <<auditLog, logging, queue, job, seq, prevHash, file, collector, mode, awaited, owed>>
    BY <1>5 DEF vars
  <2>2. ExportTypeOK'
    BY <2>1 DEF ExportInv, ExportTypeOK
  <2>3. /\ IdsIn(queue)' = IdsIn(queue) /\ Current' = Current /\ FileIds' = FileIds
        /\ SentIds' = SentIds /\ FileTodo' = FileTodo /\ readable(file)' = readable(file)
    BY <2>1 DEF IdsIn, Current, FileIds, SentIds, FileTodo, readable
  <2>4. IdsOnce'
    BY <2>1, <2>3 DEF ExportInv, IdsOnce
  <2>5. JobLinked' /\ NoFile'
    BY <2>1 DEF ExportInv, JobLinked, NoFile
  <2>6. /\ FileLinked' = FileLinked /\ JobWritten' = JobWritten /\ FileWhole' = FileWhole
        /\ EndOf(file)' = EndOf(file)
    BY <2>1 DEF FileLinked, JobWritten, FileWhole, JobLines, IdsIn, readable, EndOf
  <2>7. GoesOn'
    BY <2>1, <2>6 DEF ExportInv, GoesOn, IdsIn
  <2>8. AwaitsAll'
    BY <2>1, <2>3 DEF ExportInv, AwaitsAll, Outstanding
  <2>9. QED
    BY <2>2, <2>4, <2>5, <2>7, <2>8 DEF ExportInv
<1>6. QED
  BY <1>1, <1>2, <1>3, <1>4, <1>5 DEF Next

LEMMA ExportInvariant == Spec => []ExportInv
BY ExportInvInit, ExportInvNext, PTL DEF Spec

(* The table, the file, the collector and what the service keeps in memory *)
(* stay of their types (AuditService, AuditExportService).                 *)
THEOREM ExportTypeCorrect == Spec => []ExportTypeOK
<1>1. ExportInv => ExportTypeOK
  BY DEF ExportInv
<1>2. QED
  BY <1>1, ExportInvariant, PTL

(* A file that lacks nothing verifies, whatever failed and whenever the    *)
(* process was stopped, killed and restarted (enqueue, onModuleInit).      *)
THEOREM ChainNoFalseAlarm == Spec => []FileChainIntact
<1>1. ASSUME ExportInv PROVE FileChainIntact
  <2> SUFFICES ASSUME FileComplete PROVE verifyExportedChain(file).ok
    BY DEF FileChainIntact
  <2>1. /\ file \in Seq(Line \cup {Torn, Glued}) /\ readable(file) = DOMAIN file
        /\ DOMAIN file = 1 .. Len(file) /\ Len(file) \in Nat
    BY <1>1 DEF ExportInv, ExportTypeOK, FileComplete
  <2>2. FileLinked
    BY <1>1 DEF ExportInv, GoesOn, FileWhole, FileComplete
  <2>3. ASSUME NEW i \in DOMAIN file PROVE RowOk(file, i)
    <3>1. i \in 0 .. Len(file) /\ i \in 1 .. Len(file) + 1
      BY <2>1
    <3>2. Lines(file, i) = i /\ HeadBefore(file, i) = IF i = 1 THEN GENESIS ELSE file[i - 1].hash
      BY <2>1, <3>1, WholeFile
    <3>3. QED
      BY <2>2, <3>2 DEF FileLinked, RowOk
  <2>4. QED
    BY <2>1, <2>3 DEF verifyExportedChain
<1>2. QED
  BY <1>1, ExportInvariant, PTL

(* Every row is exported once, and only rows of the table are.             *)
THEOREM RowsExportedOnce == Spec => []ExportedOnce
<1>1. ASSUME ExportInv PROVE ExportedOnce
  <2>1. \A i \in readable(file) : file[i].id \in 1 .. auditLog
    BY <1>1 DEF ExportInv, IdsOnce, FileIds
  <2>2. \A i \in readable(file) : file[i].id <= auditLog
    BY <2>1
  <2>3. QED
    BY <1>1, <2>2 DEF ExportInv, IdsOnce, ExportedOnce
<1>2. QED
  BY <1>1, ExportInvariant, PTL

(* On SIGTERM everything that was queued is exported, or has failed, before *)
(* the process stops (onModuleDestroy, flush).                             *)
THEOREM StopDrains == Spec => DrainedOnStop
<1>1. ASSUME ExportInv, Stop PROVE owed \cap Outstanding = {}
  <2>1. mode = "draining" /\ awaited \cap Outstanding = {}
    BY <1>1 DEF Stop
  <2>2. IdsIn(queue) \cap owed = {}
    BY <1>1, <2>1 DEF ExportInv, AwaitsAll, Outstanding, IdsIn
  <2>3. Current \cap owed = {}
    BY <1>1, <2>1 DEF ExportInv, AwaitsAll
  <2>4. QED
    BY <2>2, <2>3 DEF Outstanding
<1>2. ExportInv /\ [Next]_vars => [Stop => owed \cap Outstanding = {}]_vars
  BY <1>1
<1>3. QED
  BY <1>2, ExportInvariant, PTL DEF Spec, DrainedOnStop
===========================================================================
