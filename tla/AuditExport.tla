---------------------------- MODULE AuditExport ----------------------------
(***************************************************************************)
(* The copy of the audit log outside the database: AuditService.log        *)
(* (common/audit.service.ts) hands every row to AuditExportService         *)
(* (common/audit-sink.ts), which chains the rows by hash and writes them,  *)
(* one after the other, to a file and to a remote collector.               *)
(*                                                                         *)
(* One process runs with a fixed AUDIT_INSTANCE_ID; it can be stopped,     *)
(* killed and restarted at any time.  A row is its id, and a hash is the   *)
(* sequence of the rows it covers.                                         *)
(***************************************************************************)
EXTENDS Integers, Sequences, FiniteSets

CONSTANTS
  Sinks,      \* AUDIT_SINKS in their order, a sequence over "FILE", "HTTP"
  MaxRecords, \* bound: rows of the audit log
  Tears       \* whether an append to the file may fail half way

ASSUME SinksAssumption == /\ Sinks \in Seq({"FILE", "HTTP"}) /\ Sinks # <<>>
                          /\ \A i, k \in DOMAIN Sinks : Sinks[i] = Sinks[k] => i = k
ASSUME RecordsAssumption == MaxRecords \in Nat
ASSUME TearsAssumption == Tears \in BOOLEAN

VARIABLES
  auditLog,  \* number of rows in the table, their ids are 1 .. auditLog
  logging,   \* ids of rows whose log() call has not resumed yet
  queue,     \* ids of the queued jobs that have not begun
  job,       \* <<>> or the job being run, <<[line, next, anyOk]>>
  seq,       \* AuditExportService.seq
  prevHash,  \* AuditExportService.prevHash
  file,      \* rows of the exported file
  collector, \* set of lines the collector received
  mode,      \* "up", "draining" (onModuleDestroy) or "down"
  awaited,   \* ids of the jobs whose promise flush() awaits, at most one
  owed       \* what was outstanding at SIGTERM (history)

memory == <<logging, queue, job, seq, prevHash>>
vars   == <<auditLog, logging, queue, job, seq, prevHash, file, collector, mode, awaited, owed>>
---------------------------------------------------------------------------
Ids     == 1 .. MaxRecords
GENESIS == <<>>
Line    == [id : Ids, seq : Nat, prevHash : Seq(Ids), hash : Seq(Ids)]
lineHash(prev, id) == Append(prev, id)

(* A row of the file is a line, the beginning of one without a newline, or *)
(* such a beginning with the next line written behind it.                  *)
Torn  == [id |-> 0, seq |-> 0, prevHash |-> GENESIS, hash |-> GENESIS]
Glued == [id |-> 0, seq |-> 1, prevHash |-> GENESIS, hash |-> GENESIS]

readable(f) == {i \in DOMAIN f : f[i] \notin {Torn, Glued}}

(* verifyExportedChain: rows that are no JSON are skipped in the count and *)
(* in the chain, and are problems themselves.                              *)
Lines(f, i)   == Cardinality({k \in readable(f) : k <= i})
LastBefore(f, i) == {k \in readable(f) : k < i /\ \A m \in readable(f) : m < i => m <= k}
HeadBefore(f, i) == IF LastBefore(f, i) = {} THEN GENESIS
                    ELSE f[CHOOSE k \in LastBefore(f, i) : TRUE].hash

RowOk(f, i) ==
  /\ f[i].seq = Lines(f, i)
  /\ f[i].prevHash = HeadBefore(f, i)
  /\ f[i].hash = lineHash(f[i].prevHash, f[i].id)

verifyExportedChain(f) ==
  [ok    |-> readable(f) = DOMAIN f /\ \A i \in readable(f) : RowOk(f, i),
   lines |-> Lines(f, Len(f)),
   head  |-> HeadBefore(f, Len(f) + 1)]

Unterminated == file # <<>> /\ file[Len(file)] = Torn

(* appendFile, complete or half way: a row behind an unterminated one      *)
(* becomes part of it.                                                     *)
Appended(row) ==
  IF Unterminated THEN [file EXCEPT ![Len(file)] = IF row = Torn THEN Torn ELSE Glued]
                  ELSE Append(file, row)
---------------------------------------------------------------------------
Init ==
  /\ auditLog = 0
  /\ logging = {} /\ queue = <<>> /\ job = <<>>
  /\ seq = 0 /\ prevHash = GENESIS
  /\ file = <<>> /\ collector = {}
  /\ mode = "up" /\ awaited = {} /\ owed = {}

Running == mode \in {"up", "draining"}

(* log(): auditLog.create, and with the row, enqueue.  Calls run side by   *)
(* side, so rows may be queued in another order than they were created.    *)
LogCreate ==
  /\ Running
  /\ auditLog < MaxRecords
  /\ auditLog' = auditLog + 1
  /\ logging' = logging \cup {auditLog'}
  /\ UNCHANGED <<queue, job, seq, prevHash, file, collector, mode, awaited, owed>>

(* A form of it that keeps the row for another call                        *)
EnqueueAgain(id) ==
  /\ Running
  /\ id \in logging
  /\ queue' = Append(queue, id)
  /\ UNCHANGED <<auditLog, logging, job, seq, prevHash, file, collector, mode, awaited, owed>>

Enqueue(id) ==
  /\ Running
  /\ id \in logging
  /\ logging' = logging \ {id}
  /\ queue' = Append(queue, id)
  /\ UNCHANGED <<auditLog, job, seq, prevHash, file, collector, mode, awaited, owed>>

(* The queue is a chain of promises: a job begins when the one before it   *)
(* has ended, and reads seq and prevHash then.                             *)
JobBegin ==
  /\ Running
  /\ job = <<>> /\ queue # <<>>
  /\ queue' = Tail(queue)
  /\ LET id   == Head(queue)
         line == [id |-> id, seq |-> seq + 1, prevHash |-> prevHash,
                  hash |-> lineHash(prevHash, id)]
     IN job' = <<[line |-> line, next |-> 1, anyOk |-> FALSE]>>
  /\ UNCHANGED <<auditLog, logging, seq, prevHash, file, collector, mode, awaited, owed>>

Writing(name) == Running /\ job # <<>> /\ job[1].next <= Len(Sinks) /\ Sinks[job[1].next] = name

Wrote(ok) ==
  /\ job' = <<[job[1] EXCEPT !.next = @ + 1, !.anyOk = @ \/ ok]>>
  /\ UNCHANGED <<auditLog, logging, queue, seq, prevHash, mode, awaited, owed>>

FileWrite ==
  /\ Writing("FILE")
  /\ file' = Appended(job[1].line)
  /\ Wrote(TRUE)
  /\ UNCHANGED collector

FileWriteFails ==
  /\ Writing("FILE")
  /\ file' \in {file} \cup (IF Tears THEN {Appended(Torn)} ELSE {})
  /\ Wrote(FALSE)
  /\ UNCHANGED collector

HttpWrite ==
  /\ Writing("HTTP")
  /\ collector' = collector \cup {job[1].line}
  /\ Wrote(TRUE)
  /\ UNCHANGED file

(* Refused, or accepted with the answer lost or later than the 5 seconds   *)
HttpWriteFails ==
  /\ Writing("HTTP")
  /\ collector' \in {collector, collector \cup {job[1].line}}
  /\ Wrote(FALSE)
  /\ UNCHANGED file

(* Whether seq and prevHash advance to the line: only if some sink took it *)
AdvancesAlways == TRUE
Advances       == job[1].anyOk

JobEnd ==
  /\ Running
  /\ job # <<>> /\ job[1].next > Len(Sinks)
  /\ job' = <<>>
  /\ IF Advances THEN seq' = job[1].line.seq /\ prevHash' = job[1].line.hash
                 ELSE UNCHANGED <<seq, prevHash>>
  /\ UNCHANGED <<auditLog, logging, queue, file, collector, mode, awaited, owed>>
---------------------------------------------------------------------------
IdsIn(s)    == {s[i] : i \in DOMAIN s}
Current     == {j.line.id : j \in IdsIn(job)}
Outstanding == IdsIn(queue) \cup Current

(* this.queue is the promise of the job that was queued last.              *)
NextQueued  == IF job # <<>> THEN Current ELSE IF queue = <<>> THEN {} ELSE {Head(queue)}
LastQueued  == IF queue = <<>> THEN Current ELSE {queue[Len(queue)]}

(* SIGTERM: onModuleDestroy calls flush.  The web server closes later, so  *)
(* rows are still logged and queued while it waits.                        *)
Sigterm ==
  /\ mode = "up"
  /\ mode' = "draining"
  /\ awaited' = LastQueued
  /\ owed' = Outstanding
  /\ UNCHANGED <<auditLog, memory, file, collector>>

Forget == logging' = {} /\ queue' = <<>> /\ job' = <<>> /\ seq' = 0 /\ prevHash' = GENESIS

Stop ==
  /\ mode = "draining"
  /\ awaited \cap Outstanding = {}
  /\ mode' = "down"
  /\ Forget
  /\ awaited' = {} /\ owed' = {}
  /\ UNCHANGED <<auditLog, file, collector>>

(* SIGKILL, or the machine goes down                                       *)
Kill ==
  /\ Running
  /\ mode' = "down"
  /\ Forget
  /\ awaited' = {} /\ owed' = {}
  /\ UNCHANGED <<auditLog, file, collector>>

(* onModuleInit continues the file if it is one of the sinks, and with the *)
(* collector alone begins a new chain.                                     *)
ResumedAnew  == verifyExportedChain(<<>>)
Resumed      == IF "FILE" \in IdsIn(Sinks) THEN verifyExportedChain(file)
                                           ELSE verifyExportedChain(<<>>)

Restart ==
  /\ mode = "down"
  /\ mode' = "up"
  /\ seq' = Resumed.lines
  /\ prevHash' = Resumed.head
  /\ UNCHANGED <<auditLog, logging, queue, job, file, collector, awaited, owed>>

Next ==
  \/ LogCreate
  \/ \E id \in Ids : Enqueue(id)
  \/ JobBegin
  \/ FileWrite \/ FileWriteFails
  \/ HttpWrite \/ HttpWriteFails
  \/ JobEnd
  \/ Sigterm \/ Stop \/ Kill \/ Restart

Spec == Init /\ [][Next]_vars
---------------------------------------------------------------------------
Job == [line : Line, next : 1 .. Len(Sinks) + 1, anyOk : BOOLEAN]

(* What each variable may hold; the process in memory has nothing when it  *)
(* is down.                                                                *)
ExportTypeOK ==
  /\ auditLog \in 0 .. MaxRecords
  /\ logging \subseteq 1 .. auditLog
  /\ queue \in Seq(Ids)
  /\ job \in Seq(Job) /\ Len(job) <= 1
  /\ seq \in Nat
  /\ prevHash \in Seq(Ids)
  /\ file \in Seq(Line \cup {Torn, Glued})
  /\ collector \subseteq Line
  /\ mode \in {"up", "draining", "down"}
  /\ awaited \subseteq Ids
  /\ owed \subseteq Ids
  /\ mode = "down" => logging = {} /\ queue = <<>> /\ job = <<>>

(* audit:check raises no false alarm about the chain.  Whatever order the  *)
(* rows are queued in, whichever writes fail and however often the process *)
(* is killed and restarted, the file verifies, unless an append failed     *)
(* half way or the collector took a line that the file did not             *)
(* (enqueue, onModuleInit).                                                *)
FileComplete    == readable(file) = DOMAIN file /\ collector \subseteq IdsIn(file)
FileChainIntact == FileComplete => verifyExportedChain(file).ok

(* No row of the audit log is exported twice, or before it is in the table *)
(* (log, enqueue): a line without a row in the table was deleted there.    *)
ExportedOnce ==
  /\ \A i \in readable(file) : file[i].id <= auditLog
  /\ \A i, k \in readable(file) : file[i].id = file[k].id => i = k

(* A stop on SIGTERM leaves no job behind that was queued before it        *)
(* (onModuleDestroy, flush), though flush awaits one promise only and new  *)
(* jobs arrive meanwhile.                                                  *)
DrainedOnStop == [][Stop => owed \cap Outstanding = {}]_vars
---------------------------------------------------------------------------
(* What the repository says of itself and its code does not always do:     *)
(* TLC refutes it.                                                         *)

(* "If the number advanced although all failed, lines that succeed later   *)
(* would point to a line in front of them that does not exist": no line of *)
(* the file does.                                                          *)
NoDanglingLine ==
  \A i \in readable(file) :
    \/ file[i].prevHash = GENESIS
    \/ \E k \in readable(file) : k < i /\ file[k].hash = file[i].prevHash
---------------------------------------------------------------------------
(* The inductive invariant behind FileChainIntact, ExportedOnce and        *)
(* DrainedOnStop.                                                          *)

(* An id waits in one place, for its one line.                             *)
FileIds   == {file[i].id : i \in readable(file)}
SentIds   == {l.id : l \in collector}
FileTodo  == job # <<>> /\ \E k \in DOMAIN Sinks : k >= job[1].next /\ Sinks[k] = "FILE"

IdsOnce ==
  /\ IdsIn(queue) \cup Current \cup FileIds \cup SentIds \cup owed \subseteq 1 .. auditLog
  /\ \A i, k \in DOMAIN queue : queue[i] = queue[k] => i = k
  /\ logging \cap (IdsIn(queue) \cup Current \cup FileIds \cup SentIds \cup owed) = {}
  /\ IdsIn(queue) \cap (Current \cup FileIds \cup SentIds) = {}
  /\ FileTodo => Current \cap FileIds = {}
  /\ \A i, k \in readable(file) : file[i].id = file[k].id => i = k

(* The line of the running job goes on from what the service remembers.    *)
JobLinked ==
  job # <<>> => /\ job[1].line.seq = seq + 1
                /\ job[1].line.prevHash = prevHash
                /\ job[1].line.hash = lineHash(prevHash, job[1].line.id)

(* As long as the file lacks nothing, except perhaps the current line, it  *)
(* is one chain, and the service goes on from its end.                     *)
JobLines   == {j.line : j \in IdsIn(job)}
FileWhole  == readable(file) = DOMAIN file /\ collector \subseteq IdsIn(file) \cup JobLines
EndOf(f)   == IF f = <<>> THEN GENESIS ELSE f[Len(f)].hash
JobWritten == job # <<>> /\ file # <<>> /\ file[Len(file)] = job[1].line

FileLinked ==
  \A i \in DOMAIN file :
    /\ file[i].seq = i
    /\ file[i].prevHash = IF i = 1 THEN GENESIS ELSE file[i - 1].hash
    /\ file[i].hash = lineHash(file[i].prevHash, file[i].id)

GoesOn ==
  FileWhole =>
    /\ FileLinked
    /\ mode # "down" /\ "FILE" \in IdsIn(Sinks) =>
         IF JobWritten THEN job[1].anyOk ELSE seq = Len(file) /\ prevHash = EndOf(file)
    /\ job # <<>> /\ job[1].anyOk => job[1].line \in collector \cup IdsIn(file)

NoFile == "FILE" \notin IdsIn(Sinks) => file = <<>>

(* What flush awaits is behind everything that was outstanding.            *)
AwaitsAll ==
  mode = "draining" =>
    /\ \A k \in DOMAIN queue : queue[k] \in owed =>
          \E m \in DOMAIN queue : m >= k /\ queue[m] \in awaited
    /\ Current \cap owed # {} => Outstanding \cap awaited # {}

ExportInv ==
  /\ ExportTypeOK
  /\ IdsOnce
  /\ JobLinked
  /\ GoesOn
  /\ NoFile
  /\ AwaitsAll
===========================================================================
