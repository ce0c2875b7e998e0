# A verification of the election server

TLA+ models, model-checking instances and machine-checked proofs for the online
election system in `src/` (a NestJS API over PostgreSQL, a voter web client, an
admin client, and scripts). All paths below are relative to `src/`.

## 1. The system

| Component | State | Operations | What is hard | What makes it correct |
|---|---|---|---|---|
| **Voting** `apps/api/src/vote/vote.service.ts` | `Voter.hasVoted`, `Ballot` | `castBallot` | the election is read before the transaction, the transaction looks only at the voter row; concurrent requests of one voter; answers lost after the commit | one ballot per marked voter; no vote lost |
| **Election administration** `apps/api/src/admin/admin.service.ts` | `Election.status`, `Candidate`, `Voter`, `TallyApproval`, `TallyResult`, `invalidVotes` | `createElection`, `replaceCandidates`, `importRoster`, `sealRoster`, `openElection`, `closeElection`, `approveTally`/`openAndCount`, `integrityCheck` | every handler checks first and writes later, in calls of its own; imports run chunk by chunk; two approvals may both see the quorum; a status is committed before the checkpoint that records it | each step is one of the promised operations; no opening without a sealed roster; dual control; results from one count; every timely vote counted |
| **Checkpoint chain** `apps/api/src/integrity/integrity.service.ts` | `Checkpoint` | `createCheckpoint`, `verifyChain`, `rosterSealState` | read the head, scan the box in chunks, insert: no transaction, any number of callers, votes arriving meanwhile | the chain is linear; ballot sets of the rows grow; the audit notices drift |
| **Anchoring** `integrity/anchor.service.ts`, `integrity/anchor.ts` | `Anchor`, outside world | `anchorLatest`, `autoAnchor`, providers for files, observers, a blockchain | anchors the head, not the row just made; a confirmation may arrive after the timeout; one target of several fails; a crash between sending and recording | what is recorded is outside; every target is tried; the check against the outside is right |
| **Voter login** `auth/auth.service.ts`, `auth.controller.ts` | OTP columns of `Voter`, signed tokens | `requestOtp`, `verifyOtp` | counters read before and written after an await; tokens the client may mix up | messages are bounded; a receipt goes to its voter |
| **Identity verification** `auth/identity.service.ts`, `identity-verification.ts` | open transactions, `Voter.ciHash` | `begin`, `complete` | two completions race; one dies half way | one person, one roster row |
| **Admin login** `admin/admin-auth.service.ts`, `admin.guard.ts` | `AdminUser` | `login`, `beginTotpEnrollment`, `verifyTotp`, `changePassword` | TOTP step and lockout counter are written back as they were read | tries and sessions per code stay bounded; no operation without both factors |
| **Audit log and export** `common/audit.service.ts`, `common/audit-sink.ts` | `AuditLog`, a chain of promises, the file, the collector | `log`, `enqueue`, `flush`, start and stop | one sink of two fails, appends torn, kill with a full queue, restart | the exported chain raises no false alarm; no line twice |
| **Merkle tree** `integrity/merkle.ts` | none | `merkleRoot`, `merkleProof`, `verifyProof` | levels of odd width | the root is that of the reference tree; a proof pins its leaf |
| **Key sharing** `common/shamir.ts`, scripts `key-split`, `key-combine` | papers, the session of the script | `split`, `combine`, `decodeShare`, typing line after line | mistyped papers, papers of several splits, thresholds | never a wrong key; a quorum restores the key |
| **Ballot sealing** `common/ballot-crypto.ts`, `packages/ballot-seal` | none | `sealBallot`, `openBallot`, `keyPairMatches` | damaged ballots, ballots of other elections | opens to what was sealed or not at all |
| **Check scripts** `apps/api/scripts/tamper-check.ts`, `anchor-verify.ts` | edit the tables, read the chain outside | edits, rebuilding, comparison | edits that pile up; rows recomputed after anchoring | no tampering passes, no false alarm |
| **Queries** `election/election.service.ts` | none | `getCurrent`, `getResults` | several queries for one answer | the numbers shown are backed by ballots |
| **Database privileges** `apps/api/scripts/db-privileges.ts` | grants | – | – | ballots and checkpoints are append-only for the app |
| **Voter web client** `apps/web` | a step machine in each tab, the choice, the session | loading, signing in, choosing, sealing and sending, reloading | lost answers and retries, several tabs, buttons while a request is out | the final screen tells the truth; one receipt |
| **Admin web client** `apps/admin` | the screen, the session in memory, the last overview | login screens, list, creation, overview, actions, results | requests that outlive their screen or session; the overview is out of date | an expired session is said to be so only when it is; the numbers are true |
| **SMS** `auth/sms.service.ts` | none | – | – | – |

The components share nothing but the database, except that every service hands audit
rows to the exporter of its process. API processes hold no lock across
two calls, so every interleaving of the awaited calls of different requests is
possible; only single statements, the explicit `$transaction`s, unique indexes
and conditional `updateMany`s are atomic. `AdminService` calls
`IntegrityService.createCheckpoint` when the roster is sealed, when the election is
opened, closed and tallied, and then `AnchorService.autoAnchor`; the manual route
`POST admin/elections/:id/integrity/checkpoint` calls it at any time.

## 2. The modules

| Module | Models | Composition |
|---|---|---|
| `CheckpointChain` | `IntegrityService`: `createCheckpoint` one action per await, `verifyChain`, and as `DataStep` all it relies on from its environment | abstract specification that `Election` implements |
| `BallotBox` | what an election promises, each operation one step | abstract specification that `Election` implements (`BoxSpec`); the clients run against it |
| `Election` | `VoteService.castBallot`, all state-changing handlers of `AdminService`, `autoAnchor`, the checkpoint route | EXTENDS `CheckpointChain` and drives it |
| `SignIn` | `AuthService.requestOtp`, `verifyOtp`, `IdentityService.begin`, `complete`, the claim of `castBallot` | stands before `Election`: it models how the session that `castBallot` asks for comes about, on the columns of `Voter` that `Election` leaves out; they share `hasVoted` |
| `AdminAuth` | `AdminAuthService`, `AdminGuard`, `create-admin` as the initial state | stands before the handlers of `Election` as `SignIn` does; it shares no state with them |
| `AuditExport` | `AuditService.log`, `AuditExportService`, both sinks, `verifyExportedChain` | independent: nothing waits for it |
| `Anchoring` | `AnchorService`, the providers, the node behind one of them, the anchor routes, `anchor-verify` | what the step `AutoAnchor` of `Election` abstracts, over a chain that is only a sequence of versions of rows |
| `TamperCheck` | the edits of `tamper-check`, the pin of `anchor-verify` | EXTENDS `CheckpointChain` and puts an editor of its tables beside it |
| `Shamir`, `BallotSeal` | pure algorithms as operators | – |
| `Merkle` | the tree, its loops as functions of the number of turns; a box that grows by a ballot at the place its id gives it, from which `computeBallotRoot` takes the leaves | `CheckpointChain` and `TamperCheck` hold the box where the code holds its root; `RootsTellBoxesApart` says why they may |
| `KeyCeremony` | `key-split` and `key-combine` | EXTENDS `Shamir`, `BallotSeal` |
| `VoterClient`, `AdminClient` | `apps/web`, `apps/admin`, and the queries they show | each EXTENDS `BallotBox` |
| `Clients` | both pages among other voters and admins | EXTENDS both |
| `CheckpointChain_proofs`, `Election_proofs`, `SignIn_proofs`, `AuditExport_proofs`, `AdminAuth_proofs`, `Anchoring_proofs`, `Clients_proofs` | theorems about the module of that name | `Election_proofs` cites `CheckpointChain_proofs` |
| `Scripts_proofs` | theorems about the scripts of the operators, `KeyCeremony` and `TamperCheck`, about the tree, `Merkle`, and about interpolation, `Shamir` | EXTENDS all of them; the first three share no variable |
| `MCElection`, `MCSignIn`, `MCAuditExport`, `MCAdminAuth`, `MCAnchoring`, `MCTamperCheck`, `MCAlgorithms`, `MCClients` | small instances | `MCAlgorithms` puts `KeyCeremony` and `Merkle` side by side |

**Correspondence.** The tables are sets of rows (`roster`, `ballot`,
`tallyResult`, `candidate`, `approval`, `hasVoted`) or a function on the unique key
(`checkpoint`, keyed by `seq`). A handler in progress is `req[r]`: its program
counter, named after the handler and the call it makes next (`"tally.claim"`), and
the local variables it still needs. One action is one database call with the code
up to the next one; an early return or an exception makes the request `Idle`.
`call[r]` holds the locals of a `createCheckpoint` in progress. When `r` calls it,
`req[r]` is at `"call"` and remembers where to continue (`then`).

`SignIn` is built alike. `voter[v]` holds the columns signing in uses, `challenge`
and `session` the tokens that were ever signed, `texted` counts messages that left.
In `AuditExport`, `job` is the body of the promise that runs, `queue` the
ids of those behind it, `file` the lines of the exported file and `collector` what
was received. `Kill` and `Stop` forget what is in memory, `Restart` is
`onModuleInit`.

`AdminAuth` and `Anchoring` follow the same pattern: `req[r]` is a handler and the
locals it has read. In `VoterClient` and `AdminClient` the variables are the state of
the React components and of `lib/api.ts`; a request in flight is part of them (`sent`,
`own`, `stray`) and ends with or without effect on the server. In `KeyCeremony`,
`TamperCheck` one action is one thing a person or script does. Variables marked
*history* are not in the program; they remember what a property is about.

**Abstractions of `CheckpointChain` and `Election`.**

* A digest (checkpoint hash, Merkle root, roster and results hash) is the value it
  digests: injective and comparable, which is all the code uses. `createdAt` is left
  out of the hashed content. Two rows of results are told apart by id although the
  digest covers only candidate and votes; as rows are only added or have their
  candidate set to NULL, the two notions of equality agree.
* A sealed ballot is what it opens to: a candidate id, `Abstain`, or `Garbage`. A
  client can seal only ids of candidates that have existed (`Choices`).
* Ballot ids are random UUIDs: the new id is any unused element of an ordered set,
  so a ballot may land before or behind the cursor of a running scan.
* Candidate ids are never reused: an id is the generation of the list and a name.
* The columns of times and names, the audit log, the wording of answers and the parsing
  of CSV are left out. `importRoster` gets any non-empty set of voters;
  validation failures change nothing.
* `verifyChain` inside `integrityCheck` is one atomic read: its verdict is only
  returned, never acted on.
* `findUnique` of the election at the start of `createCheckpoint` reads nothing that
  can change and is part of `Begin`. The two counts of `openElection` are one step:
  the roster only grows and a list is never empty.
* A crash (`Crash`) is a process that stops, or a call that the database refuses, at
  any point of a handler. What was committed stays; nothing resumes.

**Abstractions of `SignIn`.**

* Whether a submitted code is the right one is a choice between `VerifyRight` and
  `VerifyWrong`; `otp` says that a code exists and has not expired. A code that
  was replaced while argon2 ran is such a case, too: the comparison uses the row as
  it was read.
* Time is three events. `CodeExpires` may happen at any moment. `LockExpires` waits
  for the code: a lock of 30 minutes outlasts a code of 3. Tokens that expire are
  tokens the client does not use, so they are kept in the sets.
* A row stands for its phone (the index on `phoneHash` makes that a bijection). A
  confirmed identity names a phone, says whether name and birth date are those of the
  row, and has a CI or none. All identities that match a row are one person
  (`IdentityAssumption`): the roster has name hashes, as every import writes them.
* At most one identity transaction is open at a time; `IdentityConfirm` removes
  it and confirms whatever `Identities` allows.
* The limit of requests per IP address and the audit entries are left out.

**Abstractions of `AuditExport`.**

* A row is its id, and a hash the sequence of ids it covers: two lines have the same
  hash only if everything before them is the same.
* An append succeeds, fails without a trace, or (`Tears`) leaves a beginning without
  a newline, with which the next append then shares its line. A post to the collector
  that fails may still have arrived.
* `AUDIT_SINKS` names each sink at most once (`SinksAssumption`): `onModuleInit` would
  write every line twice to one named twice.
* `AUDIT_INSTANCE_ID` is fixed, so a restart finds its file. With the generated
  id each start has a file of its own, which is the case `file = <<>>`.

**Abstractions of the other modules.**

* `BallotBox` promises no more than the code keeps: a vote that was admitted in time may
  enter late, the list may change late, a second count may publish rows that do
  not clash. Its refinement says that voter and ballot enter together, that stages
  follow each other, and that what is published is an exact count.
* `AdminAuth` follows one account; accounts share nothing. Time is the 30-second step of
  the code; `LockExpires`, `TokenExpires`, `Disable` may happen at any moment. A
  password is a model value that is right or wrong; the counter is not told apart from
  the limit up.
* `Anchoring` keeps of a row which version of it there is (how often the chain had been
  rebuilt when it was made); that later rows cover it by `prevHash` is
  `ChainLinear`. A transaction is in the pool, mined, final, reverted or dropped;
  final means with enough confirmations. Another chain id, no balance, no key are
  one failure before sending.
* `Shamir` computes in GF(256) by the tables that the source builds. Its loop multiplies by 3 255 times;
  `EXP` looks back over 16 of these turns at once where it can, which keeps the recursion within TLC's stack
  (`TableRuns` proves that each entry is 3 times the one before it, as in the loop). Secrets are one byte,
  coefficients come from small sets: the bytes of a secret never meet. `checksumOf` is the secret
  itself: the four bytes of the real one collide once in four billion.
* `BallotSeal` and `Merkle` are symbolic: a digest or a ciphertext is the term it
  is made from. What a primitive guarantees is assumed, how it is used is checked.
* In the clients the server is `BallotBox`: calls that do not change the box are one
  step with the answer. How a session is earned is left to `SignIn` and
  `AdminAuth`. `OnlyTab` and `Page` say what stays.

## 3. What is checked

| Run | Instance | Shows |
|---|---|---|
| `setup` | from creation; import in chunks of one row, candidate replacement, sealing, opening, manual checkpoints, crashes; 2 requests, 2 voters | `SealedBeforeOpen`; `ChainLinear`: no gap, fork or wrong hash whatever races; `TypeOK`; the refinement `ChainSpec` |
| `tally` | from a just-opened election; 2 voters, 2 commissioners, quorum 2, one ballot per query, crashes, a candidate replacement still in flight | `OneBallotPerVoter`, `ChainMonotone` (a row certifies all that earlier rows certify), `OpenedUnderDualControl`, `FinalCoversVoting`, `TimelyVotesCounted`, `ResultsFromOneCount`; the refinement `BoxSpec`: every step of a handler is one operation of `BallotBox` or none |
| `live` | from opening, 2 racing approvals, no crashes, fair handlers | `QuorumLeadsToTally` |
| `signin` | 2 rows of one person, 2 requests, limit of 1 message and 2 attempts, mode `off` or `required` | `SignInTypeOK`; `TextsBounded`: the send limit is overrun by the racing requests only; `ReceiptToVoter`; `OneRowPerPerson` |
| `export` | 4 rows, file and collector, all failures, kills and restarts | `FileChainIntact`: the exported file verifies unless an append was torn or the collector took a line the file lacks; `ExportedOnce`; `DrainedOnStop`: a regular stop leaves nothing queued before it behind |
| `adminauth` | 1 account, 2 requests, limit of 2 tries, 3 time steps, 2 secrets, 2 passwords | `TriesBounded` and `CodeSessionsBounded`: how often stale writes can undo the lock and bring a used code back; `BothFactorsBeforeChange` |
| `anchoring` | 2 requests, 3 targets of which one is misspelt, 2 observers, 2 rows, 2 transactions, 1 rebuilding | `RecordedIsOutside`, `CoversCaller`, `TargetsTried`; `VerifyNoFalseAlarm` and `RebuildExposed`: `anchor-verify` complains when and only when a row was recomputed |
| `tamper` | 2 voters and one smuggled in, 3 ballots, chains of 3 rows, up to 3 edits | `VerdictRight`: each single edit but one is noticed, and nothing else; `OnlyPinnedPasses`: what passes both checks is what was pinned |
| `algorithms` | 2 keys, 3 shares with thresholds 2 and 3, 2 splits; every edit of a sealed ballot; trees of up to 9 leaves | `KeyNeverGarbled`, `QuorumRestores`, `OpensAsSealed`, `RootIsTreeHash`, `ProofPinsLeaf` |
| `clients` | 2 tabs of 2 voters; or the admins' page with 2 sessions; others do what `BallotBox` allows | `DoneIsBoxed`, `OneReceipt`, `ExpiredIsTrue`, `NumbersTrue` |
| `late_vote`, `double_tally` | smallest instances that show it | the divergences of section 5 |

**Bounds.** `MaxSeq` bounds the chain length at which *manual* checkpoints still
begin (the ones of handlers always run); `MaxGenerations` bounds how often the list
is written; `Requests` bounds requests at the same time (a slot is reused). Two
requests suffice for the races here, each of which is a check of one handler made
stale by one other. `Chunk = 1` with two ballots gives scans of three queries, with
inserts before and behind the cursor. The proofs of section 4 have none of these
bounds, except that `MaxGenerations` is an arbitrary positive number. `tally` and `live` start in the state that a
preparation without incident leaves (roster sealed as row 1, opened as row 2);
`setup` reaches it from `Init`. In `signin` the limits are as small as
they can be with a first message and a first wrong code below the limit; what
matters is how many requests are past a check at once. Mode `optional` has the
actions of both other modes; it multiplies the states and is left to the proofs, which
hold for it. Four rows of `export` allow a line before and a line after a gap, with
one in progress and one queued. `TriesBounded` and `CodeSessionsBounded` are stated for any number n of requests at a time. With two the
bounds are MAX (MAX + 3) / 2 and 4 and `adminauth` reaches both; `AuthInv` was also checked with three, where they are 9
(for a limit of 2) and 10 and are reached too, in 2,885,136 states. In `adminauth` three steps are a
code in its window, in the grace of the next step, and past it; two secrets are one
enrolment racing another. In `anchoring` two transactions allow a retry after a lost
answer, and `"file"` in lower case is an unknown target. Trees of up to nine leaves have odd
levels at the bottom (3), above an even one (6) and in a row (5, 9). The two pages of `clients` do not talk to each other but through the
box, and the other page is part of what "others" may do, so each is explored
alone: the voters' page in the stages up to closing with a fixed list and roster, the
admins' page with one voter. Deadlock is not checked: an election
whose clients stop calling, or whose bounded sets are used up, rests, and so do
voters and the audit log.

**Fairness.** `FairSpec` is weak fairness of `Progress(r)` per request: the event
loop resumes each handler whose call was answered and the database answers. Nothing
forces arrivals, time or crashes. `live` runs without crashes: a request that dies
between its approval and the publication cannot be repeated by its commissioner.

## 4. What is proved

Every invariant and every action property of the runs of section 3 is a theorem, for every value of the constants that the named `ASSUME`s admit: finite rosters and
sets of ids, requests, tabs and observers, positive chunk size, quorum and limits. The others say what
the code or its configuration gives: sinks are named once each (`SinksAssumption`), some target is configured
(`TargetsAssumption`), an abstention is no candidate (`ChoiceAssumption`, `NamesAssumption`), a
damaged id is no id (`UuidsAssumption`), keys have different texts (`KeysAssumption`), made of bytes (`BytesAssumption`), the script is
the only caller of `createCheckpoint` in its database (`ScriptAssumption`). `TableAssumption` is no
assumption on a constant but what `shamir.ts` makes sure of when it is loaded, that its tables hold each byte but 0 once;
TLC evaluates it from the definitions of the tables.

Each argument is an inductive invariant, kept beside the properties in the module it is about. Before it was proved
it was checked by TLC on the instance of the run that checks the properties:

| Invariant | Module | Run whose instance it was checked on | Distinct states |
|---|---|---|---|
| `OutcomeInv` | `Election` | `setup`, `tally` | 691,284 and 2,190,232 |
| `AnchoringInv` | `Anchoring` | `anchoring` | 5,751,353 |
| `AuthInv` | `AdminAuth` | `adminauth` | 859,672 |
| `ClientsInv` | `Clients` | `clients` | 1,686,705 |
| `CeremonyInv` | `KeyCeremony` | `algorithms` | 1,379,701 |
| `QuorumInv` | `KeyCeremony` | `algorithms`, with one set of coefficients and trees of one leaf | 93,367 |
| `TamperInv` | `TamperCheck` | `tamper` | 1,051,860 |

**The chain** (`CheckpointChain_proofs`). `ChainTypeCorrect`, `ChainStaysLinear`, `ChainStaysMonotone`.
`ChainLinear` is not inductive: it needs that the row a caller means to extend exists with the hash it
read (`PrevKnown`). `ChainMonotone` needs that a scan has collected, up to
its cursor, everything the row it extends certifies (`CollectedPrev`), which holds
as that row was read before the scan and ballots are never deleted
(`RowsInBox`, and `DataStep`). `ChainInv` is the conjunction; one lemma per action
shows it preserved, and `LocalStep` reduces a step that changes only locals to the
soundness of the new ones.

**The election** (`Election_proofs`).

* `ElectionImplementsChain`: each step of `Election` is a step of `CheckpointChain`
  or leaves it unchanged, given the types of the handlers' locals. Hence
  `ElectionChainSound`.
* `ElectionTypeCorrect`, `OnePersonOneVote`, `DualControl`. Their invariant
  `ElectionInv` adds to the types that a handler that counts holds only ballots of
  the box, that it is in the tally only after closing, and past the
  quorum check only with the quorum (`ReqSound`): approvals are never withdrawn.
* `OpenedOnlySealed`, `ClosingCertified`, `NoTimelyVoteLost`, `OneCountPublished`, by `OutcomeInv`. What a handler
  found out stays true while it does not run, as nothing takes it back: the roster and
  the approvals only grow, seals stay, stages only advance (`Evolves`, `HandlersStep`). So openElection may
  still update on the counts it read (`OpenSound`); a scan for a FINAL or RESULTS row has collected, up to its
  cursor, what was in the box at the closing (`CollectedClosing`), since such a call begins after it; and
  a count holds those ballots too (`CountSound`). A count that read a list which was replaced
  since is sound for another reason: then no vote of the closing is for the list in place (`Unchosen`), as
  candidate ids are never reused. `OneCountPublished` is the unique index on candidate
  and election: the first count published a row for each listed candidate with a vote.
* `ElectionImplementsBox`: `Spec => BoxSpec`. One lemma per handler step that writes a table
  names the operation of `BallotBox` it is (`CastIsVote`, `ImportIsRegister`, `OpenIsOpen`, ...); all
  other steps leave the tables of the box alone (`BoxStutter`). What is published are exact counts as
  the handler has opened all of the closing and only ballots of the box.

**Signing in** (`SignIn_proofs`). `SignInTypeCorrect`, `TextsStayBounded`, `ReceiptsStayWithVoter`,
`PersonsStayOneRow`, by `SignInInv`. `TextsBounded` counts: messages sent and about
to be sent are at most `otpSentCount`, and `otpSentCount` with the requests about to
raise it at most the limit plus the other requests (`SendsCounted`). A request
passes the check only below the limit, with at most all requests beside it.
`OneRowPerPerson` follows as a session with a CI was signed after that CI was
recorded on its row (`SessionsRecorded`), is never replaced there by another
(`CiOfOwner`: all identities that match a row share the CI), and is on
no other row (`CiUnique`, the index).

**The admin login** (`AdminAuth_proofs`). `ChangeNeedsBothFactors`, `TriesAreBounded` and `CodeSessionsAreBounded`, for
any number of requests at a time and every limit. Neither bound can be
proved from the counter or the stored time step alone, which go up and down: a request takes them back to where they were
when it read them, and the others start again from there. `TriesSound` and `CodesSound` are potentials. Every request is
some writes *away* from where nothing is left: a refusal under way is as far as the counter it read, all others as far
as the counter in the row (`TriesAway`); for a TOTP code the time steps take the counter's place, and three is the furthest
(`CodesAway`). `Left[d][i]` is what a request d away adds if it is the i-th to write: its own refusal or session, and what i
requests can do from one write further on. What has happened and the sum of these (`Together`) stay within the bound *for
every order* in which the requests may write. A write brings its request, and all that are not under way, one nearer;
for the order after it there is an order before it, with the writer moved to the last place of those whose distance
has grown, where its term outweighs theirs (`TogetherStep`, from `SumGivesWay`). `TriesBound` is
the number of ways to choose n of n + MAX things, less one; that `SessionsBound` is the closed form of its sum is `SessionsBoundIs`.

**The exported audit log** (`AuditExport_proofs`). `ExportTypeCorrect`, `ChainNoFalseAlarm`, `RowsExportedOnce`, `StopDrains`, by
`ExportInv`. An id is in one of: calls of `log` still running, the queue, the running
job, the file (`IdsOnce`), hence exported once. The line of the running job extends
what the service remembers (`JobLinked`); as long as the file lacks nothing but
perhaps that line, it is one chain and the service goes on from its end, or, once the
line is written, from there after the job (`GoesOn`): `FileChainIntact` alone says
nothing of the memory the next line is made from. What a torn append or a line that
only the collector has leads to is outside the premise. `StopDrains` needs that
everything outstanding at SIGTERM is in front of an awaited job (`AwaitsAll`).

**Anchoring** (`Anchoring_proofs`). `AnchorsAreOutside`, `NoFalseAlarm`, `RebuildIsExposed`, `CallerIsCovered`,
`EveryTargetTried`, by `AnchoringInv`. What will be recorded must already be outside when the provider
answers (`OnItsWay`, `Backed`), and what is outside stays there: files and observers forget nothing, a
final transaction is final. `EveryTargetTried` needs that each target is still in the rest of the loop or
has its entry (`NoneSkipped`). No row has a hash younger than the number of rebuildings, so without one no payload can differ
(`NoFalseAlarm`).

**The pages** (`Clients_proofs`). `ThanksAreBoxed`, `OneReceiptEach`, `BannerIsTrue`, `PageTellsTheBox`, by `ClientsInv`, that is, `VoterInv` and
`AdminInv` over what `BallotBox` keeps (`BoxSound`). `DoneIsBoxed` counts only tabs that show the final screen; the
invariant counts those whose ballot is in the box but unanswered as well (`Claims`). `OneReceipt` needs that a
voter whose ballot is in waits for the answer in one tab only and has no receipt yet (`ReceiptsSound`). The numbers of
an overview were each read after `before` and lie between it and what is in the box (`OverviewSound`): two
that differ prove that votes came in between.

**The scripts and the tree** (`Scripts_proofs`).

* `NoWrongKey`: an accepted paper carries the checksum of a key that was split (`SharesSound`), and what is restored is printed only if
  it has that checksum. `BallotsOpenAsSealed` follows from the equations of the symbolic primitives alone, for any keys and ids.
* `QuorumAlwaysRestores`, for any number of keys of any length, any threshold and any number of papers, by `QuorumInv`: the
  papers of a split are points of polynomials through the bytes of one key (`SplitsDealt`), no number is accepted
  twice (`SharesApart`), and what a session ended with is `Restored` of what it accepted. That interpolation gives the byte back is
  `Interpolates`. It rests on the laws of the field: tripling keeps sums and only 0 goes to 0, so the table runs
  through all its bytes in one circle (`TableRuns`, `TableWraps`), multiplying by a power is tripling that many times, and so
  multiplication keeps sums (`MulAdd`). The loops of `interpolate` are sums and products over places that may be skipped
  (`SumDrop`, `ProductBoth`, ...). The divided difference of a polynomial over more points than it has coefficients
  is 0 (`DiffHorner`, turn by turn of Horner's rule: a factor that is 0 at a point takes the point away, `DiffDrop`). Taken over the
  points of the papers and 0, and multiplied by the product of the points, it says that the byte is the sum `interpolate` computes.
* `EditsAreNoticed`, `PinnedIsCertified`, by `TamperInv`. Before any edit, and again after each undoing, the chain is `Honest`: the rows
  `createCheckpoint` would make over the present box, one by one (`MakingSound` follows a call through all its awaits). No edit rewrites a hash (`HashesStay`), and a hash determines the
  contents of all rows up to it (`HashContinues`, `HashesAgree`), so a chain that links has the rows it had, and they
  name the box, the roster and the results (`PassedIsHonest`). A pin that no longer fits when the results are published must not fit later by accident:
  the last conjunct of `AtRest`.
* `RootAlwaysTreeHash` and `ProofAlwaysPins`, for boxes of any size, from `BoxInv`: a box is in the order of its ids. The
  loops and the reference tree are recursive functions. That such a function has the values its definition
  says is proved first, turn by turn (`LevelsRun`, `SegmentsRun`, ...). Induction is by the least counterexample:
  the set of numbers for which the claim fails has no least element, as it loses 0 and is closed under
  predecessors (`NoneFails`). The argument for the root: after n turns an entry stands for the segment of 2^n leaves that begins at
  its place, the last entry for what is left, and RFC 6962 splits a segment exactly where its two halves
  meet (`LevelIsSegments`, `PairIsSegment`). For proofs: the loops of `merkleProof` and `verifyProof` are at
  the same place on the same level (`TracksAlways`), and the hash carried is the entry above the claim on one level
  if and only if it is on the next and the sibling was the right one (`CarryStep`). That gives
  `OnlyItsPathVerifies`, for claims and paths of any shape; the proofs of two leaves then part at their first entry, also
  where one of them is the last of an odd number and starts with a node (`ProofsPart`, `ClimbStep`).
* `RootsTellBoxesApart`: equal roots of boxes of any sizes mean equal ballots, one by one. A node tells its two
  halves and is no leaf (`SegmentsTell`), so the shape of the tree shows in its root. As everywhere in
  `Merkle`, a digest is the term it is made from: that SHA-256 does not collide is assumed.

Not proved: `QuorumLeadsToTally`, which needs fairness and `ENABLED`, is
model-checked, and so is what section 5 refutes. `ExportTypeOK` and `AuthTypeOK` are proved (`AuthTypeOK` as part of `AuthInv`) and in no run.

`(SUBSET S) \ T` and `(UNION S) \ T` are written with their parentheses where the provers see them: tlapm gives the prefix operators
a lower precedence than SANY does.

## 5. Where the code differs from what the repository says

Two runs have a counterexample that is a schedule of the handlers as they are
written; `PROJECT.json` quotes the statement.

| Run | Schedule |
|---|---|
| `late_vote` | `castBallot` reads OPEN; `closeElection` commits; the vote commits |
| `double_tally` | two approvals both pass the claim, which does not change what it tests; both count (the unique index then lets one publish, see `ResultsFromOneCount`, unless only abstentions were cast) |

More statements are kept as definitions, at the end of the modules. No run is devoted to
them; TLC refutes each when it is added to the run named here (the smaller instances
of `late_vote` do for those of `Election`, with the operations named in `Ops`).

* `CandidatesFixedOnceOpen` (`setup`), "투표가 시작된 뒤 후보가 바뀌면 그 선거는 신뢰할 수 없다"
  (`admin.service.ts:184`): `replaceCandidates` passes its check, the election opens, the
  list is replaced.
* `RosterFrozenOnceSealed` (`setup`), "봉인 이후에는 명부를 바꿀 수 없다"
  (`admin.service.ts:367`): `importRoster` passes its checks, the roster is sealed,
  the remaining chunks are inserted.
* `DriftDetected` (`tally`, with `"checkpoint"` in `Ops`), "개표 후 표를 넣거나 뺐다면 여기서 걸린다"
  (`integrity.service.ts:124`): a late vote commits after RESULTS; a manual BALLOTS
  checkpoint becomes the head, and `verifyChain` no longer compares the box.
* `ClosedGetsFinal` (under `FairSpec`, with `"checkpoint"` in `Ops`), "OPEN --> CLOSED: 마감
  (FINAL 체크포인트)" (`docs/02-flow-voting.md:195`): CLOSED is committed, the FINAL row
  loses its `seq` to a manual checkpoint, a second close is refused.
* `ApprovalNeedsIntactChain` (`tally`), "개표 전 무결성이 깨져 있으면 승인 자체를 받지 않는다"
  (`admin.service.ts:495`): a late vote makes `verifyChain` fail; `approveTally` looks
  at the two counts only, and accepts.
* `NoDanglingLine` (`export`), "전부 실패했는데 번호를 올리면 나중에 성공한 줄들이 존재하지 않는
  앞줄을 가리키게 된다" (`common/audit-sink.ts:248`): the collector takes a line, the file refuses
  it; the chain advances, and the next line of the file refers to the one it lacks.
* `CodeUsedOnce` (`signin`), "성공 즉시 OTP 를 폐기한다. 재사용 불가" (`auth.service.ts:214`):
  two requests with the right code compare before either discards it. Both
  sessions are the same voter's, who can vote once.
* `SecretFixedOnceConfirmed` (`adminauth`), the check of `admin-auth.service.ts:139`: an enrolment
  reads the unconfirmed row, another request confirms the secret of the phone, the
  enrolment writes a new one. The account can then not sign in any more.
* `DeletionNoticed` (`tamper`): the deletion of the last checkpoint leaves a shorter
  chain that is as good as any; the pin notices it.

Seen while reading and left as it is in the models: a refused login or code writes back
the lock it had read, so it takes away one that another request has set
(`Refused`; `TriesBounded` says how far this goes: with n requests at a time, further the more there are). One TOTP code may open several sessions
when requests overlap, although `admin-auth.service.ts:180` says it is used once
(`CodeSessionsBounded`). After a refused identity transaction the voters' page stays at a
step that the server no longer knows (`IdentityRefused`); a reload helps. If the list is
replaced late, published rows lose their candidate (`ON DELETE SET NULL`), and `getResults`
takes such a row for the abstentions.

## 6. Not modelled, and the plan

Not modelled, as nothing in it changes state or because it is pure I/O: SMS delivery,
layout and forms of the clients, the primitives under `BallotSeal`, the parsing of CSV
and of configuration, limits per IP address, the grant matrix of `db-privileges`, the
comparison of `audit-check`, several instances of the exporter with files of their own, and
the test and load scripts, which drive the components above one call after the other.

Planned:

1. `audit-check`, and several instances of the exporter with files of their own.

## 7. Running it

`tlc -config MCTally.cfg MCElection.tla` for a run, `tlapm Election_proofs.tla` for
the proofs (one to two minutes for each `_proofs` module, about twelve for `Scripts_proofs`). Beside each small operator that a bug would plausibly get wrong stands
its wrong variant (`MayVoteAgain`, `LastBatchFull`, ...), named in `PROJECT.json`
under `mutants`: with it in place, the property named there fails.
