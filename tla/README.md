# A specification of memoar

memoar captures the transcripts of AI coding tools on a developer's machine,
ships them to an archive, parses them into sessions and lets people search,
share, distil and move them.  This directory holds TLA+ modules translated from
the code under `src/`, TLC configurations that check them on small instances,
and TLAPS proofs of the properties that matter most for every instance.

Paths below are relative to `src/`; `daemon/` stands for
`agent/crates/memoar-daemon/src/`, `cli/` for `agent/crates/memoar-cli/src/`,
`server/` for `server/src/` and `web/` for `web/src/`.  `PROJECT.json` maps every
definition to the lines it models.

1. [Inventory](#inventory)
2. [How the parts interact](#how-the-parts-interact)
3. [The modules](#the-modules)
4. [The capture path](#the-capture-path)
5. [Sharing one session](#sharing-one-session)
6. [Team workspaces](#team-workspaces)
7. [Transcripts and the session store](#transcripts-and-the-session-store)
8. [The two stores](#the-two-stores)
9. [Accounts, machines, commands](#accounts-machines-commands)
10. [The agent's side](#the-agents-side)
11. [What is owed](#what-is-owed)
12. [The web application](#the-web-application)
13. [The runs](#the-runs)
14. [The proofs](#the-proofs)
15. [Where the code and its words part](#where-the-code-and-its-words-part)
16. [Other things the models showed](#other-things-the-models-showed)
17. [What is not modelled](#what-is-not-modelled)
18. [The plan](#the-plan)

## Inventory

For each component: the state it keeps, its operations, what is hard about it,
and what makes it correct.

**Agent offline queue** (`daemon/queue.rs`, `attempts.rs`, `enqueue.rs`).
A SQLite row per (sha256, source path) with a status, an attempt count and a
next-attempt time, and an immutable blob per digest.  Operations: enqueue,
pending, mark_synced, mark_retry, abandoned.  Hard: each statement commits
alone, two processes use one file (`sync --watch` and the desktop application),
and the process may die between the blob and the row.  Correct when nothing
captured is dropped, nothing is offered for ever, and an acknowledgement is
taken back only by a process that did not know of it.

**Agent sync engine** (`daemon/sync.rs`, `manifest.rs`, `transport.rs`).
No state but the locals of a pass: batch, missing digests, absent digests.
Hard: every request or answer may be lost, and a request whose answer is lost
may have done its work.  Correct when a row is marked synced only after the
server committed to it, and every row is in the end synced or given up on.

**Server ingest and raw archive** (`server/ingest/ingest.service.ts`,
`store/postgres/artifacts.ts`, `store/postgres/settings.ts`).  A `raw_artifacts`
row and an object per digest, and a parse job per digest.  Operations: delta,
putRaw, manifest, and the retention sweep, which deletes rows.  Hard: row, object
and job live in three stores that share no transaction, and the sweep runs beside
all of them.

**Parse pipeline and workers** (`server/ingest/pipeline.ts`, `queues.ts`,
`pipeline-jobs.ts`, `worker.ts`, `reprocess.ts`).  The verdict on the row, the
sessions of the transcript.  Hard: retries, dying and silent workers, a verdict and
a job's end in two stores, parses of two captures of one transcript ending in either
order, a reprocess beside the queue.  Correct when every queued artifact gets a
verdict and a failed one is never left looking like one nobody has tried.

**Parsers** (`libs/parsers/src` beside `server/src`).  No state; fifteen layouts, each with its
own idea of a record, a turn and an id.  Hard: a file that grows, that is torn
in the middle of a write, that holds several conversations.  Correct when each
piece of content is in one session once, under an id that stays.

**Session store** (`server/store/postgres/sessions.ts`,
`store/turn-identity.ts`).  Sessions, turns, edges, blocks, and the identity
table that gives a native session its id for ever.  Hard: saves of sessions that
share native turn ids, under a lock per session.

**Store contract** (`server/store/interfaces.ts`, `store/postgres`,
`store/memory`).  Two implementations of one interface; most tests run on the
second.  Correct when both answer the same calls alike.

**Redaction reviews and share links** (`server/sharing/sharing.service.ts`,
`store/postgres/sharing.ts`, `store/review-digest.ts`).  Reviews keyed by the
digest of the content, grants in the owner's tenant, tokens in a table every
tenant can read.  Hard: the transcript keeps growing, the two rows of a link are
two transactions, and deleting a session takes only one of them.

**Direct transfers** (same files).  The sender's row, the recipient's offer, the
copy.  Hard: two answers race, the copy can fail after the claim, and the two
tenants' rows are two transactions.

**Teams and team workspaces** (`server/teams.ts`, `team-workspace.ts`,
`store/postgres/team-optins.ts`, `ingest/team-stamp.ts`).  Memberships, standing
consents, and the visibility of sessions.  Hard: a consent is read by a parse
long before its session is saved, and outlives the membership.

**Accounts, browser sessions, API keys, tokens** (`server/auth/`).  A cutoff per
account and the liveness of a token.  Hard: a sign-in in flight while the
password changes; an `iat` in seconds against a cutoff in milliseconds.

**Machines and the command channel** (`server/machines.ts`,
`machine-revocation.ts`, `store/postgres/machines.ts`, `cli/listen.rs`).
Machine records, their tokens, commands that are pending, delivered, completed or
failed; a stream per connection.  Hard: every call reads a record in one
transaction and saves it in another; replay after a lost connection, overlapping
polls, a machine retired while its stream is open.

**Machine credentials** (`daemon/transport.rs`, `cli/machine.rs`).  A token per
transport, replaced before it dies.  Hard: two clocks and a request that lasts.

**Materializer** (`agent/crates/memoar-materializer`).  Files written by a staged
commit.  Hard: dying between two links; a replay that finds half of its work.

**Agent watcher and capture** (`daemon/watcher.rs`, `capture.rs`,
`cli/watch.rs`).  A debounce window per path.  Hard: a change during the window,
a capture that fails after its path was marked emitted.

**Npm launcher** (`packages/npx`).  A cached binary, its checksum and a lock
file.  Hard: several launchers over one cache, each call on the disk a step.

**Memory documents** (`server/memory/`, `daemon/memory.rs`).  Revisions of one
document pushed by machines and reviewed on the server.  Hard: a capture reads
the row twice and writes only what differs from the second reading.

**Distillation and its budget** (`server/distillation.service.ts`,
`store/postgres/settings.ts`).  A monthly budget reserved and settled by
concurrent requests while the settings are edited and the month turns.

**Conversion jobs** (`server/convert.ts`, `convert/conversion.service.ts`).  A job
per conversion, tried three times, handed on when its worker falls silent.

**Rate limiting** (`server/rate-limit.ts`).  Two budgets over INCR and EXPIRE,
two commands a process can die between.

**Error groups** (`server/errors/`).  How often each kind of failure happened,
counted in memory, written to a file every half minute and read back at a start.
Hard: the worker fails before it has read the file, a death falls into a write, what
fails after the last write.

**Web application** (`web/App.tsx`, `app/`, `lib/`, `views/`, `components/`).
Where the reader is, who is signed in, what is shown of the archive, and a
handful of screens with requests of their own.  Hard: answers arrive in any
order, late, or never.

**The rest.**  Search (ranked lists fused), metrics, MCP tools, the generated canonical model and contracts, migrations and start-up
checks, connectors, the command line's other commands and the desktop window.

## How the parts interact

The agent's *capture loop* enqueues files; the *sync engine* reads the queue and
calls the server's *ingest* over HTTP with a *machine token*; ingest writes *raw
archive* and object store and adds a job to Redis; a *worker* takes the job, reads
the object, *parses* it and writes the *session store*, asking *team workspaces*
which team may read the result.  *Sharing* reads the session store and the reviews
whenever a token is presented or an offer accepted.  *Conversions* and injections
put commands on the *command channel*, which the agent's listener hands to the
*materializer*.  The *web application* asks all of them and holds what they
answered.  Nothing holds a transaction across two of these, and every interaction
can stop halfway.

## The modules

| Module | Models | Composes |
|---|---|---|
| `Artifacts` | what a captured file is: a digest at a path | |
| `OfflineQueue` | the SQLite queue and its blobs, one action per statement | `Artifacts` |
| `RawArchive` | rows, objects and parse jobs of one tenant | `Artifacts` |
| `CaptureSync` | passes of `SyncEngine::sync`, the disk; its properties, inductive invariant and refinement mapping | `OfflineQueue`, `RawArchive`, `CapturePromise` |
| `CapturePromise` | the abstract specification of the capture path | `Artifacts` |
| `ReviewedSession` | one session, its re-captures and its reviews | |
| `ShareLinks` | links over it, with their properties | `ReviewedSession` |
| `Transfers` | transfers of it, with their properties and refinement mapping | `ReviewedSession`, `TransferPromise` |
| `TransferPromise` | the abstract specification of a transfer | |
| `TeamWorkspace` | one account's teams, consents, parses | |
| `Parsers` | what each format's parser makes of a file | |
| `Transcripts` | a file as it grows, its captures, parses and saves | `Parsers` |
| `SessionStore` | concurrent parses saving sessions, statement by statement | |
| `Rows` | a table as a set of rows | |
| `PostgresStore`, `MemoryStore` | each method of the two stores as an operator | `Rows` |
| `StoreContract` | both stores under the same calls | `PostgresStore`, `MemoryStore` |
| `Accounts` | one address: sign-ins, passwords, sessions, keys | |
| `Machines` | machine records and machine tokens | |
| `CommandChannel` | one machine's commands, streams and listeners; their refinement mapping | `CommandPromise` |
| `CommandPromise` | the abstract specification of the bundles pushed to a machine | |
| `Materializer` | runs that write bundles over one set of files | |
| `MemoryDocuments` | one instruction file, its document, reviews, a conversion | |
| `MachineToken` | the credential an agent uploads with, on two clocks | |
| `Launcher` | several launchers over one cache | |
| `CaptureLoop` | the watch and the desktop's timer over the files | |
| `Distillation` | runs over one budget | |
| `ConversionJobs` | one conversion, its workers and its reader | |
| `RateLimits` | the two budgets of one caller | |
| `ErrorGroups` | what one process has counted, and its file | |
| `Console` | routes, sign-in, dashboard and session screen | |
| `Pages` | nine screens with requests of their own | |
| `*Proofs` | theorems; `SharingProofs` is about `ShareLinks` and `TeamWorkspace`, `AgentProofs` about `MachineToken`, `MemoryDocuments`, `Launcher`, `Materializer` and `CaptureLoop`, `ArchiveProofs` about `CommandChannel`, `Machines`, `Accounts`, `ConversionJobs`, `RateLimits`, `Distillation`, `ErrorGroups` and `SessionStore` | the modules they name |
| `MCCaptureSync`, `MCTransfers` | constants and symmetry of one system's instances | `CaptureSync`, `Transfers` |
| `MCSharing`, `MCAreas`, `MCClients`, `MCLive` | sums of independent systems, see [The runs](#the-runs) | the modules they name |

A definition whose comment begins with "Mutant:" is a variant of the definition
below it with a bug put in.  No specification uses it; it exists to see that a
property notices.

Many properties have the form "P, unless this happened", where a history variable
(`overtaken`, `swept`, `cut`, `stolen`, `undone`, ...) records that it did.  The
exception is part of the claim: the code does not keep P without it, and the
mutants show that P is kept for every reason but the named one.

## The capture path

`OfflineQueue` keeps the `artifacts` table as functions of (digest, path):
`status`, `attempts` and `due` (the comparison of `next_attempt_at` with the
clock; `BackoffElapses` is the wait going by) and the blob directory as `blobs`.
`pending_at` is `PendingBatch`: any batch the ORDER BY allows.  `mark_retry` is a
SELECT (in `Lacks` and `Refuse`) and an UPDATE (`Charge`, `Recharge`), because
nothing holds the database between them.

`RawArchive` keeps `raw_artifacts.status` as `record`, the bucket as `objects`,
the requests that have committed a row and not yet put its bytes as `putting`,
the rows with sessions (`artifact_sessions`) as `joined`, and the BullMQ job of a
digest as `job` with its failed `tries` and its `stalls`.  A parse writes its verdict
by digest in one step, and the queue hears how the try ended in another
(`ReportJob`).  A worker that falls silent or dies between the two, or before
either, loses the job: the queue hands it on `MaxStalls` times and then gives it up
without anybody writing the row, and the worker may go on as a `stray` parse.
`reprocess.ts` is a stray parse from the start.  `ApplyRetention` is the hourly
sweep under a policy of days: it deletes rows all of whose sessions it took, and
leaves the bytes and the job's key.  BullMQ and S3 are external: an add under a key
that exists is ignored, a failed try goes back to waiting until its attempts are
spent, a finished job's key goes later.

`CaptureSync` runs a `Pass` per process.  Its program counter follows the
source: `delta`, `offer` (the upload loop), `uploading`, `charge`, `settle` (the
mark_synced loop), `refuse` and `recharge` (`mark_retry_all`).  What is in one
step and what is not:

- `UploadRefused` is any upload that changed nothing on the server: refused, lost
  on the way, or the loser of two inserts of one digest, which gets an error and
  leaves no trace.
- `UploadFails` is an upload whose row may be there although the agent was told
  otherwise.
- `ManifestFails` has the 422 of a digest without a row, which happens when a sweep
  falls between delta and manifest, and the failure after part of the jobs were
  queued.  The manifest's look-up and its loop are one step when it succeeds: a
  sweep in between leaves what a sweep right after them leaves, a job without a row.
- The receipt's digest is checked by the agent and cannot differ with this
  server, so the branch has no action.
- `Crash` also stands for an early return on a SQLite error: both end the pass
  with its locals gone.

**Properties.**  What is synced is registered, or retention took its row, which it
does only of what was read into sessions (`SyncedIsRegistered`, `SweptWasRead`); it is
queued and (where puts do not fail) stored; a lone process never reopens a row;
attempts stay below `MaxAttempts + 2 * |Pass|` for one process or two; a job the
queue has finished with left its verdict on the row, unless the failure was never
said (`unsaid`: recordFailure failed too, or the job stalled too often) or retention
took the row; the path implements `CapturePromise`, in which what is held is taken
back by retention alone.  Under fairness: every captured row is synced or abandoned,
rows the server never takes do not starve the others, a synced row gets a verdict,
and with nothing lost it is parsed.

A row that is swept and offered again is the exception to the verdict.  Its bytes are
put and its manifest is accepted, but a job's key stays in Redis for a while after the
job has ended, so `enqueue` adds nothing (`server/ingest/queues.ts:46-61`): the
receipt counts the artifact as accepted (`server/ingest/ingest.service.ts:106-115`)
and nobody reads it before the next capture of the file.

**Fairness.**  `WF(PassStep(p))`: the watch loop (`cli/watch.rs:31-85`) runs pass
after pass and a pass has no step that waits for ever, since the transport has
timeouts.  `WF` of the backoff: time goes by.  `WF` of the put and of the parse
steps per digest: a request that runs goes on, and workers drain the queue.  No
fairness is put on a capture, a crash, a fault or the removal of a job.

## Sharing one session

`ReviewedSession` is the session both kinds of sharing read.  Its `content` is
the number of the capture it holds and stands for its digest.  `Capture` replaces
it with a newer one, `Reprocess` with an older one (parses that end in the other
order, or `reprocess.ts`), `DeleteRow` removes it and its reviews.  A review in
flight has read one content and stores the review of that, whatever is there by
then.  Abstracted: masks and patterns, and that getSession's three statements
may see two commits.

`Transfers` has the sender's `asked` and `sent`, the shared `offer`, the
recipient's `copies`, and for each request in flight where it is.  Claim and
decline are the compare-and-swap on a pending offer; read, review check and save
follow, each able to throw into the catch block (`Undo`).  A save that throws was
rolled back or, with `LostCommits`, was committed and its answer lost.  The catch
block's own UPDATE and the one that tells the sender can throw as well, with the
process alive: `BreaksOff` is a request that ends at any statement, by a death or by
an error nothing catches, before or after the statement took effect, and `cut` keeps
the transfers it left behind once it had moved the offer.  `AskBreaksOff` is the same
of the sender's two writes.  One
transfer is enough for a run: two transfers share nothing but the session they
read.

`ShareLinks` has the two rows of a link, `grant` and `token`, the requests
minting and revoking it, and bearers that present it, read the session and are
served.  `RevokeUnminted` says whether a link may be revoked before its
createLink has answered.  The id of the grant is on the owner's list from the
first write on, so the code allows it; the claims about revocation are stated
for owners who revoke links they have received.

**Properties.**  Only content a completed review was stored for crosses the
tenant boundary, by link or transfer, whatever was captured after the link was
minted or the offer made.  A transfer makes one copy at most and none after a
refusal; both sides agree in the end (`AnswersAreTrue`), and a claim ends in a copy or
in an offer that can be answered again, but for answers that broke off, after which
the sender's list is silent and never says the opposite.  A revocation that
has answered is final: the token never comes back, and no request that had not
presented it before is served.  Short of a death and of a deletion the owner's
list tells the truth about what can be presented (`UndisturbedListIsTrue`).

**Fairness** (`transfer_commit_lost` only): a request that runs goes on running.
Nobody has to send one.

## Team workspaces

`TeamWorkspace` is one account: its memberships, its standing consents
(`optins`, each with a team, a machine or any machine, and the time of its
creation), its sessions, workers that parse them and requests in flight.  `Stamp`
is the moment a parse asks for its team, `Save` the moment it writes it; between
the two, consents and memberships change.  A parser may have set a visibility itself
(`job.said`): a canonical bundle comes back as it was uploaded, and the stamp leaves
what is not private alone (`server/ingest/team-stamp.ts:32`,
`libs/parsers/src/canonical-bundle.ts:37`).  `SelectShared` and `EraseShared` are
the two statements of revokeTeamVisibility.  `SetVisibility` checks, and
`WriteVisibility` writes the column.

`createTeamOptin`'s look-up and insert are one action: a unique constraint over
(team, tenant, machine) that treats nulls as equal makes them so.  A declined
invitation and a removed membership are the same row going.

Four history variables say what the properties are about: `consented` (a
session was put before a team while its owner was in it), `withdrawn` (consents
withdrawn with the past, and not given again), `overtaken` (workers that
resolved their team before it was withdrawn) and `slipped` (sessions whose last save
fell between the check and the write of a change by hand).

**Properties.**  `WidenedWasReviewed`: a session before a team is clear of findings or
reviewed as it is, whether ingest or a person put it there; the exceptions are a
bundle that named the team itself and a save that slipped under a change by hand.
`ConsentHolds`: what a team may read was put before it by somebody in it at that
moment, a bundle's sessions aside, so leaving and rejoining reveals nothing; and an
account that sends one request at a time consents to one team and, after a
revokePast, has its past private again but for a parse that had resolved its team
already, a change by hand and a bundle.  With two requests in flight the second
half is not so: two enrolments both pass the test that there is no other team,
which no constraint repeats, and a request that enrols and withdraws while another
revocation stands between its SELECT and its UPDATE leaves what was saved in
between.

## Transcripts and the session store

`Parsers` is what the parsers make of a file in each of fifteen layouts: which records
become turns, which blocks they get, and the id of each.  Text is left out; a record
says who speaks, how many pieces of content it has, which of them has a uuid of its
own, and whether it can be read.  Copilot Chat has two layouts, a document and the log
VS Code writes now, of which only writes of the whole list of requests are read.  A
conversation of Cursor is an index and the bubbles it names: a bubble that cannot be
read is left out, an index that cannot makes the whole database unknown.
`Transcripts` lets a tool write records, tear one, mend it and delete a
conversation, and captures, parses and saves the file in between.

**Properties.**  `TranscriptsAreRead`: no two turns or blocks of a session share an
id, each readable piece of content is in the session of its conversation once, and
a file is refused for a reason.  `TranscriptsAreKept`: as a file grows, sessions
keep their identity, content keeps its turn and what a turn answers is there, each
with the formats for which the code does not keep it named in the property.

`SessionStore` is the other half: parses that save at once, each statement of the
transaction an action.  `Identify` is resolveSessionIdentity, `Lock` the advisory
lock, `Lookup` the read of the ids other sessions hold, `SaveTurn` an upsert that
waits for another's rows and may be failed by the blocks' unique key, `Deadlock`
the cycle Postgres breaks, `Commit`, then the scanner's masks and the embedding in
transactions of their own.  Sessions are deleted and masked by hand in between,
and the in-memory store runs beside it on the commits.

**Properties.**  `SessionsAreWhole`: a conversation is one session whatever
versions captured it, and no session loses a turn with content to the save of
another that shares its id.  `MarksHold`: a session captured again keeps the ids of
the turns it still has as long as no session let go of an id; no parse takes a mask
a person placed; where no two parses of a session overlapped, the scanner's rows and
the embedding describe what is stored; where no two saves were open at once, the
test store holds what Postgres holds.

## The two stores

`PostgresStore` and `MemoryStore` have every method of `ArchiveStore` as an operator
from tables to tables and an answer, translated one from each implementation.
`StoreContract` makes the calls the services make on both.  Groups of calls that
share rows are explored separately (`Groups`); search is left out.  `StoresHold`:
every call is answered alike, every read afterwards too (`ReadsAgree`), and a
retention sweep takes only raw bytes all of whose sessions it took.  What differs by
construction is stated: the in-memory store keeps rows of deleted sessions, which
Postgres cascades away, and it lists a team the collections of those who left.

## Accounts, machines, commands

`Accounts` is one address.  A call authenticates, reads and writes in steps of its
own; a change of the password holds the identity's row from its check to its
commit.  `SignInsHold`: who signed in with a password that was replaced is out,
except the session the change was made from and a sign-in under way during it (or
in its millisecond); one address has one tenant unless it registered while the
provider answered; a session that was refused is never accepted again.

`Machines` has registration, heartbeats, edits, tokens, revocation and
deregistration as calls that read a record in one transaction and save it in
another.  `MachineRecordsHold`: after a deregistration answered no token of the
machine is accepted again, one minted by a call in flight included; an installation
is one live machine; a call that is no edit changes a name only back to the one it
read, over an edit saved while it was in flight; no call brings a retired machine
back.

`CommandChannel` has commands, streams that replay and poll, overlapping polls of
one stream, listeners that die unnoticed, lost acknowledgements, revoked tokens and
a tool that goes on writing.  `ChannelHolds`: a command recorded as completed is on
disk, a settled one stays settled, and the whole implements `CommandPromise`: a bundle
is written only for a command that was queued and never over what its tool continued,
and an outcome is recorded only of a queued command.

## The agent's side

`Materializer`: runs verify a bundle, check every target, stage and link the files
or take out what they had linked.  Runs overlap, die anywhere, and the tool writes
too.  A removal may fail and the code drops its result (`stuck`); a directory that
cannot be made ends a run where it is, with what it has staged
(`memoar-materializer/src/commit.rs:60`, the outcome "unsafe").  `MaterializerHolds`:
no run writes over a file; a run that reports success has every file in place (but for
a file it found and another's rollback took out); one that failed has left no link and,
unless a directory ended it, no temporary, where every removal worked; a replay after a
death never collides by itself.

`MemoryDocuments`: sweeps by the watch and by a `memoar sync` beside it, the capture
as a transaction that reads the row twice and updates the columns that differ from
the second reading, reviews, deletions, and a conversion's gate.  `MemoryHolds`:
"reviewed" is said only of a text a person cleared, what leaves was cleared, the
hash has its revision, and the watch's cache is what the archive has, the last two but
for the deletions and unheard answers named.  Two things break the first two.  A
capture may save over a row another capture or a deletion changed since its second
reading (`straddled`).  And a single capture may save a new text over a review of the
old one: where the scanner's verdict on the new text is the status it read, the column
is left alone, and the new text has the mark of the old one's review.  `unread` is
exactly the texts this happened to; a review that is kept by a capture of the same
text, or written over, excuses nothing.  What the code's own words say of it is
[below](#where-the-code-and-its-words-part).

`MachineToken`: two transports that share a sweep, two clocks, revocations.
`TokensHold`: an upload within its deadline is refused as expired only by the skew
of the clocks; a revocation costs the sweep it falls into and no later one; no token
is replaced the moment it is made.

`Launcher`: processes over one cache, each call on the disk a step, with deaths,
failed fetches, stale locks and a release put out again.  `LauncherHolds`: what is
started is a whole build with its published checksum, what a launcher was told of is
there, nobody fetches what the cache has, unless the cache was at odds with itself,
a live lock was taken for a stale one or an install broke off.

`CaptureLoop`: the watch's debounce and the desktop's timer over files that are
written, rewritten and removed.  A file's window starts when it is first seen, so a
path is never emitted on first sight.  `EmittedIsTaken`: a path the watch counts as
dealt with is in the queue; `LastVersionIsSent`: a file's last version reaches the
archive, each but for the versions a stat does not show and the paths marked emitted
before an enqueue failed.

## What is owed

`Distillation`: a run reserves its estimate, asks, settles or refunds and writes its
notes, while the settings row is edited as read and write, the month turns and the
session is deleted.  `DistillationIsTrue`: the counter is what the month's settled
runs cost and what the others still hold, unless an edit was saved over a counter
that had moved or a run settled in another month than it reserved in.
`DistillationSettles`: a running job ends, unless its run broke off or its session
went.

`ConversionJobs`: the request saves a job and queues it, the queue tries it three
times and hands it on, the command line polls.  `ConversionIsTrue`: ready means
stored, what was downloaded was there, and ready is the last word unless the queue
ran the job again.  `ConversionSettles`: a queued job ends ready, or failed with its
attempts spent.

`RateLimits`: INCR and EXPIRE by processes that may die between them.
`RatesAreKept`: a window lets through its limit, an account takes at most one guess
more than its budget for each other request in flight.  `LimitsLift`: who was refused
is let in again, unless the expiry was never set.

`ServerSettles` is `CommandSettles` (a command that was queued ends) with the three
above; `AgentSettles` is `MemoryCatchesUp` (the archive comes to hold the instruction
file as the disk has it) and `LastVersionIsSent`.

**Fairness**, each where the code gives it: `ChannelFairness` (the interval keeps
firing, a listener works through what it received, TCP gives up on a peer that is
gone, and whatever started a listener starts it again), `ConversionFairness` (the
request ends, workers take jobs and go on, the queue notices a silent one),
`RateFairness` (a request is handled, a window with an expiry lapses),
`DistilFairness` (a run proceeds or breaks off), `MemoryFairness` and `LoopFairness`
(a program that is up takes its next step).  All are weak, of steps a program takes by itself;
no person, fault, death or revocation has to happen.

## What has been failing

`ErrorGroups`: one process, the API or the worker, over any number of starts.  It
counts, reads its file, writes it by the timer and once more when it is asked to
stop, and dies anywhere.  A write is two steps, the temporary file and the rename;
nothing runs between them but a death.  `ErrorsHold`: no failure is counted twice,
although the worker takes jobs before it reads the file and then adds the file's
counts to its own; what a running process reports is everything since the first
start, unless one died with something unwritten, a last write failed or came before
the last failure, the file was damaged from outside, or a start left groups out; and
only the worker can come to the last, because only it can hold more groups than the
cap, at most twice as many.

## The web application

`Console` has the route, the stored token, the dashboard, the session screen and the
collection form.  A request is sent, served and answered, three steps with anything
in between.  `ConsoleHolds`: with nothing on its way and no answer overtaken, the
collections on screen are the archive's; the timeline has no hole unless an old page
met a newer dashboard; a session that is shown stays until the reader moves and an
awaited one is shown or reported; what is typed is kept; signing in leads back.

`Pages` has one visit of the search box, a session's pin, its share dialog and its
conversion, the memory files, the teams, the settings, an import or the tiles, whose
layout is a set: the order of its entries orders the markup only.
`PagesHold` is a claim for each: results are of the phrase, a pin is true, an
approval is of this opening, and so on; each names the late answer that breaks it.
What a screen offers a reader is an operator of its own (`OffersPin`, `OffersReview`,
`LeadsTo`, ...): it is read from the rendered code, and guards the action that takes
it up.

## The runs

Bounds cut behaviours in length, never a fault in the middle of a step: each run
allows the interesting event at every point it can happen.

Several runs are sums: a behaviour of `sharing`, `areas`, `clients` or `live` picks
one area from `Areas` and runs that system from its initial state on, while the
others stand still.  The systems share no variable, so this is each of them checked
by itself, with every property checked in every one; a property holds of the others
because they do not move.

| Run | Instance | Shows |
|---|---|---|
| `two_passes` | 2 processes, 1 row, every fault of the network and the server, a retention sweep, reprocess, 1 death or stall, after which the job is given up | `SyncInv` is invariant, interleaved SELECTs and UPDATEs keep attempts bounded, a finished job left its verdict |
| `faulty_settles` | 1 process, one digest at 2 paths, batch of 1, faults of the network and the disk, a retention sweep | every row settles, every synced row gets a verdict, nothing is reopened, `CapturePromise` |
| `poison` | 3 transcripts, 2 always refused, batch of 2 | the third is synced and parsed, what is synced is stored |
| `transfers` | 1 transfer, 2 requests, 2 captures, 1 deletion, 1 death, 2 statements that fail | what is copied was reviewed, both sides agree, `TransferPromise` |
| `transfer_commit_lost` | 2 statements that fail, lost commits, 1 death, no deletion | every copy is explained, a claim is honoured |
| `sharing` | links: 1 link, 2 bearers, 2 captures, 1 deletion, 1 death; teams: 2 teams, 2 workers, 1 request at a time, changes by hand, 2 parses, 3 requests; transcripts: 15 layouts, 2 conversations, 2 to 4 records, 1 spoiled | what is served was reviewed, the list is true, a revocation is final; clear, reviewed or named as an exception, and consented; read and kept |
| `areas` | store: 3 parses of 2 conversations sharing both turn ids, 1 deletion; machines: 2 ids, 3 calls; materializer: 3 runs, 2 files, 1 death, 1 write of the tool, 1 run whose removals fail; accounts: 4 calls, 1 tick; channel: 1 command, 2 streams, 2 polls, 1 fault; memory: 2 sweepers, 3 texts of which 2 have findings, 1 edit, 1 removal; token: 9 ticks, 2 sweeps, 1 revocation; launcher: 2 launchers, 1 mishap; errors: 2 kinds, a cap of 1, 3 failures, 2 stops or deaths, 1 failed write or damage | the properties of [the session store](#transcripts-and-the-session-store), [accounts, machines, commands](#accounts-machines-commands), [the agent's side](#the-agents-side) and [what has been failing](#what-has-been-failing) |
| `clients` | 4 to 6 calls of each group on both stores; 3 or 4 requests of each errand, 2 sessions; 3 to 9 requests of each screen | the stores answer alike, the web application shows what the archive holds |
| `live` | channel: 1 command, 2 streams, 2 faults; conversion: 2 workers, 2 attempts; rates: 2 requests; distillation: 2 runs; memory: the watch alone, 2 edits, a lost answer; loop: 2 files, 2 writes, 1 setback | what the spend, the budgets, a conversion and an emitted path never get wrong, and everything [owed](#what-is-owed) |
| `bytes_lost` | puts may fail | a counterexample, see below |
| `links_orphaned` | 1 deletion, no death | a counterexample, see below |
| `blocks_moved` | two conversations of a Goose database | a counterexample, see below |

Why the bounds are enough.  Two processes are the fewest that interleave a
SELECT and an UPDATE; processes meet only in the rows, one statement at a
time.  `MaxAttempts` is 2 (8 in the code): one attempt that leaves the row
eligible and one that does not.  Two rows and a batch of one or two cover a full
batch, a partial one and a row left out; the starvation run needs as many poisoned
rows as the batch holds, and one more.  Two captures make a review of one stale; a
deletion and a re-capture bring a session back.  Two requests are the fewest that
race for an offer, and two failing statements a save and the UPDATE meant to undo it.
Of three texts two have the same verdict of the scanner.  Two workers let an older parse save over a newer one.  Three
parses are one that holds an id and two of another session that want it, in two
versions.  Three calls are one that reads, one that changes what it read, and a
third that retires the machine; four of an account are a registration, a sign-in
and two changes.  Three materializations are two of one bundle and one of another.
Two launchers meet in every pair of their steps.  The proofs of the next section
lift most of these bounds.

Deadlock is not checked: when every capture has settled or been abandoned, every
offer answered and every bound used up, the system has nothing left to do.

Symmetry is declared over interchangeable processes, workers and teams, and only in
runs without liveness properties.

## The proofs

Checked by TLAPS for every value of the constants (processes, artifacts, transfers,
links, bearers, workers, teams, parses, calls, launchers, files, grids, and every bound
and fault constant) unless an assumption is named.  Each theorem of the form "the
specification implies always P" goes through an inductive invariant that lives
beside the properties it serves (those of `Pages` and `Console` beside their proofs) and that TLC checked
on the instance of its run before it was proved.  The proofs have one step per action and, under it, one per
conjunct the action can disturb; what several actions need is a lemma.

**`CaptureSyncProofs`.**  `SyncInv` is inductive.  It adds to the two claims about
synced rows (`SyncedIsRegistered`, `SyncedWasQueued`) what carries them across
steps: a pass visits only rows of its batch and a batch only captured rows
(`ChosenRows`), what a pass is settling was registered and queued by the
manifest that brought it there (`SettlingIsQueued`), and what a sweep may take has
been read and has its bytes (`SweptWasRead`, `QueuedIsRegistered`).  The manifest's
check is made many steps before mark_synced, and what it found may have been swept by
then; it still holds that nothing but a sweep took it, and the claims alone are not
inductive.  From it:
`TypeCorrect`, `AcknowledgedIsRegistered`, `AcknowledgedWasQueued`,
`AcknowledgedIsStored` (under `~StorageFaults`, in the property), `PromiseRefined`
(each step is a step of `CapturePromise` or a stutter), and `AloneNeverReopens`:
with one process, a pass that is not settling holds no synced row
(`HoldsUnsynced`).  `FinishedJobsSpeak` is `JobLeavesVerdict`, stated of a verdict
written by digest in one step and reported in another: it strengthens to jobs that are
done or thrown and not yet reported, and has to see past parses outside the queue's
hold, which write the row of a job that is waiting, running or over.  `GivingUpIsNear`
is `AttemptsBounded`, from `BoundInv`: a pass that chose a row owes at most two
charges of it (`Owed`), the row's count and what is still owed of it stay within the
bound together, and so does what a SELECT has read and not yet written back
(`ChargesAlone` for one process, `ChargesOfTwo` for two).  Each step of a pass is,
for each row, one of four kinds (`ChargeStep`), so that the arithmetic is done once.  Writing it showed that the bound is of two processes and no more: of three,
one may write back a SELECT made long before and lower the count, and the row is
chosen again while another process still holds the high one.  The property says so.

**`TransfersProofs`.**  `VettedInv` is inductive whatever the database does: a row
of `reviews` is of content the history names, and what an accept has checked was
reviewed.  From it `OnlyReviewedCrosses`.  `ClaimInv` is inductive where a failed
save was rolled back (`~LostCommits`): an offer is not answered before it is made,
an accept at work holds its offer alone and nothing was copied for it, and a copy
is of an offer that stays accepted.  From it `OneCopy`, `RefusedStaysRefused` and
`TransferRefined`.  `AtMostOneCopy` alone is not inductive: nothing in it says
that the request about to save is the only one.  `BothSidesAgree` is `AnswersAreTrue`
from `ToldInv` beside `ClaimInv`, with any number of deaths and of statements that
fail: an accepted offer nobody is at work on has its copy, and the sender's row says
what the offer says or is still to be told by the one request that answered it, unless
an answer broke off (`cut`); and then the row never says the opposite.  `ExtraCopiesAreFailures` is
`CopiesAreExplained`, with lost commits too: a request at work has not made the copy
it is entitled to.

**`SharingProofs`.**  Of share links, `LinkInv` gives `LinkTypeCorrect` and
`OnlyReviewedServed`.  `CutInv` is inductive where owners revoke links they have
received (`~RevokeUnminted`): no write of createLink is still to come for a link
that is being revoked or was.  From it `AnsweredRevocationHolds`, `RevokedForGood`
and `NobodyNewAfterRevocation`.  `OwnersListIsTrue` needs `RowsInStep` beside it: at
each place of the two requests, which of grant and token has been written and which
not.  Of team workspaces, `WorkspaceInv` carries a stamp to its save: a stamped
worker whose parser left the session private holds a team that was consented to when
it stamped, for a clean transcript, and is known as overtaken if the consent is gone
by now (`StampInv`); and a change by hand to its write, which is of sessions that are
reviewed still or that a save slipped under (`SettingInv`).  What one
request at a time adds stays a conditional conjunct (`OneAtATime => ...`): the
consents are as the request saw them, and what a revocation has not selected is out
of its reach.  From it `WorkspaceTypeCorrect`, `NothingUnreadIsWidened` and
`ConsentIsKept`.

**`ArchiveProofs`.**  `ChannelInv`: a listener that is busy knows what became of its
command and calls it completed only with the bundle on disk.  `ReceivedWasGiven`: what
a listener has received and not read, and what it is at, was queued, which needs that
a batch sent in order holds the batch's commands and no others (`OrderedIsOf`).  From
the two `CommandsAreTrue`, with each step of the channel a step of `CommandPromise` or
a stutter.  `MachinesInv`: what a call read was there, and the name it would
write back is the machine's or was saved over since, so that a heartbeat's save can
be told from an edit; from it `MachineRecordsAreKept`.  `AccountsInv`: a session of a
password that was replaced was overtaken by the change, kept by it or began before
the cutoff (`TokenOf`); a sign-in under way is of this password or known to be
overtaken (`SignInOf`); and a change about to commit holds the row alone, with a
cutoff not before the one it replaces (`ChangeOf`), which is why the second of two
racing changes keeps no session the first one ended.  From it `SignInsAreTrue`.
`ConversionInv`: a worker about to say ready has put the bundle (`ReadyWasPut`); short
of a death and of a job taken from a worker that was still at it, who is at the job
owns it and whoever owns it is at it (`OwnerIsAtIt`), so that at a ready job there is
only the worker that has just said so (`ReadyIsOver`); and nobody is at work before
the request has queued it.  From it `ConversionsAreTrue`.  `RateInv` counts those who
will still get in with those who have: what was let through and the requests counted
in the open window and not yet judged stay within the limit and within the counter,
and so do the recorded failures and the guesses under way within the bound; a request
counted before the window lapsed is neither.  From it, by arithmetic over the
cardinalities of the sets of requests, `BudgetsAreKept`.  `DistilInv`: no run and no
row that is held is of a window not yet opened (`WindowsAreOpened`), so that the
window a month's first reservation opens is one nobody holds; the spend is then
accounted for unless it was disturbed.  From it `SpendIsTrue`.  `ErrorInv`: wherever a
process may end without losing anything, the file has everything (`FileIsCurrent`),
and before it is read what was counted since the start is the rest; nothing in it is
ahead of what happened; what is about to be renamed is what the process holds; and the
API's file never has more groups than the cap, which with the cardinality of a union
bounds what is tracked.  From it `ErrorsAreCounted`.

*Sessions* (also in `ArchiveProofs`).  `StoreInv` relates what a save read to what is stored when
it writes: one save of a session is open at a time and no two hold one turn id
(`Apart`), what a save read is still so where it matters, that is, it rescopes the
ids its session holds rescoped and no others (`SaveOf`), a turn has a rescoped id
only while another session holds its own (`WholeIs`), and a session no two parses
ran on at once is described by the last of them (`DescribedIs`).
`SessionsAreWhole` alone is not inductive: it does not say that between `Lookup`
and `Commit` nobody takes an id the save counts on.  From it
`SavesKeepSessionsWhole` and `MarksAreKept`.  The proof of the latter found the
property too wide: it had said that a session captured again keeps *all* its ids,
and a shorter capture drops its last turn; the instance had not shown it because
the turn it drops has no block.  It now speaks of the turns the session still has.

**`AgentProofs`.**  `TokenInv`: the request under way was sent with a token that was
new or had the margin by the agent's clock, and no token is older than its sweep;
from it `TokensAreKept`.  `MemoryInv`: what a capture found when it looked is still
so, or a deletion or another capture came between (`FoundInv`), the same for the gate
of a conversion (`GateInv`) and for a text the watch waits to hear of (`SentInv`); and
"clear" is never said of a text with findings (`ClearInv`), which no review excuses,
so that a save over a review takes its mark in the one way `TakesTheMark` names;
from it `MemoryIsKept`.  `LauncherInv`: who installs has the lock, what is about to be
put in place is a build, who fetches found no pair under the lock, and until
something goes wrong a pair that is there stays (`PairOf`); from it
`LaunchersMeetSafely`.  `MaterializerInv`: a file has one run that linked it
(`PlacesOf`), how far a run has come is what it has staged and linked
(`ProgressOf`), and what a run alone found absent stays absent until it links it
(`AloneOf`); its rollback has gone down to where it is, or a removal failed; from it
`BundlesAreWhole`.  `LoopInv`: a file's version and what its stat
shows are no newer than the last write, so that a write always shows what no
snapshot has (`PrintsAreOfWrites`), and what was emitted was taken; from it
`EmittedPathsAreTaken`.

**`PagesProofs`.**  `PagesInv` has one conjunct for each screen and one for the requests
they share (`RequestsInv`); three lemmas say what sending, serving and answering a
request changes, and after them a screen's proof is about its own state.  What a
conjunct says is what the answers on their way will be worth when they arrive.  A pin
is one request at a time, which has changed nothing until it is answered (`PinAgrees`).
An approval on its way is of the opening on screen (`ShareOfOpening`).  The status an
effect waits for is of the job on screen and not behind it, and the job a conversion's
answer names is one nobody has shown (`ConvertRequest`); that is where what is shown of
a job cannot go back.  A review of a memory file is alone on its way, and a removal
leaves the file on screen alone unless it is that one (`MemoryTurns`); a list that is
asked for after the last removal is the archive's, but for the file a review has just
marked (`MemoryListed`).  The teams' loads are true unless an action was taken that will
make the screen load again (`TeamsAgree`).  A change of the settings holds the archive's
as what to put back (`SettingsAgree`).  An import has one request under way, of the
step it is at, and looks past what was there before it (`ImportShape`, `ImportAnswer`).
A tile put through `clampTile` is on the grid, on any grid, and one that is on it stays
as it is (`Clamped`), so that what is stored is what the next visit loads
(`LoadedAgain`).  From it `ScreensAreTrue`, all of `PagesHold`.  Proving the import found
a mistake of the model: two cases of its server overlapped, and TLC had always taken the
first.

**`ConsoleProofs`.**  `ConsoleInv` says of every request on its way what its answer will
be worth when it arrives, under whatever has been applied by then.  Every step is one
of the requests first: one is over, one is sent, one turns to what the archive says
(`AsksSteps`), and a subject's proof speaks of its own state after that.  The session
effect's request is for the session on screen, and an answer says what was asked
(`SessionInv`); a sign-in under way leads to where the reader was first asked
(`SignInInv`).  A list of collections on its way was true when the t-th answer was
served: it lacks exactly those made after it, and unless a later answer has been
applied each of them is still to arrive (`AsOf`), in the order they were made
(`CarriedInv`); so is the shelf, as of the last answer applied (`OnShelfInv`).  When
nothing is on its way it lacks nothing.  `UndisturbedDashboardIsTrue` alone is far from
inductive: it is silent while a request is out.  The timeline is a stretch of the
archive's rows from a moment down to the cursor (`Stretch`): none is newer than the
archive's row of the same session (`Earlier`), and every row the archive still has in
that range is in it (`Fills`).  A capture takes a row out of the range and never puts
one in, so a stretch stays one (`StretchKept`); the page below the cursor is one
(`NextPage`) and holds no session of those above it, because what was captured since
moved up, out of the page's reach (`Apart`); and two that meet at a cursor are one
(`MergeIsWhole`).  A page of an earlier dashboard is no longer `fresh`, which is where
`torn` comes from.  From it `ConsoleIsTrue`, all of `ConsoleHolds`.  The rows of a
filtered sequence are stated by their positions (`Kept`), since the prover cannot
unfold the recursion in `SelectSeq`; that the positions below a moment are the last
ones is `UpperPositions`, by the well-ordering of the naturals.

**`ReviewedSessionProofs`** has the lemmas on the session's steps that the proofs of
links and transfers use.

*Assumptions.*  `~LostCommits` (in `ClaimSafe`, `OneCopy`, `RefusedStaysRefused`,
`TransferRefined`, `BothSidesAgree`): a save that threw was rolled back.
`~RevokeUnminted` (in `CutSafe`, the three theorems after it and
`OwnersListIsTrue`): owners revoke links they have received.  `IsFiniteSet(Pass)` (in
`GivingUpIsNear`): the bound counts processes.  One process (in `AloneNeverReopens`).
Everything else is as general as the modules' own `ASSUME`s, which every run
evaluates.

Theorems whose property no run checks under its own name: the type theorems,
`AcknowledgedIsRegistered` and `AcknowledgedWasQueued` (conjuncts of `SyncInv`, which
`two_passes` checks), `ReviewedBeforeCopied`, `ClaimSafe`, `CutSafe` and
`WorkspaceSafe` (inductive invariants), `OneCopy` and `RefusedStaysRefused` (implied by
the refinement `transfers` checks), `AnsweredRevocationHolds` and `RevokedForGood`
(beside `CutOffServesNobodyNew`).

*Only model-checked.*  Liveness under fairness, which the prover has no rule for:
`CapturedIsSettled`, `SyncedGetsVerdict`, `GoodRowsArrive`,
`ClaimIsHonoured`, `ServerSettles` and `AgentSettles`.
`TranscriptsAreRead` and `TranscriptsAreKept`: the parsers fold over a file of any
length, and induction over data is out of the provers' reach.  `StoresHold`: an
equality of two implementations over tables, sorted and cut, by enumeration of
calls.

## Where the code and its words part

Three runs end in a counterexample to something the repository says.

- `bytes_lost`: `putRaw` commits the row before it puts the bytes, and delta and
  manifest look only at rows.  A put that fails leaves a digest the server calls
  held; the next pass skips the upload and marks the row synced with its bytes
  nowhere.
- `links_orphaned`: deleting a session takes its grants and leaves its tokens.
  When a replay brings the session back under its remembered id and it is
  reviewed again, a link that nobody can list or revoke serves it.
- `blocks_moved`: two conversations of one Goose database get the same block ids,
  and saving the second takes the blocks of the first.

Some properties name the case they stop at, because the code does not keep the
wider claim.  `AnswersAreTrue` stops at an answer that broke off: an accept whose
process dies after the claim, or whose catch block cannot write (most likely when the
save failed on a lost connection, `server/sharing/sharing.service.ts:229`), spends the
offer; one that ends before it told the sender (174-179, 232-237) leaves that row
pending; and nothing repairs either.  `AtMostOneCopy` holds where a failed save was rolled back.
`UndisturbedListIsTrue` stops at a death between the two writes of a revocation, and
`CutInv` at a revocation between the two writes of createLink.
`OnlyTheOvertakenEscape` names the parse that had resolved its team, and with
`OneTeamOnly` is for requests sent one at a time.  `WidenedWasReviewed` names a
session whose save fell between updateVisibility's look at the review and its write of
the column (`server/sharing/sharing.service.ts:91`), which is widened unreviewed, and
an uploaded bundle that names a team: the stamp leaves it there whatever the scanner
found (`server/ingest/team-stamp.ts:32`), and `ConsentHolds` says the same of consent
and membership.  `SyncedIsRegistered` stops at retention.

`MemoryHolds` stops at a disagreement of code and comment that no run of its own
shows.  reviewMemoryDocument puts the content hash in its WHERE clause, since
otherwise "between a read and an update the agent can capture a new version, and
clearing that one would mark text nobody has read as read"
(`server/store/postgres/memory.ts:139-142`).  The other order does it: a capture of a
new text reads the row (95), a person reviews the old text, and the capture's update
writes the columns that differ from what it read.  The hash differs; the status does
not, if both texts have findings; and the row says "reviewed" of a text nobody has
read, which a conversion then lets out.  With `unread` left out of `ReviewedWasRead` or
`OutWasCleared` TLC finds this in `areas` with the watch alone.  `AllOrNothing` stops
at a directory that cannot be made after files were staged
(`memoar-materializer/src/commit.rs:60`): the run returns and leaves them.

## Other things the models showed

Behaviours met while stating or proving a property; no run is about them, and most
are the named exception of one.

*Archive.*  A retried conversion that succeeds keeps the error of its failed try
(`server/convert/conversion.service.ts:92-152`); a session deleted before its
conversion ran leaves the job queued for ever.  A distillation job of a session
deleted before its notes were written stays "running"; a reservation whose run
breaks off stays charged to its month; an edit of the settings writes back the spend
it read over a concurrent reservation.  A listener with an open stream and a lost
acknowledgement does not see the delivered command again until it reconnects.  A
document deleted between the two reads of a capture is inserted afresh without a
revision.  `session_identities` has no unique key on the session
(`server/migrations/1700000002000-SessionIdentity.ts:8-18`).  The worker adds what its
file has to what it counted since it joined the queue (`server/worker.ts:30-45`) and so
may hold more groups than the cap; a start that reads such a file leaves groups out
without counting them as dropped (`server/errors/error-aggregator.ts:96`).  Jobs that
fail after its shutdown's last write, which comes before it waits for them
(`server/worker.ts:73-80`), are in no file.

*Parsers.*  Formats that name a conversation by its place (cursor, zed, opencode)
merge two when a new one sorts before a stored one, or after a deletion.  Zed and
task-history pass the tool's own id to a uuid column, so that an id of another shape
refuses the session.  A turn may name a parent no turn was made of (claude-code's
filtered records, antigravity's empty turns).  ChatGPT's regenerated answers fold
into one turn, and a run named by its last step is renamed as it grows.  A torn last
line costs codex and antigravity the whole file until the next capture.

*Agent.*  A materializer run that found a file unchanged may report success after
another's rollback took it.  A file that vanishes during an enqueue ends the watch;
a path is marked emitted before the enqueue that may fail, and is not tried again
until it changes.  A token whose expiry cannot be read is minted again for every
request.  A 401 of the sync engine's transport does not end a watch, one of
ApiClient's does.  After a lost answer or a sync beside it, the watch's memory cache
may hold a text the file returns to, which is then not sent (`daemon/memory.rs:172`).
A launcher that found a broken cache may remove what another has just installed; a
lock taken for stale lets its first owner release another's; an interrupted body
leaves its lock; a pinned checksum is compared only when something is downloaded.

*Web application.*  Signing in returns to the first remembered place of the tab ever
after (`web/App.tsx:88-97, 177-181`).  The session screen goes on loading when the
token lapsed by the browser's clock, and after Retry on a failed session load; that
failure covers every screen until Retry.  A late 401 of an old token clears a newer
sign-in.  Two loads of the dashboard are unordered, and a created collection may be
overwritten or doubled; a page of an old timeline merged into a reloaded one leaves a
hole or a double.  The collection form stays at "Creating…" after a failed save, and
the late save of a form that was left clears a newer draft.  In the share dialog an
approval or a link in flight at its closing appears at its next opening.  A late
answer of the pins' list overwrites a toggle.  Conversion polling stops after one
failed poll.  An open overtaking a review shows "Reviewed" over newer text.  Two
overlapping saves of settings that both fail leave a value the archive never accepted
on screen (`web/views/Settings.tsx:112-127`).  Importing a conversation that is archived already
never becomes ready, and another capture of the same tool can be taken for the
import.  A stored layout with an id twice is kept so.

## What is not modelled

- Search: ranked lists of two backends fused; a pure function of what they return.
- Metrics, MCP tools (a second front to the services), connectors (file discovery),
  the command line's other commands and the desktop window: counters, input and
  output, or fronts without state of their own.
- The generated canonical model and contracts, migrations and start-up checks; the
  constraints the migrations create are used where a statement depends on them.
- The id of a `raw_artifacts` row: a parse that lost its row to a sweep and writes to
  the row made anew joins its sessions to the old id, and `RawArchive` takes them for
  the new row's.
- Of modelled parts: the byte limits of ingress; the detection of a format from its
  bytes, Cursor's legacy envelope and the bare array of envelopes an older VS Code kept; the exchange with an OAuth provider, lockout
  counters and organisations; organisation and team creation and the read paths of a
  team; the writers of formats; the services' checks before a curation call.

## The plan

Done: every component above but those of the last section, and theorems for the
safety of all of them but the parsers and the two stores.

To come: reciprocal rank fusion against a reference definition.
