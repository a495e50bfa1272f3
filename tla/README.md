# Minni: verification project

TLA+ models of the concurrent core of Minni, the TLC configurations that check
them on small instances, and TLAPS proofs of what matters most for every value
of the constants. Paths are relative to the repository root; `PROJECT.json`
names, for every definition that models code, the lines it models.

## 1. The system

Minni is a memory service for coding agents. It has two halves.

* `minnid` (Python, `src/minni/`) is a daemon with a JSON-RPC socket over a
  SQLite store (WAL) and a vault of Markdown notes. Requests run in a bounded
  pool of threads, next to background runners (consolidation loop, vault watch,
  decay, vector backfill, worker-write drain, watchdogs). They meet in the
  database and in the vault's files, so they interleave between any two
  transactions and any two file-system calls.
* The plugin (TypeScript, `plugins/minni/src/`) is an MCP server and a set of
  hooks. Each agent runs its own processes of it; they coordinate through files
  under the vault's `.runtime/` only: lock directories, reservations, queues,
  receipts, journals.

| Component | State it keeps | Operations | What is hard | What makes it correct |
|---|---|---|---|---|
| Thread plan lock (`thread-lock.ts`) | lock directory, `owner.json`, claim and reap names | acquire, wait, recover a dead owner's, release | every file-system call is a step; deaths; reused inodes | one holder; a live holder keeps it; a dead one is recovered |
| Exclusive replan reservation (`thread-lock.ts`) | one reservation file | publish, observe, recover, withdraw | check and removal apart; half-written files | a running replan is announced; only its owner withdraws it |
| Worker write queue (`thread-write-queue.ts`, `thread-worker.ts`) | ticket files, update receipts, start stamps, in-process kicks | accept, kick, drain (two kinds), apply, park, drop | retries, deaths between note, receipt, journal and ticket; a replan racing it | accepted work is kept, applied once, in its generation, in order, and in the end |
| Claims and receipts (`thread-claims.ts`, `thread-worker.ts`) | claim envelopes, leases, receipts by generation | claim, verify, expire, commit, prune, restore | note, secret, receipt and journal written one after the other; best-effort deletions | a token taken away stays so; a live claim can be used; an answer is replayed, not redone |
| Thread journal (`thread-events.ts`) | ordered event log, baseline | append batch, reconcile | land-then-throw; note ahead of journal | dense order, one event per key, journal catches up |
| Notification relay (`thread-notification-relay.ts`, `thread_relay.py`) | outbox cursor, delivered marks | collect, deliver, acknowledge | duplicates; lost acknowledgements | at least once, in order |
| Plans (`plan.ts`) | slices, dependencies, generations | update, replan, delta | stale ids; cycles | history is not lost; ready means dependencies met |
| Handoffs (`minnid_runtime/handoff.py`) | lease table, outbox and inbox packets | send, list, acknowledge, await | two channels that may disagree; same lease sent again | one outcome per lease; it survives either channel |
| Governance (`minnid_runtime/governance.py`, `durable_projection.py`) | candidates, learnings, their documents, cold archive | stage, learn, resolve, contradict, evict, purge, index, repair | operator, pass and sweeps on one candidate; purge and index after the commit | a candidate is resolved once; what was answered is kept; search follows the learnings |
| Consolidation (`minnid_runtime/afm.py`, `afm_writer.py`, `afm_passes/`) | drafts, verdicts in flight, the held batch, review markers, inbox | compile, write drafts, apply, hold, reapply; ingest, quarantine, archive | a wait that times out while the drafts land; restart with a batch held | a decision has one owner; drafts are written once |
| Vector store (`vector_sync.py`, `faiss_persist.py`) | index, id map, manifest | delta sync, rebuild, persist | index and database apart | the index converges on the database |
| Knowledge graph (`graph_commit.py`, `graph_coordinator.py`) | edges, fences | commit, coordinate | stale candidates | only fenced commits land |
| Recall (`retrieval.py`, `rerank_cache.py`, `request_deadline.py`) | caches, deadlines | query, rerank | late answers | a deadline is kept |
| Wire (`wire/cutover.py`, `containers.py`, `writers.py`, `gc.py`) | payload directories, `current` link, host configs and containers, `wired.json` | cut over, roll back, collect old payloads | no lock against the hosts: they edit, rewrite and start meanwhile | edits survive; what is launched exists; a rollback restores |
| Hooks (`hook-handlers.ts`, `recall-state.ts`, `use-capture.ts`) | per-session state, counters, ledger | arm, deliver, count, rotate | many short processes | a recall is delivered once |

The rest (indexing, decay, principals, command line, console, evaluation,
migrations) is listed in `PROJECT.json` with the reason it is left out or the
place it has in the plan.

## 2. What is modelled

Eight modules, each for the part of the code that its comment names, and one
abstract specification. A step is whatever the code does between two points at
which another process, thread or promise may run: one file-system call in the two
lock protocols and in the cutover (where the subtrees of one container count as one), the code between two looks at shared state
in the queue and the draft writer, one SQL transaction in the governance, one
statement or one file in the handoffs, one handler (under the plan lock) in the claims.

| Module | Code | Instances | Proofs |
|---|---|---|---|
| `ThreadLock` | `withThreadLock`, `releaseOwnLock` (`thread-lock.ts`) | `MCThreadLock` | `ThreadLockProofs` |
| `PlanLock` | what `withThreadLock` promises its callers | in `ThreadLock` and `WorkerWriteQueue` | in `ThreadLockProofs` |
| `ReplanReservation` | `withExclusiveReplanReservation`, `publishExclusiveReservation`, `exclusiveReplanReservationIsLive` (`thread-lock.ts`) | `MCReplanReservation` | `ReplanReservationProofs` |
| `WorkerWriteQueue` | `updateClaimedSlice`, the queue, the kick and standing drains, receipts (`thread-worker.ts`, `thread-write-queue.ts`), the replan of `server.ts` | `MCWorkerWriteQueue` | `WorkerWriteQueueProofs` |
| `ThreadClaims` | claims, envelopes, leases, generations, receipts and the journal's keys for one slice (`thread-worker.ts`, `thread-claims.ts`, `thread-events.ts`, `plan.ts`, `server.ts`) | `MCThreadClaims` | `ThreadClaimsProofs` |
| `Handoff` | the five handlers of `minnid_runtime/handoff.py` | `MCHandoff` | `HandoffProofs` |
| `Governance` | candidates, learnings, documents, cold archive (`minnid_runtime/governance.py`, `durable_projection.py`, `afm_passes/`) | `MCGovernance` | `GovernanceProofs` |
| `AfmWriter` | the consolidation compile and the draft writer (`minnid_runtime/afm.py`, `afm_writer.py`) | `MCAfmWriter` | `AfmWriterProofs` |
| `WireCutover` | the cutover of all hosts, its rollback and the collection of payloads (`wire/`) | `MCWireCutover` | `CutoverProofs` |

### ThreadLock

`lock` is the lock directory (inode, creator, `owner.json`, whether it is older
than `staleMs`), `reap` the reap lock of the recovery. Each action is one
`mkdir`, `open`, `stat`, `readFile`, `rename`, `unlink` or `rmdir` of the code
with the checks that follow it; `seen` and `mine` are the stale facts a call
carries from one call to the next. Processes die and come back under the same
pid with another start marker; `PidOf` puts several callers into one process.
Time is two facts, "the directory is old" and "the reap lock is old". What the
code cannot rule out but does not tolerate either is listed in `Faults`, one
name each, so that every run and theorem says what it assumes: a creator that
stalls `staleMs` (`SlowCreator`), a holder that keeps the lock longer than
`staleMs` (`LongHold`), a recovery that stalls 5 s (`SlowReaper`) or dies
(`ReaperCrash`), a reused inode number (`InodeReuse`), a failing read of
`owner.json` (`ReadFault`).

### ReplanReservation

`file` is the reservation, with its author and whether its content is written
yet (`HardLinks = FALSE` is the path that creates an empty file and fills it).
A drain's look is the operator `IsLive`, since it changes nothing. Each element of
`Replans` is one call, with an operation id of its own. Its process may die during
the call or after it, any step may take `staleMs` except the completion of a file
just created, and with `ReadFault` a read fails. `judged` and `mistaken` are history: the
reservation a call has taken for a leftover, and whether its removal by path
took another one.

### WorkerWriteQueue

One slice with its generation, status and revision, the ticket queue, the
receipts by idempotency key, the start-accepted stamps and the journal's start.
Calls live in the worker's process with the in-process kick; `tick` is minnid's
standing drain and `replan` the orchestrator's call. Calls (`Find` … `Link`),
drains (`Top` … `Park`) and the shared steps under the lock (`Recheck`, `Apply`,
`Persist`, `Commit`, `Journal`) interleave, and each process may die between any
two of them.

This module is composed with the first two through what they promise. The plan
lock is an instance of `PlanLock` (a holder, acquired when there is none, released
by the holder or its death), and its actions are the conjuncts `Lock!Acquire`
and `Lock!Release` of the queue's. `ThreadLock` implements the same
`PlanLock`, the holder being the call in its `fn`: that is the property
`ImplementsPlanLock` of `lock_safe` and the theorem `Refinement`. The reservation is a flag, which is what
`ReplanIsAnnounced` and `DrainsGoOn` of `ReplanReservation` promise; that it is set only where none is set
and withdrawn by who set it is the theorem `ReservationIsALock`, which has `ReplanReservation` implement
`PlanLock` too, until a leftover's verdict is used on another file. That case and the faults
under which the promises of the lock fail are therefore assumed absent here.

The search for a call's answer and its rehydration are one step (`Find`); a
claim stands for its generation. Left out: expiry of claims, malformed
tickets, the worker's progress record, tickets of other slices.

### ThreadClaims

The other half of the worker's side: who may write at all. `slice` is the slice
in the note (status, owner, claim generation, claim, the worker's mark), `past`
what the note has ever held, which is what a restore can bring back; `secrets`
are the claim envelopes, `receipts` those of worker updates, `jrev` and `jkeys`
what the ordered journal has. `minted`, `lapsed` and `told` are the tokens made,
expired, and given to a worker. All handlers run under the plan lock, so a
handler is one action; but the note, the secrets, the receipts and the journal
are written one after the other, and any of these writes may fail or be the last
before a death. That is the `Outcomes`: the write never happened, was lost, landed
and then threw a bare error (`late`) or a typed one (`history`), died right after
(`cut`), missed the events (`behind`), or was answered (`ok`). Every deletion of a
secret and every pruning of receipts is best effort in the code and may fail here.

The orchestrator assigns, updates, supersedes, redefines, adds and restores;
leases lapse and are swept; a worker claims, repeats a claim, updates and repeats
an update. Faults, each a weakness described below and each named in exactly one
theorem's assumption: `Blind`, `LostScar`, `KeyReuse`, `Drop`.

Left out: the attempt counter and the claim's times, other slices (only
`Elsewhere`, which moves the revision), the journaled start that a complete asks for (modelled in
`WorkerWriteQueue`; here a complete needs a slice that was started),
single receipts that fail to be pruned (a generation's go together or stay).

### Handoff

One lease: its `row` in `handoff_leases`, one `packet` per send and box, and the
requests that send, acknowledge, list and await it. The two channels are kept
apart on purpose: a send writes outbox, inbox, row; an acknowledgement updates
the row, then sweeps the packets file by file, then archives the inbox copies;
a list reads rows, known ids and files in three steps. Every read and update of
the store may fail, and so may every write of a file; minnid may die. `dirs` is
what `known_agent_vaults` leads to: the recipient's vault may be outside it, as
the comment of `_known_lease_ids_for_agent` describes. Each send is a round with
packets of its own (two sends of one lease in one second, which share a file
name, are left out). Faults: the recipient answers a packet whose send has not
returned (`EarlyAck`), the status cannot be read after a failed update
(`AckReadFails`), a resend cannot store its row (`ResendFails`).

### Governance

`db` holds two tables: the learnings (text, open or closed, what superseded it,
what it contradicts, whether a canonical node maps to it) and the documents
through which search finds a text (its page, its successor, whether it is in
the index). `cands` and `fences` are the candidate packets and their review
markers, `tombs` the cold archive. A transaction is one action: `Stage`, `StageAuto`,
`Learn`, `Accept`, `Decline`, `Contradict` for the callers, `Select` to `Mark` for the
consolidation pass (verdicts chosen, then applied kind by kind with the checks
the code repeats), `Decay` and `Dedup` for the sweeps. What a handler does after
its commit (purge the documents of what it closed, index the new one) is a step
of its own, and `Crash` may fall between. `near` is an arbitrary likeness of texts, so
the similarity thresholds are not an assumption.

Two things in the code are unusual and are modelled as they are. A purge inside
a handler's transaction opens a second one on the same connection, which fails and
rolls back the first, and the handler still answers (`Undone`). A `stage_candidate` also goes on with its
candidate, in a transaction that begins with the next statement: it accepts whatever has the id by then
(`AcceptRolledBack`), and the id, rolled back too, is given again. The foreign key
`contradicts_id` has no ON DELETE, so an eviction of a contradicted learning
fails as a whole, after some tombstones were appended (`Referred`, `Appended`).
`lost`, `misled` and `stale` record what these paths leave behind, so that the properties
can say that nothing else does.

Left out: who may call, flagged and private candidates, the length of the queue,
embeddings, files in the vault, the inbox's archive, `writeback_enabled` off,
`expire_and_compact`, subscriptions.

### AfmWriter

A compile takes the consolidation lock, selects open candidates, has a verdict on
each and hands the review drafts to the writer thread. `queue`, `writer`, `wpc` are
the thread; `busy` the batch whose event is unset (`write_in_flight`), `left` the batches
whose waiter timed out, `out` the outcome it would have read. Verdicts are
applied one by one by the compile, by the worker, or by a later compile that finds
a held batch (`again`); `sticky` is the hold in memory and `stored` its copy in the vault, which a new process
hydrates. `Faults` are writes, applications and vault copies that fail, and a restart.

Left out: other passes (they show as "queue full"), a torn sidecar, the
fragment apart from the sidecar, endorsement and expiry, the debounce and
backoff of the loop, the inbox passes, a second application while one is going on.

### WireCutover

`minni sync` moves every host from one installed payload to another while
the hosts live on. `dirs`, `current`, `wires`, `surface` are what is on disk; `host` is what each running
host's server runs from and, for hosts that rewrite their file on exit, what they have in
memory. The cutover is `pc`: flip the link, then surface by surface read, stage, check, replace,
read back (or move aside and put in, for a container), verify, save
`wired.json`, scan, prune; or roll back: containers one after the other, classify, repoint,
restore. A container holds copies of a payload's subtrees or links to them, or it is itself a link to
a payload. It is converged to copies, or to links if its gate in `wired.json` allows them. Where links take the place
of links that is one rename; otherwise the old subtrees go first (`aside`), and on the way
back the new ones do (`missing`), and a death in between leaves the container without either. A container that
is a link is unlinked and nothing records it. `lost` names the containers a rollback cannot restore. It may fail or die at each step, hosts start, edit and exit at each step, and
`minni wire --use-version` writes a surface at each step. `touched` is what the comparison of inode,
mtime and hash tells the code; `raced` records the writes that fall between that
comparison and the replacement it allows, which no comparison can see.

Left out: a real directory at `current`, absent surfaces, dry runs, installs during
a cutover, what an entry holds beside its path, the links to a commands directory and
`installed_plugins.json` with their rollback (`cutover.py:3054-3091`), the Claude marketplace, and some
subtrees of a container swapped while others are not, except that it then launches nothing.

## 3. What is checked

| Run | Instance | What it shows |
|---|---|---|
| `lock_safe` | 3 callers in 2 processes, 3 calls, 3 inodes, each process dies once, no faults | one call runs its `fn` at a time (`MutualExclusion`); its directory and `owner.json` stay (`HolderKeepsItsLock`); removals by path hit their own directory (`RemovesOnlyItsOwn`); a dead owner's lock is recovered without waiting (`DeadOwnerIsRecovered`); all together is the abstract lock (`ImplementsPlanLock`) |
| `lock_faults` | 2 callers in 2 processes that call without end, every fault, 2 inodes | each call returns unless others make the lock anew without end (`EveryCallReturns`) |
| `replan_dies` | 4 replans that may die anywhere, no hard links, failing reads, slow observers | while no verdict was used on another file, a running replan is announced (`ReplanIsAnnounced`) and only its own call withdraws it (`OnlyItsOwnerRemovesIt`); nothing left behind, by deaths or by mistakes, keeps the drains away (`DrainsGoOn`) |
| `replan_leftover` | 3 replans, hard links, deaths | finding: a replan runs that is not announced (`RunningReplanIsAnnounced`) |
| `queue_safe` | a start and a complete, two tries each, a replan, a reassignment, a death, failing writes | accepted work is kept (`AcceptedIsKept`), persisted once (`AppliedOnce`), in the generation of its token (`OnlyItsGeneration`), complete after start (`CompleteNeedsStart`) |
| `queue_live` | the same calls once, a replan, a death | every ticket leaves the queue (`TicketsSettle`) |
| `claims_safe` | 2 workers, 2 claim keys, 2 update keys, start, block, complete and scar, 5 revisions, 2 tokens, no faults | a token taken away never authorises again (`RevokedStaysRevoked`); a live claim can be used (`LiveClaimCanBeUsed`); receipts say what was, and the last update finds its own (`ReceiptsTellTheTruth`); the journal is neither ahead of the note nor behind what was answered (`JournalKeepsUp`) |
| `handoff_safe` | 2 acknowledgements with different statuses, 2 sends, no faults | everybody is told one outcome (`OneOutcome`); what is owed is on the list (`NothingOwedIsHidden`); what was settled does not come back (`NoResurrection`); files end up saying what the row says (`FilesFollowTheRow`) |
| `governance_safe` | 2 texts alike or not, 1 candidate, 1 worker, 3 learnings, a restart anywhere | answers hold (`AnsweredIsKept`); an accepted candidate has one learning, but for those accepted in the place of an undone one (`AcceptedHasOneLearning`); search follows the learnings (`SearchFollowsLearnings`); a duplicate is dropped only for a live replacement (`DuplicateHasReplacement`) |
| `governance_undone` | 2 candidates, 2 workers, 2 learnings | finding: an answer for a learning that was undone |
| `afm_safe` | 2 candidates, 3 compiles, every fault, one restart | a decision follows its drafts and has one owner (`DecisionHasOneOwner`); a candidate is drafted once (`NoSecondDraft`) |
| `cutover_safe` | 3 surfaces (a host that is wired, a container found as copies, links or a link, a host that starts servers and rewrites), 3 payloads, 2 cutovers, 1 write by others | hosts' edits survive (`EditsSurvive`); what a surface launches exists (`LaunchesWork`); live servers keep their code (`ServersKeepTheirCode`); a rollback restores (`RollbackRestores`) |

Every property has a mutant of a mapped definition in `PROJECT.json`, kept beside
the definition in the module, under which the run fails: a recovery that only
rechecks that a directory exists, a drain that drops what it should park, a
receipt believed by its revision alone, a purge back inside its transaction, a
rollback that restores files where the link does not follow, and so on.

### Bounds

* *Lock*: three calls are a holder, the recovery that is about to take its
  directory away and the caller that makes the next one. A pid dies and returns once,
  which is what tells a live owner from its namesake. Callers in one process
  and in two are both there. Three inodes make every directory of three calls
  distinct.
  The calls of `lock_faults` are not counted, so that a call can go round its loop
  for ever; each process dies once, and two inodes are the lock and a directory in quarantine (with
  more in use `mkdir` fails, as on a full disk).
* *Reservation*: a call that dies, two that judge its leftover and a fourth that
  publishes in between.
* *Queue*: capacity two is full with two tickets, so the refusal of a full queue is
  reached; two tries are a call and its retry; two generations tell
  the live one from the dead one. More deaths or replans repeat these
  situations. The run has a start and a complete, for which `AppliedOnce` is proved with all failures;
  with a block it does not hold under all of them (see the known limits, and `Intact` in section 4).
* *Claims*: two tokens are the revoked one and its successor; four mutations
  (`MaxRev` 5, from revision 1) are a claim, a mutation that takes it away, one that brings an
  old slice back, and a use of the old token. `progress` differs from `block` by its status only and is left out
  of this run. The theorems need no bound but those.
* *Handoff*: two acknowledgements are the race; two sends are a lease and its
  resend after an answer or an expiry. Deaths and failures are not counted.
* *Governance*: two texts are equal, alike or unrelated; three learnings are one that is superseded, its
  successor and one that comes meanwhile. One candidate suffices:
  its id is free again after it was undone, so that one who stages it then is the other caller whom the rest of
  the undone call meets, and but for their ids only their texts relate two candidates.
* *Draft writer*: two compiles race for the flight and the hold, the third comes after a
  restart; two candidates make a batch that can be written by half.
* *Cutover*: one payload without the new paths and two with; two
  cutovers are a failed and a later one; one write by others at any of
  the steps. Each kind of surface occurs once: surfaces share the link and
  `wired.json` only. The host that rewrites is found naming the link (`Pinned` has the other two), a wire command can
  pin it later; the theorems leave `Pinned` open.

Symmetry is used only where a run checks no liveness: over acknowledgements in
`handoff_safe`, over workers and keys in `claims_safe`, over candidates and compiles in `afm_safe`, over
candidates, workers and texts in the runs of `Governance`. Deadlock is not checked in
the runs of `Handoff`, `ThreadClaims`, `Governance`, `AfmWriter` and `WireCutover`, whose systems rightly stand still when nobody asks
anything or the bounds are used up; the other modules have a `Finished`
step for that state.

### Fairness

* `ThreadLock`: a running process goes on with its calls (weak fairness of each
  caller's step), and a caller turned away again and again passes its deadline
  (strong fairness of `Busy`: the deadline is a wall-clock time fixed when the
  call begins). Deaths, restarts and new calls are never forced.
* `ReplanReservation`: the same, and files grow old (weak fairness of `Age`).
* `WorkerWriteQueue`: calls, drains and replans go on; minnid's timer ticks for
  ever; tickets grow old; the standing drain gets a lock that is freed infinitely
  often, and its writes do not fail for ever. The last two are strong: the
  drain retries at each tick, so they fail only if it loses the race for a free
  lock, or the disk fails, every time.
* The other modules have safety properties only. A held batch, an orphaned
  secret or a deferred surface waits for a later compile, claim or cutover that nothing forces to come, so
  there is no fairness to build on.

### Disagreements found

Two runs are ones that TLC must find violated.

In `replan_leftover` a replan dies, and two others read what it has left. The first removes
it, publishes its own reservation and runs; the second still has the verdict "dead" and
removes the file of that name (`thread-lock.ts:688`), now the reservation of the first.
The first goes on with a replan that no drain sees, where the comment says that
"kick/drain must yield while this is live" (520-526), and the next replan may join it.

In `governance_undone`, `stage_candidate` and
`handle_learn` purge what a new learning repeats inside their own transaction
(`governance.py:1336`, `394`). The purge opens a transaction on the same thread's
connection; its BEGIN IMMEDIATE fails and its handler rolls the connection back
(`db.py:319-331`). The learning is gone, its embedding and document are indexed
afterwards, and the caller is told `accepted`, where the comment at `governance.py:864` says that the row is
committed by then. If another candidate has been staged in between, it has the id of the one that was undone,
and the handler's next statements accept it (1339-1354), though it may have been declined and becomes no learning. `resolve_candidate` purges after its commit and does not have
the problem.

### Known limits of the code, seen in the models

These have no run of their own. Each was seen as a counterexample, or excluded
from a property by name, while the modules were written.

* *Lock*: a creator that stalls between `mkdir` and `owner.json`, a recovery that
  stalls or dies, and reused inodes each break exclusion. That is why `Faults`
  and the theorems' assumption name them. So does a long hold: the age of the
  directory (`thread-lock.ts:349`) is taken before `owner.json` is read (357), so a waiter that
  takes the age of a lock held longer than `staleMs` and reads the owner just after the release judges it ownerless and
  old, and renames, by path (438), the directory of the next holder ("Do not steal a live
  owner", line 15).
  The loop does not look at its deadline after a vanished lock (352) or a recovery (458), so a
  call that others overtake each time, between its `mkdir` and its `stat` or after its `rename`, is
  never told that the plan is busy ("throw `ThreadBusyError` at the bounded deadline",
  `docs/superpowers/plans/2026-08-18-thread-orchestration-phase1.md:206`). It is the exception in `EveryCallReturns`.
* *Reservation*: the verdict "old" of an unparseable file is used like the verdict "dead"
  above, also when the call that has just completed that file is alive (674). A
  replan that cannot read its reservation when it ends leaves it, and the drains
  yield to it until its process ends (707-709).
* *Queue*: dropping the leftover ticket of a finished slice prunes the receipts of
  its generation (`thread-worker.ts:2634-2641`), including that of the complete that finished it, and
  the retry of that complete is refused (against 2118-2123). A start whose receipt was
  pending when its process died is applied again if a block has been applied in
  between (2796-2808 compare the slice, which has changed), and undoes it. A ticket gets the generation
  read while it is queued (393), whatever claim its token belongs to; with a revoked
  token it counts as live work, is refused each time and never dropped (against 2629-2630). The
  complete of a reassigned slice that is in progress needs no start
  of its own (322); a replan may reserve just after a drain
  has looked; the standing drain judges the head of the queue before it has
  the lock (2354); two acceptors may exceed the capacity by one
  (`thread-write-queue.ts:506`); a complete that is refused parks the drain at the
  head of the queue.
* *Claims* (`thread-worker.ts`), the four faults. `Blind`: a claim reuses an orphaned envelope
  whose revision is stale, the note lands and the write throws a bare error; the
  reread does not recognise it, the secret of the claim that is now in the note is deleted, and the
  slice is locked until the lease ends (1815-1850). `LostScar`: a pending receipt of
  a scar is believed as soon as any mutation has advanced the revision, because a
  scar leaves the slice as it was (2796-2808); its retry is told it is done.
  `KeyReuse`: the event's key of a claim or update has no generation (859-885), so the same
  key in a later generation adds no event and the journal stays behind (against
  `thread-events.ts:139-143`). `Drop`: a slice that a restore takes out of the plan and a
  replan adds again starts at generation 0, where its old tokens and receipts still are (against
  `plan.ts:2213`). Besides: the retry of a complete that died before its clean-up
  never deletes the orphaned secret (2886); reopening a finished slice, which has no claim,
  makes no new generation, so its receipts count again.
* *Handoff*: packets are published before the row is stored (`handoff.py:426`). An acknowledgement
  between the two is answered from the files, and the store then makes the
  lease pending again (`EarlyAck` breaks `OneOutcome`). A resend whose store
  fails is hidden from the list by the old row, as its id is known (`ResendFails`
  breaks `NothingOwedIsHidden`). After a resend an await may return the outcome
  of the previous round from its outbox packet. When the rows cannot be read
  but the known ids can, and another lease is on file only, the list silently
  omits the leases it knows from the rows. Two acknowledgements of a lease that
  was never stored may both be answered.
* *Governance*: an eviction sets `superseded_by` of what it superseded to NULL
  (`durable_projection.py:309`), which reopens a learning that
  `handle_learn(supersedes)` closed; that path purges nothing either, and the sweeps and the pass
  purge nothing they evict. A candidate that is given the id of one that was undone may be accepted in its place and
then has no learning (`misled`, `governance.py:1339-1354`). Tombstones written before a rollback stay. A contradicted
  learning can never be evicted (migration 005, line 17). A death between commit and purge
  is never made up for. An index that follows its commit late does not ask
  whether the learning still lives; nor does the pass, before it evicts what a promoted
  learning repeats, and a promotion does not look again for an equal learning. The learning a contradiction makes
  has no canonical node and is not indexed. A closed document keeps an active
  learning of the same text that has no node out of the search.
* *Draft writer*: a compile that selected while an earlier batch was in
  flight may submit after it and draft the same candidate again (against
  `afm_writer.py:1670-1671`); so does one after a death between two pages, or between landing and hold
  (against 1385-1388); what a compile fails to apply itself is not held; a batch of rejections only is never
  applied; the lock stays taken when a gate refuses after it (`afm.py:855-888`); a
  candidate the judge accepted loses that verdict when the worker applies, is fenced, and
  its hold ends only when an operator resolves it; a hold whose vault copy could not be cleared
  comes back.
* *Cutover*: `swap_container_subtrees` returns its records only when all subtrees are
  swapped (`containers.py:394-406`), so after an error the earlier ones cannot be rolled back
  (`cutover.py:2595-2611`, against the docstring at `containers.py:410`). A container that is itself a link is unlinked with
  no record of it (`containers.py:478-479`, for Antigravity 179-180); its subtrees then count as
  absent before, and a rollback removes them (431-435) and reports nothing. Both are `lost`, until a cutover that succeeds converges
  the container. `wired.json` is saved from what
  was read at the beginning, so a wiring meanwhile is lost. The window between a comparison and its
  replacement, in the cutover and in the rollback, is `raced`. After a death during the restore, or between the
  removal of a container's subtrees and their return (in the cutover `containers.py:378-386`, in the rollback 415-422), surfaces may not launch (`torn`); the
  next cutover that succeeds makes it good, but not if it defers a container because its host runs. The collection reads configs,
  leases and open files at different moments, so a server started meanwhile may
  lose its payload (`strays`). Nothing keeps two cutovers apart.

## 4. What is proved

TLAPS proves these for every value of the constants: any number of callers,
processes, inodes, calls, workers, keys, tokens, revisions, deaths, replans,
acknowledgements, rounds, texts, candidates, learnings, compiles, payloads, surfaces and hosts. The
assumptions on constants are the named ones in each module, which TLC evaluates
on each run. They say what the constants are (bounds are naturals, names differ from `None` and from
each other), and one thing of the code: the newest payload has the paths the entries of a cutover name
(`CutoverAssumption`).

Every safety property of a passing run is proved. Where a proof needs more than the specification, the
theorem says so by a name: the faults of a module, or a condition on single steps (`Settled`, `Intact`). Each such name
stands for a case of the known limits in which TLC finds the property violated.

**ThreadLock** (`ThreadLockProofs`). `TypeCorrect` holds with every fault;
`Exclusion`, `NoTheft`, `SingleReaper`, `OwnRemovals` and `Refinement` assume `Timely`: none of the
five faults other than `ReadFault`. The inductive invariant is
`TypeOK /\ ClaimInv /\ RunningInv /\ UsedInv /\ StaleInv /\ ReapInv`.
`ClaimInv` says that a call between `mkdir` and `rmdir` is the creator of the
directory at the lock path, which is not old, and that `owner.json` and the inode
are what that call believes; `RunningInv` that only running processes
have calls under way. The hard case is the rename of a recovery. `StaleInv`
says what a call knows that judged a directory stale: nobody works on that
inode any more, and from the recheck on it is still what the path names.
`UsedInv` says that a remembered inode number is not given out again, and `ReapInv`
that nobody else is recovering meanwhile. Mutual exclusion alone is not
inductive, because nothing in it says that a rename meets an abandoned
directory only. `Refinement` follows from exclusion before and after a step and
from `OneMoves`: a step changes where one call stands, or takes calls out of
their `fn`, so that the lock is never passed on directly.

**ReplanReservation** (`ReplanReservationProofs`). `ReservationTypeCorrect` holds
with every fault. So do `Announcement` and `OwnRelease`, whose statements except what follows a
removal by mistake; they hold with and without hard links. The invariant says of the time before
that the file is that of the call between publication and removal (`Claimed`), that a call about to
reap has judged a complete file of a dead call or one that nobody is finishing (`Leftovers`), and
that a file does not grow old while its call is finishing it (`Young`). `Leftovers` is what makes
deaths harmless: verdicts are about calls that cannot come back, so that a reap that meets
the file it judged meets nobody's claim. `ReservationIsALock` maps the reservation to `PlanLock`, the holder being the
live author of a complete file: a step that changes it creates or completes a file where no live one was,
is the removal by the holder, or the holder's death. It assumes that no verdict is ever used on another file.

**WorkerWriteQueue** (`WorkerWriteQueueProofs`), for any actions and generations of the calls.
`QueueTypeCorrect` is `TypeOK`; that queue and receipts never hold one ticket twice, and that only what is queued is young,
needs the queue's own helper (`RemoveFirstMatch`) to be understood. `OwnGeneration` proves `OnlyItsGeneration`.
Its invariant says that whoever works under the plan
lock holds it (`HolderInv`), and that an actor about to write was checked against the generation
that still lives (`ApplyInv`). The second needs the first: what ends a generation, a
replan or a reassignment, takes the lock, so it meets nobody between check and write.
`CompleteAfterStart` proves `CompleteNeedsStart` unless a slice in progress is assigned anew to a
worker that completes it (`Settled` excludes that step). `StartInv` says that what lets a
complete through, the journal's start or the status, was written by a start or progress of this
generation, `ReadyInv` that the same is true of the complete about to be written.
`PersistedOnce` and `AcceptedKept` prove `AppliedOnce` and `AcceptedIsKept` with one invariant, `Once`: what is
about to be persisted has not been (`FreshInv`), because the receipt of what has been persisted answers any retry for as long as its
generation lives (`DoneInv`), and that of a start that has not does not look applied
(`PendingInv`). Both fail when another update of the generation follows a receipt that was left pending: it
can hide that the first was applied, or look like it. `Intact` excludes just
the failed writes after which such an update is still possible. Two corollaries have no
such condition and cover the run: `FirstCompleteAfterStart` (calls of the first generation) and
`StartThenComplete` (of two calls of a generation, one is a complete).

**ThreadClaims** (`ThreadClaimsProofs`). `ClaimsTypeCorrect` holds with every fault.
`RevokedForGood`, `ClaimUsable`, `ReceiptsTrue` and `JournalAligned` prove the four properties, and
each assumes the absence of one fault only: `Drop`, `Blind`, `LostScar`, `KeyReuse`. All four
are parts of one invariant, each conditional on its fault, since each step touches
the stores of all. `RevokedInv` is the heart: as any deletion may fail, the envelope of a revoked
token may stay for ever, so what keeps it out is that its generation is
behind the slice's and that of everything a restore can bring back. `OneEnvelope` (an
envelope has one token, and one is named once per generation and key)
makes tokens and envelopes the same thing. `UsableInv` is what a claim's clean-up
must leave. `LandedInv` and `LastInv` say that the update that last wrote the slice has its
receipt: a failed attempt of another update under the same key cannot replace it,
because the guard refuses a receipt that looks committed.

**Handoff** (`HandoffProofs`). `HandoffTypeCorrect` holds with every fault.
`OutcomeIsUnique` proves `OneOutcome` unless `EarlyAck` is among the faults.
The invariant is `TypeOK /\ Holding /\ Calm /\ Agreed`. `Agreed` says that the
row decides: whatever anybody was told, whatever a packet says and
whatever an acknowledgement past the update is about to write is the row's
status. It would not survive the store, which sets the row back to pending,
were it not for `Calm`: until the first send has returned no
acknowledgement is under way. `Holding` (a sweep about to write has read a packet that
exists) is needed for the types.
The other three follow single rounds. `OwedIsShown` proves `NothingOwedIsHidden` unless `ResendFails` is among the
faults: while nobody has begun to answer a delivered round, its inbox packet is open (`OpenInbox`) and its row waits or
was never stored (`RowWaits`), so a list that found no row for it knows no id that could suppress its file (`ListOwes`).
`FilesFollow` and `SettledStaysAway` hold with every fault. The first rests on `RowSwept`: the acknowledgement
that won the row of the newest round is dead, has each directory still to come or clean behind it, or has left
all of them clean (`SweptBy`); a send cannot undo it because its round is newer than the row (`RowRound`).
The second rests on `SettledInv`: a settled round is closed in its row or, without a row, in the inbox, and a list that
was asked for later cannot have read anything older; `FreshInv` carries this from the acknowledgement's update to its answer.

**Governance** (`GovernanceProofs`). `GovernanceTypeCorrect`, `AnswersKept`, `OneLearning`,
`SearchFollows` and `Replacement` prove all five properties of the run and assume nothing of
the environment: any likeness of texts, any failed eviction, a death at any point.
The invariant adds four parts to the type and the two state properties. A staged candidate
says something (`Phrased`); what each candidate became are learnings (`MintedType`); one accepted
in the name of another stays accepted, so that no later step makes it a learning (`MisledInv`);
and `Shown`: a document that search finds is open, and an active learning says it, or a
purge in hand will take it away, or it is one of the known stale ones. The openness is
what makes `SearchFollows` inductive: a purge takes a closed document out of the search without
asking whether a learning is active. Every action is reduced to what it does to the tables (`TablesStep`), to
the queue (`QueueStep`) and to the work in hand (`WorkStep`), because nested updates
of records are beyond the provers, and the tables change in four ways only: a row added,
rows evicted, rows closed, a document changed. Archiving needs that no row refers to an evicted one
by `contradicts_id`, which is the foreign key; `superseded_by` is set to NULL.

**AfmWriter** (`AfmWriterProofs`). `AfmTypeCorrect`, `OneOwner` and `NoDoubles` prove all three
properties of the run, with every fault. The invariant follows a batch from
selection to settlement. `FreshInv` says that a batch not yet submitted is nowhere; `WaitInv`,
that one in the queue or being written has a waiter or has been left to the worker;
`PageInv` and `LandInv`, that only a batch at hand has some of its pages but not all. The heart is
`HoldInv`: when a batch that is still to be settled is held, none is in flight, and
the copy in the vault is of that batch. It is why a completing worker, which clears the hold
whichever batch it is of, clears none that matters, and why a restart finds the right one.
`QueueInv` (nothing is queued behind a batch that is not excused) makes it inductive: a
worker that keeps its verdicts holds them while the queue is empty. `NoDoubles`
follows from `OwnInv`: at a submission whose candidates are all open, an earlier
batch with the same candidate would be unsettled, hence in some hand, and no
hand is free to hold it: not the waiter's, who would have the lock, not the worker's, not the hold.

**WireCutover** (`CutoverProofs`). `CutoverTypeCorrect`, `NoEditUndone`, `CodeStaysOnDisk`,
`RollbackComplete` and `SurfacesLaunch` assume nothing of the environment: any payloads, surfaces, hosts and writes, deaths at
any point. Three invariants carry them. For the first three, `ReadInv`: what the cutover read
of a surface it rewrote is still what the host last made of it, or somebody has touched
the surface since, so that writing the old text back can only undo an edit made in a window
between comparison and write; and `KeepInv`: while payloads are removed, what is kept has what
live servers run from. For the rollback, `RInv`: the link and both payloads it may point to are
on disk (`LinkInv`), what a container on record launched did not depend on the link (`RecordInv`), every surface
that was changed has a record, is reported, has none to be restored from, or is back (`WroteInv`),
and containers go back before files, so that what is still to be restored is never a container
(`UndoInv`). Without `UndoInv` the last step of a rollback says nothing about the surfaces
restored earlier, which later steps must leave alone; without `RecordInv` the way back of the link, which comes after the
containers, might change what they launch.
`SurfacesLaunch` proves `LaunchesWork` with the third, `WorkInv`. That a surface launches something that exists is not
inductive by far: a file may hold it in the surface, in what the cutover read and may put back, and in a host's
memory (`FileInv`, `MemoryInv`), and what an entry asks of the link depends on where the link goes. Two parts answer each other.
`LinkedInv`: where the link names an old payload, no entry asks for paths only new ones have. `FormerInv`: if it did before
the flip, no entry does that the cutover has not written itself, so that the link can go back. Between
them stands what the rollback counts before it moves the link (`AskInv`), and `RepointParts` draws the conclusion:
if the link ends at an old payload, no surface left as it is asks for more. `DeltaInv` makes restoring harmless: a
surface is only rewritten when it did not ask for the new paths. `AsideInv` accounts for the containers: one that is missing is being
swapped or put back, or its cutover died, or it has no record. The proof corrected the history variable `torn`: a cutover that defers a
container, as its host runs, does not make good what an earlier one left aside.

**Only model-checked.** All liveness (`EveryCallReturns`, `DeadOwnerIsRecovered`,
`DrainsGoOn`, `TicketsSettle`): the prover does not reason
about fairness. `SingleReaper` and `ReservationIsALock` are the other way round: proved, and
checked by no run.

## 5. Plan

The order is that of what is lost when the code goes wrong: first the protocols
several processes share, then the daemon's own.

Done: the modules above. Left, in this order:

1. `ThreadClaims` composed with `WorkerWriteQueue`, where a claim is a generation so far.
2. `ThreadJournal` (`thread-events.ts`: format, rotation, the line that landed and then reported failure)
   and the notification relay: order and at-least-once delivery.
3. `InboxPasses` (`afm_passes/`): renames between ingest, quarantine and archive.
4. `VectorSync` (`vector_sync.py`, `faiss_persist.py`), the graph's commit fence, recall
   arming and the counter ledger of the hooks.

Runs to come keep the sizes of those above: two or three actors, one resource,
one death. Runs that show a finding give way to runs of new modules
where the total would take too long; their findings then stand among the known limits.

Not planned: command line, console, evaluation, health reports, text chunking,
parsing, prompts and ranking, which keep no state of their own that several steps must agree
on, or are numeric and textual through and through. They are most of the
repository's lines (retrieval, recall, candidate repair, fleet propagation, the
command line and the console), so that the share of lines a model of the system can
stand for stays small however far the plan is carried.
