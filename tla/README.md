# Verification of amauta

TLA+ models of the parts of this repository that keep shared or persistent state, model-checked by TLC
on small instances, and theorems about them proved by TLAPS for every size.

To check one run: `tlc -config <cfg> <module>`, with the files of the table under "Runs". To check the
proofs: `tlapm <module>_proofs.tla`.

## The system

amauta is a task manager for teams of coding agents, with memory, retrieval, messaging, workflows and a
module system around it. Agents are separate processes. They run the command line `amauta.py`, or talk
to the daemon (`amauta-daemon.py`) over HTTP, whose handlers run in threads of their own and call the
stores (PostgreSQL, SQLite, Valkey, files).

| Component | State it keeps | Operations | Interacts with | What is hard | What makes it correct |
|---|---|---|---|---|---|
| Task engine, `amauta.py` | tasks and archive | add, link, claim, rpetd, status, validate, atomize, archive, ... | agents and the daemon run it | commands of many agents in any order; a kill between two writes; ids given out again | no dangling reference and no cycle, one owner of a claim, evidence before validation and done, escalation after three failures, every task settles |
| Task files, `amauta.py` | `tasks.json`, its copy, `tasks-archive.json`, a lock file | load, save, archive, import, show | every command | kills and failed writes between three files; readers without the lock | what was stored is found |
| Stale-task watchdog, thread of the daemon | list of a pass | force stale items back to pending | the engine as a subprocess | it acts on a file it read minutes earlier | abandoned work is given back, work in progress is not |
| Task mirror, daemon and `pg_store.py` | rows of `gsd_tasks`, retry file | upsert, delete, flush, reconcile, restart | HTTP handlers, flusher thread, PostgreSQL | no lock at all; lost and reordered upserts | the rows end up equal to the file |
| Service watchdogs, threads of the daemon | restart counters, process handle, Redis client | start, restart, back off, cool down, shut down | RLM subprocess, its port, Redis | budgets, slow starts, foreign processes, orphans | a service comes back; no live process is let go |
| Code index, `rlm-service.py`, `rlm_*.py` | rows of `rlm_chunks`, dependency graph in Valkey | ingest, rebuild, expire | threads of the service, the edited files | slow requests overwrite newer ones | rows and graph become those of the file |
| Memory and backups, `pg_store.py`, `sqlite_store.py`, `memory_classifier.py`, `gsd-memory.cjs`, `backup.py` | `gsd_memory`, its archive, backup files | store, classify, supersede, cite, distill, retire, delete, backup, restore | any number of callers | commands of several transactions, cut off anywhere | nothing told stored is forgotten; citations counted once |
| Context hand-off, `context_validator.py`, `file_state_utils.py` | rows of `rpetd_context` | compact, validate, refresh | git, agents that edit and commit | hashes, git and the stored commit are read at different times | a context says what the files were at its commit |
| Ranking, `rlm_search.py`, `skill_invocation_store.py` | none | fuse two rankings | PostgreSQL, embeddings | rows one ranking lacks, ties, cuts, fallbacks | better by both is never behind |
| A2A client and breaker, `a2a_*.py` | rows of `a2a_messages`, three Valkey keys with expiry | send, await, respond, retry, record | agents | read and write back without atomicity; locks that expire | an open breaker closes once the target answers; old failures count no more |
| Steps, `step-orchestrator.py`, `complexity_scorer.py`, the workflow steps | `step_handoffs`, `task_completions` | score, calibrate, override, select, hand over, roll back, escalate | daemon, agents that follow the steps | races of sessions, lost requests, escalated copies of old rows | no step is skipped, the validator's least of all; the workflow closes |
| Party sessions, `party_session.py` | one row per session, findings | start, pause, resume, terminate, kill, post | PostgreSQL row locks | operators and agents at once | a resume returns every finding; a session is killed once |
| Audit loop, daemon, `gsd-tools.cjs` | `agent_findings`, messages | file, route, re-audit, clear, reopen | fix tasks | duplicates, stale routing, fixes that miss | no defect goes unreported, findings settle |
| Capability audit, `capability_access.py` | `gsd_audit_log`, a buffer file | decide, log, buffer, replay | threads and processes without a lock | two of them rewrite the buffer | every access is recorded |
| Module lifecycle, `module_lifecycle.py` | files, service stubs, install records | install, upgrade, uninstall, roll back | file system, record store | any step may fail or be cut off | what fails is taken back; what is reported done is done |
| Module resolver, `module_resolver.py` | none, but the stack and sets of its loops | resolve | lifecycle | cycles, ranges that meet or not | accepts exactly what can be installed |

The other components (hooks, planning CLI, MCP servers, schemas, caches, installers, ...) are in
`PROJECT.json` with the reason each is not modelled. There, too, every definition has the lines it
stands for, and every hazard the properties that would show it.

## Modules

| Module | Models | Uses |
|---|---|---|
| `TaskBoard` | the task engine | |
| `TaskFile` | the files under it | |
| `StaleWatchdog` | the watchdog thread composed with the engine | `TaskBoard` |
| `TaskMirror` | handlers, flusher, restart and reconcile over file, rows and retry file | |
| `DaemonServices` | the main thread of the daemon, its two service watchdogs, RLM processes and Redis | |
| `CodeIndex` | requests of the RLM service over one file | |
| `MemoryStore`, `MemoryBackup` | the memory table; backups of it composed with its callers | `MemoryBackup` extends `MemoryStore` |
| `ContextFreshness` | compaction and validation requests beside edits and commits | |
| `Retrieval` | both rank fusions, as operators and one search | |
| `A2ABreaker`, `A2AClient` | the breaker's commands on its keys; the client composed with them | `A2AClient` extends `A2ABreaker` |
| `StepScoring`, `StepWalk`, `StepWorkflow` | scoring and selection as operators; the orchestrator in one process; sessions on the sharded workflow | the two machines extend `StepScoring` |
| `StepLadder` | abstract specification of handing over steps in order | implemented by `StepWorkflow` |
| `PartySession` | one session, its operators and agents | |
| `AuditLoop` | findings about one rule in one file | |
| `CapabilityAudit` | handlers, log and buffer file | |
| `ModuleLifecycle`, `ModuleResolver` | the step engines and the rollback; the resolver, its two loops step by step | |
| `TaskBoard_proofs`, `TaskLife_proofs` | theorems about the engine; about an item's life | `TaskBoard`; also `StaleWatchdog` |
| `TaskFile_proofs`, `Daemon_proofs`, `A2AClient_proofs`, `ModuleLifecycle_proofs` | theorems | `TaskFile`; `DaemonServices`; `A2AClient`; `ModuleLifecycle`, `ModuleResolver` |
| `Knowledge_proofs`, `Collaboration_proofs` | theorems | `MCMemoryStore` with `MemoryBackup`, `ContextFreshness`, `Retrieval`; `MCCollaboration` with `StepWalk`, `StepWorkflow`, `PartySession`, `AuditLoop`, `A2AClient_proofs` |
| `MC...` | instances | see "Instances of several components" |

Some correspondences that the comments in the modules do not spell out:

*TaskBoard.* `items` and `archive` are functions from ids to items. A command loads, decides and saves under the
exclusive lock of `_file_lock`, so it is one action with the code's early returns as guards. The two commands
that write twice have an action for the process killed in between (`ArchiveKilled`, `AtomizeKilled`); the
daemon's subprocess time limit makes such kills an everyday event. An id is a kind and a serial number, and the
next serial is one above the largest that is still active, as in `_next_id`, so archived ids are given out
again. Parents and children hold ids; dependencies hold references (`Ref`), an id with the spelling it was typed
in, because `_find` looks an id up whatever its case while `--deps`, `link` and `delete` store and compare what
was typed. An owner alone does not decide the gates: `traits` are what tags and texts say to
`_needs_gitflow_gate` and `_is_infra_host_only`. The five RPETD phases become the set of evidence the gates look
for; `Rpetd` adds any set out of `Writings`. Time appears where a guard reads it. `--force` and `--force-reason`
are one flag, drawn from `Overrides`; `Commands` says which commands an instance uses.

*TaskFile.* The same commands seen from below: the lock, the load with its fallback to the copy, the save of
the archive, the copy to `tasks.json.bak`, the replacement of `tasks.json`, and the answer are steps, and a
process may be killed or a write may fail between any two. What is saved is any set of tasks. A file is
damaged only while no command holds the lock.

*StaleWatchdog.* `Scan` reads the file once, without the lock; `Revert` runs `status <id> pending --force` for
one of the list; `RevertLost` is the subprocess that fails. Between two of these any command may run.

*TaskMirror.* The content of a task is the number of the write that made it. A handler goes through its
mirror section one step at a time; the retry file is read and replaced without a lock; the flusher saves its
failures over what was enqueued meanwhile; `RunUnmirrored` is a write that no handler mirrors.

*DaemonServices.* `_start_rlm` is called by the main thread and by the watchdog thread, so `start` is a place
per thread. A process is booting, up, hung or dead; it survives the daemon; a closed port stays busy for a
while (`Closing`). SIGKILL leaves everything but the threads behind.

*CodeIndex.* A chunk is the set of symbols it calls and a file's hash is its version. The staleness check
looks at any one row, ingestion never deletes rows, a rebuild writes the graph key by key.

*ContextFreshness.* A commit is the version of each file. `Named` are the files tracked under the path that
`git diff --name-only` prints; of the others, and of the old path of a rename (`renamed` in `Diff`), the
comparison by strings sees no change.

*MemoryStore.* A transaction is a step and a command several; the classifier's verdict is any of those it may
return, and all rows are similar to one another. The text of a row is the set of facts it states. A
distillation reads its list page by page (`NextPage`), newest first and by offset, while others store and
delete; a row that it reads twice has its citations twice. The text of the merged row states any part of what its
group states, because it is a summary, or cut to 200 characters an entry and 4000 in all; what it leaves out
becomes `dropped` when the row is stored.

*StepWorkflow.* The router and the steps are prose that an agent follows; they are modelled from the calls they
make to the daemon. `step_handoffs` is append-only but only its latest row is read. No answer from the
daemon reads as no handoff, hence a fresh start.

*PartySession.* `SELECT ... FOR UPDATE`, the update and the commit are steps; posting takes the share lock of
the foreign key.

*A2ABreaker.* Every command on a key is a step, so callers interleave between reading the state and writing
it back, fail between any two of them, or die. Ages stop at the value that matters. `recent` is history: the
failures of the last window, and those whose EXPIRE never came.

*AuditLoop.* The findings that `findings-to-plan` reads have no `dedup_key`, so it never finds one that an open task
carries: `CreateTasks` adds a task for each in every run, and `verdicts` are what the re-audits of these tasks saw
before their close loops patch the finding.

*ModuleLifecycle.* Steps that write are actions, copying file by file. Each has an action that fails with the
possible halves of its write. `UndoOf` is the list of `_run_rollback`; `Undo` takes the next inverse,
`UndoFails` leaves part of it; `Killed` ends the command anywhere.

*ModuleResolver.* What `resolve` collects before it looks at the graph (duplicates, missing modules, ranges) are
operators. `_detect_cycle` is a machine: `path` is the list of that name, whose members are the set
`in_progress`, and `left` says for each of them what its loop has still to follow; a call of `dfs` is `Descend`,
its three ways to return are `Skip`, `CloseCycle` and `Return`. In `_topo_sort` a module is ready when its
in-degree is 0, that is when all it requires is in the result.

### Instances of several components

`MCDaemon`, `MCCollaboration`, `MCMemoryStore`, `MCModuleLifecycle` and `MCTaskStructure` each instantiate
several components that share no state. A constant variable (`part`, `side`) picks the one that moves in a
behaviour while the others keep their initial state, so the states are the sum of those of the parts
and not their product, and every property is checked on every behaviour of its part. Components that do
share state are composed for real: `StaleWatchdog` with `TaskBoard`, `MemoryBackup` with `MemoryStore`,
`A2AClient` with `A2ABreaker`.

## Runs

| Run | Module and configuration | Question and answer |
|---|---|---|
| task_structure | `MCTaskStructure`, `TaskBoard_structure.cfg` | three tasks through add, link, unlink, delete and archive: no cycle among ids given out once and spelled as issued (`FreshDepsAcyclic`); an epic and two tasks with atomize and kills: children and parents agree (`FamilyLinked`), the archive is final (`ArchiveIsFinal`); the files: a stored task is found by every show (`ShowFinds`) |
| task_lifecycle | `MCTaskBoard`, `TaskBoard_lifecycle.cfg` | claim, rpetd, status, validate, assign and update by three agents without overrides: `TypeOK`, `NoUnprovenWork`, `EscalationEarned` |
| task_retry | `MCTaskBoard`, `TaskBoard_retry.cfg` | when agents take what `next` offers them, every item ends done, escalated, or as one that `next` leaves where it is: deferred, without an owner, blocked, or behind the validator's own work (`EveryTaskSettles`), and done comes after the dependencies (`DoneAfterDeps`) |
| watchdog_returns_work | `MCStaleWatchdog`, `StaleWatchdog_returns.cfg` | with overrides, lost subprocesses and restarts: `AbandonedWorkReturns`, and claims stay exclusive (`ClaimIsExclusive`) |
| daemon_keeps_up | `MCDaemon`, `Daemon_pass.cfg` | mirror: one entry a task in the retry file (`DaemonTypeOK`), `RowsHeal`, `ArchivedRowsLeave`; index: `IndexHeals`; services: `HandleKept`, `RlmReturns`, `RedisReturns` |
| memory_kept | `MCMemoryStore`, `MemoryStore_pass.cfg` | memory with backups and restores: `FactsKept`, `CountsHonest`; contexts: `HandoffExact`; searches: `BetterRanksFirst` |
| collaboration | `MCCollaboration`, `Collaboration_pass.cfg` | steps: `ValidatorFloor`, `CautionAdds`, `ClimbsLadder` (refinement), `WorkflowCloses`; sessions: `ReplayComplete`, `KilledOnce`; audit: `DefectReported`, `FindingsSettle`; A2A: `TargetReconnects`, `OldFailuresForgotten` |
| module_lifecycle | `MCModuleLifecycle`, `ModuleLifecycle_pass.cfg` | `FreshInstallUndone`, `FailedUpgradeRestores`, `PassMeansDone`, `RerunHeals`, and the resolver: `ResolverExact` |
| reissued_id_cycle | `MCTaskBoard`, `TaskBoard_reissued_cycle.cfg` | violated: an id given out again closes a dependency cycle |
| watchdog_reverts_active | `MCStaleWatchdog`, `StaleWatchdog_active.cfg` | violated: an item with fresh RPETD activity is sent back |
| access_recorded | `MCCapabilityAudit`, `CapabilityAudit_recorded.cfg` | violated: replaying the buffer drops what another thread has just appended |
| backup_recovers | `TaskFile`, `TaskFile_backup.cfg` | violated: the next save copies a damaged `tasks.json` over the only readable copy |

The violated properties quote what the code, a comment or a test says; the findings in `PROJECT.json` give
both places.

### Bounds

- *Tasks*: three ids for dependencies, because a cycle through an intermediate item needs three, and a reuse
  needs an archived item and one that depends on it; one epic and two tasks for two subtasks of one
  atomize, a kill after the first, and deletion of either end of a link. `MaxFailures = 4` lets an escalated
  item fail again. `MaxDeps` is every subset in task_structure and 1 in task_retry. `Writings` adds all
  evidence at once, or test evidence first. The theorems remove these bounds from the safety properties.
- *Files*: two processes, two tasks, two mishaps (damage, kill or failed write): one that breaks a file
  and one that meets its recovery.
- *Mirror*: two tasks, one handler, two writes, and a retry file of one entry (1000 in the code), so that it
  overflows at once. Two handlers were checked by hand.
- *Services*: two processes, so that an orphan meets a new one, one foreign process, a budget of two (three in
  the code) so that budget, cooldown and recovery are all reached.
- *Index*: two versions of a file, one of which drops a symbol and a call, and two requests.
- *Memory*: one writer, one distiller, two facts of which one may be retired, three ids, one citation, one
  backup: a row, its rival and their merger. A page is one row, so that every list has a seam where a row can be
  stored or deleted. In the part with backups nothing is cited and nothing else happens between two pages.
  The theorems remove these bounds.
- *Contexts*: three phases, two files, one of them under the path git prints, two edits, two commits, two
  requests: a context handed on twice.
- *Searches*: every assignment of three scores, two places and two lines to three rows, with cuts after two.
- *Steps*: plans of 4 and 24 files, whose raw scores lie on both sides of a bucket that calibration moves them over;
  two sessions, and two faults out of crashes, outages, failed steps and escalations. Escalations count
  as faults: two sessions whose reports diverge for ever can keep each other from closing.
- *Sessions*: two operators and two agents. *Audit*: two auditors, two rows, at
  most one of them information, at most two open tasks of a finding, so that close loops overlap.
- *A2A*: two callers, threshold 2, window, open time and timeout of 2 units, probe lock of 1, so that the lock
  expires before the request (5 s and 30 s in the code).
- *Modules*: one module in three versions; every file absent or foreign at first. *Resolver*: every
  graph of three modules that require each other, themselves or a missing one, and every pair of ranges over
  small versions.

Deadlock is not checked: where a bound on ids, writes, faults or requests is reached the bounded model may
stop, and an engine nobody calls does nothing.

### Fairness

- `task_retry`: every agent polls `next` and takes what it prints (`Answers`): it claims a pending or failed item of
  its own, and the validator passes or fails one under validation (either will do). Which of the items on offer
  comes first depends on scores the model does not have, so an agent is sure to get on only when it can answer
  whichever does. The holder of an item writes the missing evidence and submits it (`Writes`, `Submits`), and a
  cooldown runs out by the clock. Nobody is assumed to split, assign, release or override anything, so what `next`
  offers to nobody stays (`LeftByNext`).
- `watchdog_returns_work`: the thread loops, so `Scan` is weakly fair. A subprocess may time out and the
  daemon be restarted, but not each time at the same item's turn, so `Revert` is strongly fair.
- `daemon_keeps_up`: each property names what it needs as its antecedent. Mirror (`Steady`): PostgreSQL stays
  up in the end, the daemon is restarted while a restart changes anything, not every flush is cut
  off; without it rows can stay stale for ever, since only a restart or a reconcile repairs a dropped upsert.
  Index: edits end, Valkey stays, forced reindexing and some rebuild complete again and again. Services: the
  threads loop, sockets are let go, a started process binds the port unless it is taken each time, and faults
  end.
- `collaboration`: sessions go on with their steps and operators start the workflow again until it is closed;
  audits recur, `findings-to-plan` is run again and again, now and then below its thresholds, fix tasks get done and
  their close loop is run with the finding's id; callers go on with what they have begun,
  time passes, and some caller keeps sending (strong fairness, because the breaker refuses now and then).
- `module_lifecycle`: the antecedent of `RerunHeals` is an operator who reruns `install --force` without new
  faults.

## Proofs

All theorems hold for every value of the constants, under the named assumptions of the modules, which TLC
evaluates in the runs. These say what kind of value a constant has, that callers and processes are finitely many
(so are the tasks of the mirror), and that names such as `None`, `Missing` or `Torn` stand for nothing else
(`NoneAssumption`, `NoRecordAssumption`, `FilesAssumption`, `ServicesAssumption`). `ManifestsAssumption` alone
says more: the agents and the skills of a manifest are different files. Where a theorem has a hypothesis of its
own it is named below.

*Task engine* (`TaskBoard_proofs`). `TypeCorrect`: `TypeOK` is inductive; one lemma for each way an item is
changed, one step per action. `FamilyCorrect`, `DependenciesKnown`, `DependenciesAcyclic`, `ArchiveFinal`: most
actions leave parents, children and dependencies alone (`SameGraph`), the others are taken one by one.
`FreshDepsAcyclic` is inductive only together with `DepsKnown`: a new item must not be named by anyone, which
holds for an id never given out because no dependency dangles. The heart is `LinkStep`. Acyclicity is stated
without paths: no nonempty set of items in which each waits for another of the set; if the edge from i to d made
such a set, what d reaches would hold i, which is what `Reaches` refuses. It says nothing of ids given out
twice; the violated run shows why. `DependenciesAcyclic` has the hypothesis `Spellings = {AsIssued}`, and
`DependenciesKnown` speaks of the references spelled as issued, whatever others are in use: with a variant of an
id both fail in the code (see Remarks). `FamilyCorrect` is about the children lists: a parent field may
name an archived item.

*An item's life* (`TaskLife_proofs`). `ClaimExclusive` needs `TypeOK` only. `ProvenWork` and `EscalationsEarned`
assume `Unforced` (no overrides, no raw update, no forged initial status), as their run does, and need the
strengthening `AllEarned`: evidence and failures are gathered before they are needed. `DoneWaitsForDeps` assumes
`Checked` (no overrides, no raw update): every action is shown to turn no item done (`NoneTurned`) or only one
whose dependencies are met, the correction of `cmd_validate` excepted.

*Watchdog* (`TaskLife_proofs`). `WatchdogIsAnOperator` is a refinement: engine and watchdog together implement the
engine alone, because a revert is `status <id> pending --force`, whatever the pass has read. So every theorem
about the engine holds beside it, provided operators may use `--force`. Where they may not, the watchdog's
steps are new, and `WatchdogKeepsEvidence` and `WatchdogKeepsClaims` take them one by one.

*Files* (`TaskFile_proofs`): `StoredIsFound`. The invariant says that whoever is past its load holds the lock, so
what it is about to save covers every stored task together with the archive (`Covered`), and that a show
that did not find a task in `tasks.json` looks into an archive that has it by then (`Carries`).

*Services* (`Daemon_proofs`): `HandleNeverLost`. `OneStarter` says why two threads may share `_start_rlm`: the
main thread starts RLM before there is a watchdog, and the watchdog starts it only after it has let go of a
process it has stopped.

*Mirror* (`Daemon_proofs`): `MirrorTypes`. The retry file holds at most `RETRY_QUEUE_MAX` entries and one for each
task, whoever writes it over whom. This needs `PassFits`: what failed in a pass of the flusher and what is left
of it are together such a file, so the failures may replace it. What filtering and enqueueing one entry after
the other return (`WithoutIs`, `EnqueuedAllIs`) is a recursion over a sequence: that it has a solution
(`RecursionSolved`) and what holds along it (`UpTo`) is proved by taking a smallest counterexample.

*Index* (`Daemon_proofs`): `IndexTypes` and `RowsComeFromTheFile`. The keys that a rebuild has left are keys of the
graph it built (`LeftIsBuilt`), and a row has the chunk that some version of the file has there, though its
hash may be of another one: the file is read twice. `DaemonTypes` puts mirror, index and services together.

*Memory* (`Knowledge_proofs`): `NothingForgotten`, with backups and restores between any two transactions. The
invariant of a distillation: its merged row and what its text leaves out (`lost`) hold the facts of its group
until it is stored; then all facts of the group are `Safe`, on a distilled row, in the archive, or dropped.
Distilled rows are never distilled again nor retired, so nothing but an operator takes a safe fact. An id has
the same facts and kind in table and file (`Agrees`), so that a restore brings back what it names. `Grows` says
what every step does to the tables, so that each transaction is compared with it once.

`CitedOnce` is about sums. `CountsHonest` is not inductive: two rows may each be honest and their merger not.
The invariant is `Counted`: the counts of *any* set of rows that may still be distilled add up to no more than
what was cited. A merged row carries the sum of its group, and the rest is bounded because the group is a set of
such rows, each read once. That no page repeats a row is an invariant of the listing: as long as nothing is
stored between two pages (`shifted`), a row that was read has fewer newer ones than the offset. The sums are
folds over finite sets; the lemmas about them (`SumsExist`, `SumsCompare`, `SumsShrink`, `CarriedIsSum`) are
proved by a smallest counterexample as well (`Least`), since induction schemes cannot be cited.

*Contexts* (`Knowledge_proofs`): `HandoffsAreExact`. For the request under way: what it has hashed or kept is
what the files under the paths git prints were at the commit it will store, as long as nothing moved.

*Steps* (`Collaboration_proofs`): `WorkflowClimbs` is the refinement of `StepLadder` under
`reached <- Reached, climbing <- at`. The invariant is `HandedOverInOrder`: the steps handed over are the first
few and a session is at most one above them. It is inductive with `RowOK`: the latest row, and each row an
escalation has read, is of a step that was handed over, so that appending an old copy does no harm. The
orchestrator in one process has `WalkTypes`, `ValidatorAlwaysRuns` and `CautionOnlyAdds`: a step before
the current one was visited or could be skipped, in the walk and in the saved row a resume will read; the steps
that always run can never be skipped; and the phases selected grow with the score, so that an escalation keeps what
the stored score selects (and, from the second on, what the first has set).

*Sessions* (`Collaboration_proofs`): `PartyTypes`, `ReplayIsComplete` and `KilledAtMostOnce`. The invariant is the
exclusion of the row lock and the key lock, with what each place implies for the status: whoever holds the
lock saw the status that is still there, so only one kill finds the session alive.

*A2A* (`A2AClient_proofs`): `FailuresForgotten`. A counter with an expiry runs out before its latest failure is
a window old; one without an expiry holds no more failures than there are callers between INCR and EXPIRE and
failures whose EXPIRE was lost. The second part is what makes the property inductive: INCR after the key has
expired makes a counter that has none for a while.

*Modules* (`ModuleLifecycle_proofs`): `UndoneInstallLeavesNothing`, `FailedUpgradeIsUndone` and
`PassedCommandHasDone` rest on `LifecycleInv`: whatever a running command has written is known to a step whose
inverse is still to run, or to one reported as stuck, but for the file whose copy broke off
(`InstallTraced`, `UpgradeTraced`); what has been done so far is in place (`InstallDone`); and the list of
inverses holds only steps of the command that runs (`Bounded`).

*Resolver* (`ModuleLifecycle_proofs`). `ResolverIsExact` has three parts. Ranges: a half-open interval of versions
holds just what the range means (`ContainsIsInRange`), and two ranges that hold one version overlap
(`SharedVersionOverlaps`), so the checks of `resolve` refuse nothing that the modules at hand satisfy
(`CleanIsSatisfied`). Cycles: the modules in progress form a path, what was followed from one of them leads to
modules done with or to the next of the path (`InProgress`), and no set of modules done with is one in which
each requires another (`DoneWith`); so a search that ends without a cycle leaves none, and one that meets its
own path has found one. Order: each module comes once and after all it requires; if none is ready and some are
left, these require each other, which the search has excluded. `ResolverHalts` is the termination of both loops,
stated as an action property: of five finite sets of work each step shrinks one and grows none.

*Searches* (`Knowledge_proofs`): `BetterIsAhead`. A row that scores more in a ranking has the smaller rank and is
not cut off before the other (`RanksFollowScores`, `CutsFollowScores`), whatever the ties. The reciprocal of a
smaller rank is the greater fraction, and the sum of two is (`PlusGrows`); fractions are compared by products,
so there is no division. Decay keeps the lead of a row that begins no later (`DecayKeepsLead`). An answer is the
beginning of an order of all candidates (`BestRows`), and `BestIsSound` puts this together, once for every
kind of answer.

*Types* of what TLC instantiates together: `KnowledgeTypes` (rows, distillations, backups, contexts, searches)
and `CollaborationTypes`. One bound in them is not obvious: a row of the workflow carries at most four
escalation flags, because an escalation is refused from two on and no report has more than three triggers
(`ThreeFire`).

Checked by TLC and not proved: every liveness property (`EveryTaskSettles`, `AbandonedWorkReturns`, `RowsHeal`,
`ArchivedRowsLeave`, `IndexHeals`, `RlmReturns`, `RedisReturns`, `WorkflowCloses`, `DefectReported`,
`FindingsSettle`, `TargetReconnects`, `RerunHeals`), for fairness and ENABLED are out of the prover's reach, and
the runs that expect a violation.

## Not modelled

- *Texts and scores*: titles, descriptions, similarity, embeddings, chunkers, compression, routing of models,
  schemas and hydration are data without a protocol.
- *Pure I/O and adapters*: MCP servers, HTTP parsing, client wrappers, doctor, telemetry, detection, registry
  and URL installer, set-up, scripts, CI.
- *Planning CLI*: Markdown edited by regular expressions under one user. Removing a phase renames the later
  ones inside a try that swallows errors (`phase.cjs:514`).
- *Hooks*: scripts that read one marker file. It is read, merged and replaced without a lock
  (`hook-state.cjs:108`), so of two sessions that claim at once one loses its entry.
- *Parts of modelled components*: migrate, refs, risk, sprint, pin-phases and title similarity of the engine;
  dry runs, two module commands at once and a record store that changes its backend in between; the knowledge
  base and its promotion; `audit_diff`; searching in the index. SQLite is modelled as a memory store, and for
  the mirror only as the store whose rows these are not.

## Remarks

Differences between code and documentation, and weaknesses, that were met while modelling and have no run of
their own.

Task engine and files
- The third `validate --fail` with `--subtasks` leaves the task deferred instead of escalated
  (`amauta.py:4852`; compare the comment at 4782).
- `archive` skips an id the archive already holds and removes the active item all the same
  (`amauta.py:5453`), so the second item of a reissued id is lost.
- Self-validation is refused by `validate` only (`amauta.py:4471`): claim, fail, claim again and `status done`
  pass it.
- The policy correction of `validate --fail` marks an item done without looking at its dependencies
  (`amauta.py:4732`); `DoneAfterDeps` names it as the one exception.
- Assigning a code item to an owner who is not one passes by its gitflow gates (`amauta.py:3384`).
- `cmd_atomize` creates tasks, and a task may not have task children, so tasks and bugs can never be split; the
  docstring at `amauta.py:4140` offers it.
- Ids are looked up whatever their case (`amauta.py:1325`), but stored and compared as typed: after `link TK-0001
  TK-0002`, `link tk-0002 TK-0001` passes the cycle check (5579) and both wait for each other; a dependency on
  `tk-0001` survives the deletion of TK-0001 (3749) and counts as met. The properties of dependencies are about ids
  spelled as issued.
- `next` offers a deferred item, or one without an owner, to nobody (`amauta.py:3773`), so that what `validate --fail
  --subtasks` has deferred waits for a command of the operator.
- An archive that is not JSON reads as empty, and the next `archive` overwrites it (`amauta.py:359`).

Watchdog and mirror
- The watchdog forces the status of an item it saw stale before, wherever it has moved since
  (`amauta-daemon.py:933`).
- The handler looks for ids in the output of `archive`, which prints none, so no row is deleted
  (`amauta-daemon.py:2668`). A delete that failed while PostgreSQL was down is not retried; reconcile only
  reports a row that is neither active nor archived (`pg_store.py:2011`).
- The flusher's save drops what was enqueued during its pass (`pg_store.py:2094`); a restart repairs it.

Index, retrieval and contexts
- `is_stale` looks at any one row (`rlm_ingestion.py:64` says any rows). Rows of removed symbols are never
  deleted; symbols whose callers vanish keep old dependents; the graph is keyed by bare symbol names.
- `hybrid_search_generic`'s text-only fallback filters by `c.file_path` without the alias `c`, so it answers
  nothing when there is a file filter (`FilteredFallback`). A row absent from a ranking ranks after the
  candidates in SQL but contributes nothing in Python. Decay only reorders after the cut.
- The comparison with `git diff --name-only` is by strings (`context_validator.py:120`): a tracked path that is
  absolute, from a directory below the root or quoted by git never matches, and of a rename only the new path is
  printed; the old hash is then passed on as current. `HandoffExact` speaks of the other files.
- A commit between hashing and `rev-parse` makes the stored commit newer than the hashes
  (`context_validator.py:92`); `HandoffExact` excludes such requests. Edits that are not committed are
  invisible to the comparison. The commit is taken in the daemon's directory, not the project's. A failed
  description keeps the old text beside the new hash.

Memory and backups
- `restore` in replace mode in the middle of a distillation loses facts (`backup.py:157`); the model counts what
  the replaced rows said and the file does not hold as dropped by the operator. An import drops `invalid_at` and
  `applied_count`; a bad row aborts a whole import in PostgreSQL; a backup whose export failed silently is kept
  as valid.
- A plain UPDATE closes its target and inserts in two transactions; concurrent UPDATEs both insert. A citation
  between the list and the delete of a distillation is lost; two distillers at once double the rows.
- The merged text of a distillation may leave facts out: without a model each entry but the longest is cut to 200
  characters and the whole to 4000 (`gsd-memory.cjs:2577`), a summary keeps what it keeps, and the originals are
  deleted all the same.
- The list of a distillation is read by offset, newest first, and not deduplicated by id (`gsd-memory.cjs:2469`,
  `pg_store.py:1279`): a row stored between two pages makes the next page repeat one, whose citations are then
  counted twice (2640), or which is merged with itself. `CountsHonest` excepts the rows made from such a list.
- What SQLite took while PostgreSQL was away is never copied back.
- `skb-promote` cannot succeed on the shipped schema: it stores `promoted_from:` and a memory id, 30 characters
  (`gsd-memory.cjs:1601`), in a column of 16 (`migrations/001-init.sql:51`), and the SQLite store has no such
  routes. A model of promotion beside removal would check states the program cannot reach, so there is none.

Collaboration
- Handoffs race, and only the latest row is read. Steps after the first write no score, phases, features or
  escalation flags, so the cap of two escalations has no effect across steps, and the completion records an
  empty selection (`step-06-close.md:53`). The router ignores the chosen phases (`step-04-verify.md:139`).
- The first step stores the raw score (`step-01-prepare.md:132`, `amauta-daemon.py:3629`) beside phases that
  come from the calibrated one (3598), and an escalation selects anew from the stored score plus 20
  (`complexity_scorer.py:593`): a raw 36 calibrated to 61 has D, and its first escalation, to 56, drops it.
  SCALE-04 asks for additional phases (`.planning/milestones/v3.1-REQUIREMENTS.md:24`). `CautionAdds` says what
  remains true.
- `get_next_step` and `rollback` of the orchestrator are called by its tests only; a distance of 0.0 reads as
  1.0 in `_load_similar_completions`.
- `start` also goes from paused to active and leaves `paused_at` set (`party_session.py:359`); a created session
  cannot be terminated; a kill is two transactions; posts to a terminated session are accepted.
- `dedup_key` has no unique index (`migrations/027-audit-findings.sql:42`), so concurrent auditors file
  duplicates. `audit-close-loop` without a finding id prints cleared although it patches nothing.
- The sweep does not return `dedup_key` (`amauta-daemon.py:2114`), so `findings-to-plan` tags its tasks by rule and
  position (`gsd-tools.cjs:2975`), the deduplication against open tasks (4032) never applies, and each run makes the
  tasks once more. It returns the newest 200 only. Findings of severity info, and those of a domain over its
  thresholds, get no task; they stay open until the operator does something. `AuditLoop` has neither the limit nor
  the `--findings-file` input.
- A failing EXPIRE, or a death after INCR, leaves the failure counter without expiry until the next failure
  (`a2a_breaker.py:146`): an old failure then counts with a new one. `OldFailuresForgotten` bounds how many.
- The breaker is inert as shipped: nothing sets the client it asks for. The retry path skips the breaker on its
  first attempt, writes a row of kind retried whose answer goes to "unknown", and nothing raises the timeout
  it waits for (`a2a_client.py:700`). `get_state` writes back what it read; the probe lock (5 s) expires before a
  request does (30 s); failures of PostgreSQL count against the target.
- A line of the capability buffer that cannot be logged blocks the replay for ever; concurrent replays
  duplicate lines.

Modules
- `install` without `--force` over an installed version removes that version's stub while it reports a clean
  rollback (`module_lifecycle.py:647`).
- No module migration reaches the database: `install` calls `pg_store._get_conn`, which is not there, and fails
  (`module_lifecycle.py:347`); `upgrade` records the migration as applied (767); `uninstall` looks for the DOWN
  file in the working directory (1277).
- `upgrade` copies no agents and skills and records the manifest's own paths (1748). `uninstall` clears the
  record before it verifies (1316, 1344). The record store picks its backend anew on each call
  (`install_record_store.py:93`).
- The resolver takes `^0.0.x` as below 0.1.0.
