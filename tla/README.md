# proxy-gateway-plus: a verification project

TLA+ models of the parts of proxy-gateway-plus that are hard to get right and
hard to test, TLC runs that check them on small instances, and theorems that
TLAPS proves for every value of the constants.

| module | what it is |
| --- | --- |
| `PdgTx` | the configuration transaction core, `deploy/bot/pdgtx.py` |
| `AtomicConfig` | what that core promises its callers: all or nothing |
| `MCPdgTx` and its six `.cfg` | instances of `PdgTx` |
| `PdgTxProofs` | theorems about `PdgTx`: the lock and the records, types, recovery |
| `PdgTxAtomicity` | theorems about `PdgTx`: contents, units, and that it implements `AtomicConfig` |
| `PdgModel` | the policy model and its rendering as pure functions: `pdgmodel.py`, `sb2mihomo.py` and the helpers of `pdg-bot.py` and `pdgcontrol.py` |
| `PdgPolicy` | every handler of bot and web that edits exits, groups, rules, rule sets, or restores a backup, through `tx_apply` |
| `MCPdgPolicy` and its three `.cfg` | instances of `PdgPolicy` |
| `PdgPolicyProofs` | theorems about `PdgPolicy`: references, rendering, aggregated lists |
| `PdgPolicyRules` | theorems about `PdgPolicy`: rules, rule sets, the domain test, atomic edits, standing checks |
| `WebJobs` | the durable maintenance jobs of the web UI, `deploy/web/pdg-web-job.py` |
| `WebProofs` | theorems about `WebJobs` and `WebServer` |
| `WebImports` | the staged imports, `deploy/web/pdgconfigio.py`, with the handlers and the job that use them |
| `WebImportsProofs` | theorems about `WebImports` |
| `PanelSession` | the observation panel, its timers and its links (`pdg-bot.py`) |
| `HealthNotify` | the health notifier, `deploy/bot/healthcheck.py` |
| `BackupScan` | `backup_blob` reading files under transactions |
| `BotProofs` | theorems about `PanelSession`, `BackupScan` and `HealthNotify` |
| `WebServer` | workers, header deadlines and login attempts of `deploy/web/pdg-web.py` |
| `MCWebJobs`, `MCBackground` and its two `.cfg` | instances of the modules that work in the background |
| `MCPanelRace.cfg` | an instance of `PanelSession` |
| `RulesetMigration` | the migration to the aggregated rule-set lists with its journal, in `pdg.sh` |
| `RulesetMigrationProofs` | theorems about `RulesetMigration` |

`PROJECT.json` holds the machine-readable side: which lines each definition
models, the runs, the mutants, the findings, the hazards, the theorems.

## 1. Inventory of the system

The gateway is a handful of root processes around files in `/etc` and
`/var/lib`: a Telegram bot, a web server with a control API, a shell CLI
(`pdg`), timers, and a certificate hook. They share no memory. They meet in
files, `flock` locks, and systemd units, and each can die at any moment.

| component | state it keeps | operations | interacts through |
| --- | --- | --- | --- |
| Transaction core (`pdgtx.py`) | one directory per transaction: `meta.json`, `candidate/`, `before/`; the lock file; the audit log | new, stage, watch, derive, service, guard, commit, rollback, recover, abort, apply, garbage collection | the target files, systemd units, nftables; called by bot, web and CLI |
| Web maintenance jobs (`pdg-web-job.py`) | one JSON record per job, a state lock | start, run, get, list, maintenance guard, reconciliation, pruning, legacy cleanup | `systemd-run`, `systemctl`, the boot id, the clock; `pdg rollback`, `pdg update`, import apply |
| Import store (`pdgconfigio.py`) | per import: metadata, upload, claim file | preview, prepare (claim), apply, release, cancel, discard, garbage collection | the job store, then one transaction |
| Control API (`pdgcontrol.py`), web server (`pdg-web.py`) | sessions, rate tables, worker and hashing slots | requests, login, export | the three above |
| Telegram bot (`pdg-bot.py`) | model file, rule-set metadata, panel session, timers | menus, exits, rules, rule sets, panel open and close, backup and restore | the transaction core, Telegram |
| Health notifier (`healthcheck.py`) | one file: per recipient what was observed, delivered, and is pending | observe, save, send | Telegram, systemd |
| CLI (`pdg.sh`) | snapshots, migration journal, binaries | snapshot, rollback, update, migrations, core swap | everything |
| Rule status (`rule_status.py`, `update-rules.sh`) | a receipt of the last update | record, read | bot, web |

What is hard in them, and so what the properties are about:

- **Interleaving.** Bot, web, CLI and timers edit the same files. The core
  computes candidates without the lock and re-checks under it.
- **Crashes.** Every operation is a sequence of file replacements, service
  actions and record writes; a kill between any two must leave something that
  `pdg tx recover`, a reader of a job record, or the next start can settle.
- **Partial failure.** Any of these steps may raise, after or before it took
  effect; so may the steps of the rollback.
- **Staleness.** Records, queries of systemd and before-images are used after
  the lock they were read under, or before the lock they are used under.
- **Ambiguous answers.** A client of systemd that timed out does not know
  whether its request was accepted.

What would make each component correct: for the core, that configuration
changes by whole transactions, that nobody's update is lost, that an unfinished
transaction can always be undone and keeps the others out; for the policy
edits, that no target dangles, that the four files and what is derived of them
agree, and that a check made early is never the last word; for the jobs, that
maintenance operations exclude each other and every job ends; for the import
store, that an import is applied at most once and its secrets are removed; for
the panel, that an old timer never closes a new panel and an open one is closed
in the end; for the notifier, that changes are reported and obsolete ones are
not; for a backup, that it is one configuration; for the web server, that
guesses are bounded and every worker comes back; for the CLI's swaps and migrations, that a crash loses neither version.

## 2. The transaction core: PdgTx

### State

| variable | in the code |
| --- | --- |
| `live` | the target files; `Absent` is a file that does not exist |
| `rt` | each unit: inactive, failed, running with dead probes (`deaf`), `ok` |
| `lock` | the holder of the `flock` on the lock file |
| `meta` | `state` in `meta.json`; `none` before it exists, `gone` after collection |
| `expect` | `expect` of each staged or watched target |
| `image` | `before/index.json`, which also stands for `_before` in memory |
| `material` | which of `candidate/` and `before/` exist |
| `pc`, `cur`, `mem` | where each process is, its transaction, its local variables |
| `drift`, `mem.late` | ghosts: files edited from outside since a check |

`Tx` numbers transactions in the order of creation. `Goal[t]` is what a
caller assembles: contents to write or delete, derived targets, read-only
dependencies, one action per unit, service guards, and the mode.

### Actions

| action | code |
| --- | --- |
| `New`, `ReadForUpdate`, `Stage` | `Tx.__init__`, `read_for_update`, `stage` and `watch` |
| `ApplyStaged`, `ApplyByHand` | `_cli_apply`, from a script and by hand |
| `CommitLock`, `Admit`, `Baseline`, `Validate`, `SaveBefore` | `commit`, `_commit_locked` up to the before-image |
| `Refuse`, `Escape`, `AbortOwn` | the two ways an exception leaves it, and what the caller does then |
| `StartApplying`, `ApplyTarget`, `DoAction`, `StartObserving`, `Observe`, `MarkCommitted`, `Finish` | the rest of `_commit_locked` |
| `StartRollback`, `RestoreTarget`, `RestoreUnit`, `MarkRolledBack` | `_rollback`, `_restore_runtime` |
| `ReadForRecover`, `RecoverLock`, `Preflight`, `UndoTarget`, `RestoreUnit`, `MarkRecovered` | `recover` |
| `ReadForAbort`, `WriteAbort` | `_cli_abort` |
| `Crash`, `Edit`, `Flap` | SIGKILL or power loss; an editor without the lock; a unit changing by itself |

A step is what lies between two points at which another process, a crash or an
editor can come in. Each write of a file or of `meta.json` may raise, with the
old or the new content in place, because `atomic_write` can raise on either
side of its rename.

Abstractions, each on the side of more behaviour or of irrelevance:

- Validators are a nondeterministic verdict, so everything the model shows
  holds whatever they accept.
- Service actions are those on systemd units; nftables, sysctl and
  daemon-reload actions are not modelled. They run at the same point and their
  failure takes the same path.
- Actions on different units happen in any order; the code has one order.
- `Tx.__init__` is one step. A crash inside leaves a directory without
  `meta.json`, which reads as no transaction.
- Whether a staged file exists is remembered for deletions only, where the code
  uses it.
- `AbortOwn` and `WriteAbort` join the record write with the removal of
  materials that follows it, which may stop anywhere; no guard lies between.
- Collection removes a directory wholly or not at all.
- A shell script that dies while assembling is `Crash` in `prep`; so is one
  that simply gives up.

### The operators' discipline

`Discipline` says which rules the people and scripts that call the core follow:
`solo`, one process at a time handles a transaction, and `fresh`, `pdg tx
apply` is run on a transaction that has not run. The passing runs and the
theorems assume both; the violation runs drop the rule that is in question, and
find what happens without it (section 13).

## 3. The maintenance jobs: WebJobs

A request writes a `queued` record under the state lock, releases the lock, and
asks systemd to run a transient unit; the unit's runner takes the lock, marks
the record `running`, works, takes the lock again and records the outcome.
Nobody waits for anybody: a reader that finds an active record decides from
the boot id, from `systemctl` and from the record's age whether it is dead.

| variable | in the code |
| --- | --- |
| `rec` | `status` of each record; `gone` after pruning or cleanup |
| `fresh` | `bootId` is the current one |
| `age` | time since `createdAt`, or since `startedAt` once running |
| `unit` | the transient unit: request sent, loading, runner waiting, operating, ended, over |
| `lock` | the thread that holds the state lock in `maintenance_guard` |
| `place`, `job` | where each request thread is, and the job it launches |
| `legacy` | `cleanup_config_import_for_legacy`: what it has read, what is left to stop |

| action | code |
| --- | --- |
| `Look` | `get`, and `list` record by record: `_reconcile` |
| `Guard`, `GuardEnd` | `maintenance_guard` around a synchronous action |
| `Start`, `Launch`, `QueryLoad`, `Disown` | `start`: publish, `systemd-run`, and after an error the load state and the conditional `launcher_failed` |
| `Accept`, `Exec`, `RunBegin`, `OpEnd`, `RunFinish` | systemd, then `run` |
| `LegacyRead`, `LegacyStop`, `LegacyGiveUp`, `LegacyRemove` | the cleanup before a rollback to a version without imports |
| `WebDies`, `RunnerDies`, `Reboot`, `Tick` | the environment |

A section under the state lock is one step, except the guard's, which lasts as
long as the action it protects. This is exact: records are replaced by rename,
the runner waits for the lock, and other requests that find it busy fail
without an effect. `_assert_idle_locked` stops at the first active record;
since at most one is active (`OneActive` in the proofs), reconciling the others
first makes no difference, and a gate that stays closed leaves what `Look`
does. `systemctl` may answer `unknown` at any time, `is-active` may say
inactive of a unit that is still loading, and `systemd-run` may report anything
whether or not its request arrives, even later. Not modelled: the contents of
records, the list of snapshots, the discards of staged imports, processes that
a killed operation leaves behind until its unit ends, and steps of the wall
clock.

## 4. The policy edits: PdgModel and PdgPolicy

Bot and web edit the same four files (the model, `rulesets.json`,
`custom_direct.txt`, `custom_hijack.txt`) and the source files of the rule
sets. A handler loads the model and answers some requests at once; it then
reads what it needs for update, stages the new contents with what they were
computed from, and `tx_apply` commits them if nothing of that has changed,
deriving Mihomo's rules and MosDNS's aggregated lists on the way.
`PdgModel` has the pure part: names, references, renaming, deletion with its
cascade, the order of rules, rendering, and which way a domain goes, in Mihomo
and in the bot's own test. `PdgPolicy` has the handlers.
`WellFormed`, `WellFormedMeta` and `WellFormedRequest` say what the files and
the requests may be; the starting configurations and the menus are assumed to
satisfy them. `Reserved` is `RESERVED_TARGETS` of `pdgmodel.py`, which does not
include the literal `direct`: the bot adds that (`AddGroupEarly`), the web does
not (finding 6).

| variable | in the code |
| --- | --- |
| `live` | the four files and the rule-set sources |
| `mihomo`, `aggregate` | what the last commits rendered and derived |
| `edits` | the number of commits |
| `step`, `seen` | how far each editor is; what it read, staged and expects |

| action | code |
| --- | --- |
| `Begin` | the first load of the model and the early answers of each handler |
| `Snapshot` | the readings for update, among them those of a web request that carries the revision its browser saw |
| `Stage` | the candidate, through the handler's change function (`AddRule` to `Restore`, from `AddRule` to `RestoredFiles`) |
| `Commit`, `Refuse` | the check of the expectations and the derivations under the lock; every refusal |

Abstractions. A transaction is one step: `PdgTx` shows that it may be. Protocol
details of exits, providers and TCP fast open are left out, and group members
are not part of what is rendered. A handler that loads the model twice in a row
does so in one step (`Begin`); `patch_rule` reads its lists inside the
transaction. `PanelSession` edits the model too but touches nothing of this. An
archive is a set of members; restoring it substitutes this machine's direct
exit for the archive's, as the code does, and refuses a damaged one. The legacy
migration of group names, sanitizing for panel and platform, and the MosDNS
graph are left out.

`Discipline` may contain `undisturbed`: nobody else commits while one of four
requests runs (`del_rule`, `web_add_rule`, `reassign_rule`, `reorder_exits`)
whose early decision the commit does not check again. Without it TLC finds
`RuleSetsAgree` and `RuledDomainsReachGateway` violated; no document promises
otherwise, so this is a hazard in `PROJECT.json` and not a finding.

An archive without `rulesets.json` would violate `RuleSetsAgree` when restored
(`pdg-bot.py` 5347-5353 leaves the metadata as they are). `backup_blob` never
makes such an archive, so the menus contain none.

## 5. The staged imports: WebImports

An upload is three files: the upload, a record, and a claim file that serves as
its lock. Request threads preview, apply and cancel; collectors in the web
server and in the runners remove what is old; a job of `pdg-web-job.py` applies
what was accepted; the job store discards what a dead job left.

| variable | in the code |
| --- | --- |
| `json`, `upload`, `claim` | the three files; `json` is `claimed` when it has `apply` |
| `born`, `written`, `held` | the times that expiry, claim and collection go by |
| `told` | what the user has been told |
| `conf` | the model and MosDNS's configuration, which others edit |
| `made` | what a preview was made of: the kind of import, what it read for its candidate, the baselines it recorded, and (ghost) how often the model has changed since |
| `web`, `gc` | where each request thread and each collector is |
| `jobs`, `runner`, `cleaner` | the job, the process that applies, the discard after a dead job |
| `applied`, `deaths` | ghost and bound |

Preview, claim, plan, publication, launch, release, cancel, collection with its
rename of an old claim, application and every unlink of a discard are actions
of their own, so anything can come in between; `WebServerDies`, `RunnerOfDies`
and `CleanerDies` may at any of them. `EditConf` replaces a file of the
configuration at any moment, also by what it held before.

What guards an import against those edits differs by its kind, and the model
has it as the code does. A preview reads the configuration for its candidate
(`PreviewRead`) and again for the baselines (`PreviewRecord`). `ApplyCheck`
compares the model with what was read, and MosDNS's file with its baseline
except for kind `mihomo`. `ApplyCommit` expects the baselines of the files that
the import replaces and of no others (`PinnedTo`, `Replaces`): an import of
MosDNS expects that file and not the model (2556-2558), one of Mihomo the model
(2609-2612), and a PDG bundle the model and, if it brings one, MosDNS's file. So
the model may change between check and commit of an import of MosDNS, and the
import is applied; nothing of it depends on the model, and nothing of the model
is overwritten. `AppliedAsPreviewed` is therefore about what an import replaces.
Two ways are left open by the code, and the property names them. MosDNS's
baseline is a hash of the file as it is after the candidate was made (2366), so
an edit in between goes unnoticed (section 13). The model's is too
(`baseModelFileSha256`), but there the check compares what was read; to be
overwritten unnoticed, the model must change before the baseline, change back
before the check, and change again to the baseline before the commit: three
changes (`moves`).

Abstractions. A collector's pass stands for the collections that preview and
constructor make. The janitor of a runner lives as long as the runner. A
handler ends before its own claim is two hours old. The job store is what
`WebJobs` says of it, with at least 50 younger finished jobs before one is
forgotten. An import id is used once. Two files of one foreign transaction are
two edits. Hashes are compared as contents. The other baselines (providers,
rule sets, lists) are pinned like MosDNS's and left out, and documents are not
modelled: what a commit writes is any content.

Seen on the way, and not wrong enough to be a finding: `can_release_import`
takes the state lock without waiting, so the claim of a start that failed while
the lock was busy stays for two hours, as its docstring says; a `.claim.stale-*` file left by a
collector that dies between rename and unlink is never removed.

## 6. The observation panel: PanelSession

Opening the panel writes a new secret into the model, opens the firewall and
sends a link; a timer closes it after ten or thirty minutes; a restart of the
bot closes what it finds open.

| variable | in the code |
| --- | --- |
| `panel` | `clash_api` in the model: off, on with some secret, or the operator's own |
| `wall` | the rule in nftables |
| `armed`, `link` | `_panel_timer` with its generation, `_panel_link` |
| `links`, `published` | messages in the chat, and all that ever were |
| `actor` | what the bot's thread and each timer thread do, and whether the generation they read is current |

`Enter` to `Closed` are the steps of `set_panel` under `_panel_op_lock`, each
with its failure and undo; `PublishLink`, `Arm`, `AskOff`, `ClosedUnsent` and
`StartupCleanup` are the menu's and the start's; `TimerFires` reads the
generation before it waits. The change of the configuration is one step, so is
that of nftables, and loading the model at start succeeds. Downloading the
panel's files, status messages and the timer's duration are left out.

A failed opening whose firewall step fails and whose undo fails too leaves an
open panel that was never published and has no timer: the properties are about
published ones. A rule left by a failed cleanup at start, with the panel off,
is not tried again.

## 7. The health notifier: HealthNotify

A timer starts a check every ten minutes. It reads one file, decides for each
recipient whether something is pending, writes the file, sends, and writes the
receipt.

| variable | in the code |
| --- | --- |
| `trouble`, `allowed` | what the checks would find; `PDG_BOT_ALLOWED` |
| `saved`, `oldSchema` | the file: per recipient observed, delivered, pending, attempts, wait |
| `rows`, `run` | the run's memory, and where it is |
| `belief`, `lost`, `losses` | what a recipient last read; whether the file missed that; bound |

`Check`, `Skip`, `Send`, `Save` and `CheckEnds` are the run, `CheckDies` kills
it anywhere, `ClockSetBack` undoes the waiting, `SetRecipients` and
`TroubleChanges` are the environment. Problem lists are values; time is counted
in runs; recipients come in any order; two runs never overlap, because of the
`flock`. A recipient may get a message whose receipt is lost, and so read the
same news twice: `lost` marks it.

## 8. Backups: BackupScan

`backup_blob` takes no lock. It reads everything twice and gives up if the
readings differ, while transactions replace the files one at a time in the
order of their names, commit, or put them back. What they write comes from a
small set of versions, so an edit may return to what was there, or be rolled
back and made again. The aggregates count as one file; sizes, provider files and
the sanitizing of the panel are left out. A file that vanishes or is replaced
during its reading makes the backup fail.

| variable | in the code |
| --- | --- |
| `disk` | the managed files |
| `tx`, `changes` | the transaction in progress; bound |
| `reading`, `archive` | the attempt, its first reading and the one in progress; the result |
| `middle` | ghost: the files when the second reading began, and whether one has been put back since |

The docstring (4914-4920) says the archive is of one generation and never torn.
Two equal readings do not show that. `ArchiveOfOneMoment` says what they do
show: the archive holds the files as they all were at one moment, when the
second reading began, which is one configuration if no transaction was
unfinished then. If one was, both readings may have seen the same half, after a
crash or when the transaction is slow: TLC finds a torn archive of one
transaction and one pair of readings, all of them between its first replacement
and its second. And since only contents are
compared, the property excepts the case that a file which differed from the
first reading at that moment was changed back to it during the second
(`middle.back`): an edit that is rolled back between the readings and made again
during the second gives two equal readings that were never there together. No
property can promise more than this without a lock, so the docstring's sentence
("never a torn archive") is a hazard with a note in `PROJECT.json`.

## 9. The web server: WebServer

| variable | in the code |
| --- | --- |
| `conn` | each connection: how far its worker is, cut off or not, the result of its login |
| `accepted`, `workerSlots`, `passwordSlots` | the pools |
| `logins`, `allFailures`, `pending`, `pendingTotal` | the rate tables of `SecurityState` |
| `clock` | time, in windows |
| `guesses` | ghost: the wrong passwords that were really tried |

`TakeIn`, `HeadersEnd`, `Expire` (the watchdog), `Serve`, `Reserve`, `Verify`,
`HashEnds`, `FinishAttempt` and the ways out of each are actions; the clock may
move between any two, because `now` is read before the lock. Sessions and
cookies, the limit over all requests, and static files are left out; calls of
the control layer end.

## 10. The migration of the rule-set lists: RulesetMigration

`migrate_ruleset_phone_direct` of `pdg.sh` derives MosDNS's two aggregated lists
from the rule sets and makes the configuration load them. It copies the three
files into a directory, derives the candidates, renames the directory to
publish it as a journal, installs a transitional hijack list, the two lists and
the configuration, checks, restarts MosDNS, and removes the journal. A failure
puts the three files back; after a crash the next migration does.

| variable | in the code |
| --- | --- |
| `mosdns` | `config.yaml` (its shape, and how often it was edited), `ruleset_direct.txt`, `ruleset_hijack.txt` |
| `loaded` | the files MosDNS last started with |
| `want` | what the rule sets and their targets say |
| `work` | the directory: preparing or published, and which before-images or marks of absence it has |
| `mig` | where the migration is, why, what it has left, and whether a restoration failed |
| `faults` | bound |

| action | code |
| --- | --- |
| `Migrate`, `Recover`, `LookAtFiles` | the entry, with its early returns |
| `Capture`, `Derive`, `PublishJournal` | before-images, candidates, `mv` |
| `PutFile`, `PutFails`, `CheckInterface` | the four atomic installations and the strict check |
| `Stable`, `Unstable` | `systemctl restart`, `_core_kernel_stable` |
| `RestoreFile`, `RestoreFails`, `RestoreEnds` | `_pdg_restore_ruleset_migration_before` |
| `RemoveJournal`, `RemoveOne`, `RemoveFails` | `rm -rf` and the sync of its parent |
| `Crash`, `EditMosdns`, `EditRules` | a kill or a reboot; transactions, which take the same lock |

A list is a set of domains. `NeverMisdirected` exempts a domain that two
overlapping rule sets put into both lists: while the undo, or a configuration
that has only the direct list, is half way, it may go direct although neither
the old nor the new files send it there. A failed installation may have replaced the file or
not. Missing or irregular files, ownership and modes, and the failure of the
configuration's candidate before publication, after which the code rewrites the three files
with what they have, are left out.

`Discipline` names what the runs take for granted, and what TLC finds without
it:

- `restores`: the before-image of the configuration can be written back.
  Otherwise the undo goes on to remove the lists that the new configuration,
  still in place, needs (`pdg.sh` 1241), and `EveryDiskBoots` is violated.
  `tests/test-ruleset-phone-direct.py` 1059-1061 concludes it for the states a
  kill of the migration can leave, not for this.
- `removes`: the removal of the journal is not interrupted half way. `rm -rf`
  works on it under the name that means "recover first"; half of a journal is
  refused by every later migration, and so by every update, and
  `JournalSettles` is violated.

A transaction does not look at a leftover journal; what it commits to
`config.yaml` is reverted by the next migration. The model has that, and no
property forbids it.

## 11. What the runs check

| run | instance | properties |
| --- | --- | --- |
| `tx_files` | two transactions on two files, one writes and deletes, one competes; two processes; apply, recover and abort by hand; an editor; `TxKeep` 1 | `TypeOK`, `SingleInFlight`, `Recoverable`, `LegalTransitions`, `NoLostUpdate`, `RecoverKeepsEdits`, `CommittedAsPlanned` |
| `tx_services` | a repair that restarts a unit and a normal transaction that stops it, from every initial level; a second, flapping unit; recover and abort by hand; fairness | `RolledBackRestores`, `CommittedHealthy`, `LockIsFreed` |
| `tx_chain` | three transactions that read what the others write: derived, watched, deleted; crashes and recover | `AtomicChange` |
| `policy` | a gateway in use and a new one; bot and web with every pair of requests; two commits | `Closed`, `RuleSetsAgree`, `DerivedAgree`, `RuledDomainsReachGateway`, `DomainTestAgrees`, `EditsAreAtomic`, `ChecksStand` |
| `background_safety` | `MCBackground`, see below | jobs: `Exclusive`, `OperationIsRecorded`, `Settled`; imports: `RecordHasUpload`, `CancelledIsGone`, `JobHasItsFiles`, `AppliedAsPreviewed`; panel: `PanelWatched`; notifier: `StateReadable`, `DeliveredIsRead`, `MessagesFit`; backup: `ArchiveOfOneMoment`; server: `GuessesBounded`; migration: `EveryDiskBoots`, `NeverMisdirected`, `SuccessIsRunning` |
| `background_liveness` | `MCBackground` with smaller constants and fairness | `JobsEnd`, `ImportsCleaned`, `PanelCloses`, `HealthSettles`, `AllReleased`, `JournalSettles` |

The six violation runs are in section 13.

`MCBackground` puts seven modules into one run without multiplying them. They
share no state in these models, so each behaviour lets one of them move,
chosen in the initial state, and leaves the others in one initial state. The
imports have two parts of it: `imports` (`Handled`) for who handles them, and
`baselines` (`Edited`) for who edits what they are made of.
`AtRest` lets a part stop where its bound is used up and it is at rest, and only
there, so a deadlock elsewhere shows.

### Why the bounds are enough

*Transactions.* Lost updates, exclusion and conflicting recoveries take two
transactions and two processes; the third transaction of `tx_chain` is the one
whose read is caught between the other two. Two files are needed for a
half-applied change, and one more would repeat the second. Two contents and
`Absent` distinguish old, new and an outsider's (in `tx_files` the editor can
also write `Absent`). Crashes, retries, recoveries and outside edits are not
bounded: the state space is finite because a transaction id is used once.
`TxKeep` 1 and `MaxRecords` 1 make collection happen with two finished items.

*Policy.* A race is between two requests, and the second commit is the one that
can be wrong; later commits start from states of the kind the first left. The
configuration has one thing of each sort that references point to, rule sets of
both kinds, a domain that two sources name, and the Telegram rule.

*Jobs.* An import is followed by an update: the first is the kind the legacy
cleanup is after, the second the kind with a limit of its own. A rollback is in
all else like an import, and a third job would meet the first two as the second
meets the first (`OneOperation` and `OperationsHaveRecords` in section 14 hold
for any number of them). The time limits keep the order of the code's (grace 60
s below the queue limit of 5 min; 15 and 20 min operations below a 25 min
limit; 45 min below 50 min) and keep the update's timeout not below the limit
of the other kinds, which is where a mixed-up limit would show. Ages are cut
off above the largest limit that applies.

*Imports.* Files of different imports have different names, so one import is
enough; two request threads, two collectors, a runner and a cleaner contend for
it, one of them may die, and two hours can pass at any moment (`imports`). Their
contention does not depend on what the configuration holds, so in this part it
holds one thing, and the import is of the kind that reads all of it. What an
import may replace does not depend on when it is collected, so in `baselines`
time stands still, without collectors and deaths, but there is every kind of
import, and both files are edited at any moment and back, between two contents:
one that was read and one that was not. Edits are not bounded; `moves` counts
the model's up to three, which is as many as it takes to get past both
comparisons.

*Panel.* Two timer threads are the one that is late and the one that is
current. Three openings let an old timer meet a second and third session; three
mishaps let an action, its undo and the process fail.

*Notifier.* Two troubles let one replace another while a message is pending;
two losses let a message and its successor fail. Recipients are rows of one
file, and the second shows that one's failure does not change the other's row.

*Backup.* Two transactions are enough to write a file, roll it back and write it
again, which is what two equal readings can miss; two versions let an edit
return to what was there, and one rule set is enough for a file that comes and goes. One double reading
is checked for safety; the second repeats the first.

*Server.* Four requests from two addresses on two workers with one hashing slot
reach both limits (two per address, three in all) and push an address out of a
table of one.

*Migration.* Domains do not depend on each other, so one shows every way a
domain may move, and for liveness none is needed; two mishaps are a failure and a
crash, or a failure of the undo of a failure. A third changes nothing.

Deadlock is checked except where a system rightly stops: users may stop editing
(`policy`, `policy_telegram`, `policy_direct_group`), and ids of transactions are used up (the
runs of `PdgTx` other than `tx_files`, whose editor never stops). Symmetry of
processes, threads, and contents that are only compared is used only in runs
without liveness.

## 12. Fairness

`PdgTx`: weak fairness of `Step(p)` for each process, that is, of what a
command does once it has begun. Every subprocess is run with a timeout (`_run`),
polling loops count their rounds, and the lock is never waited for. Commands
need not begin, and nothing in the environment is fair.

`WebJobs`: weak fairness of the runner of each job, of a thread that is inside
a call, of time, and of somebody looking at a job whose unit is not up. The
last is what the browser does while the page is open: it polls active jobs
every 3.5 s, and every 8 s when disconnected. Fairness is stated for the answer
`unknown` only, so `JobsEnd` does not rest on `systemctl` ever answering.

`WebImports`: weak fairness of request threads, of runners, of time, and of the
reader that finds a job dead, as above. The janitor of the web server comes
round every minute for ever, and requests are short, so its steps have strong
fairness: a claim is not in its way every time.

`PanelSession`: weak fairness of what a thread does once it runs, and of a
timer that is armed. `HealthNotify`: weak fairness of a run, strong fairness of
the ten minutes between runs, which the systemd timer provides whatever dies in
between. `WebServer`: weak fairness of a worker's own steps and of the
watchdog; none of clients, who may never send another byte.
`RulesetMigration`: weak fairness of a migration's steps, of beginning one
too, because every `pdg update` and `pdg migrate` begins one; crashes and
failures are bounded.

## 13. Findings

Each is a run that checks one property and finds it violated.

1. **recover acts on a stale record** (`tx_stale_recover`, `FinalIsFinal`).
   `recover` reads `meta.json` and the before-image before it takes the lock,
   and does not look again: if the transaction committed in between, it is
   undone and `COMMITTED` is overwritten.
2. **apply after a crash** (`tx_apply_crashed`, `AbortedTouchedNothing`).
   `pdg tx apply` starts from `PREPARING` whatever is recorded. On a
   transaction that crashed in `APPLYING` it is refused by its own half-applied
   files and records `ABORTED`. (`solo` is kept in this run, `fresh` dropped.)
3. **a deletion that is not performed** (`tx_two_deletes`,
   `CommittedAsPlanned`, under the full discipline). Whether the file exists is
   remembered at staging, its content at the earlier read; a deletion and a
   rollback by another transaction in between make the transaction commit with
   the file still there.
4. **the Telegram exit goes with a domain** (`policy_telegram`,
   `TelegramPinKept`). The exit chosen for Telegram is a rule of its own in the
   model, and names no domain; what deletes or moves a domain (`pdg-bot.py` 3505,
   3572, `pdgcontrol.py` 1999) drops the rules that name none afterwards.
5. **a late timer closes a new panel** (`panel_race`, `TimerSparesNewPanel`).
   `_panel_autoclose` compares its generation, then waits for the lock of
   `set_panel`; a request to open that holds it changes the generation only
   afterwards.
6. **a group named `direct`** (`policy_direct_group`, `AggregatesAgree`). Rule
   sets use that literal for the phone's own way. The bot reserves it; the web
   checks group names against lists that do not have it. When such a group is
   deleted, the phone's rule sets are moved to an exit as if they had used the
   group, and MosDNS's aggregated lists, which a deletion has no reason to
   derive again, still send their domains past the gateway.
Observations without a run of their own, most of them hazards too:

- `pdg tx abort` checks the state and overwrites it later, without the lock; so
  without `solo` a transaction that begins to apply in between is recorded as
  `ABORTED` and loses its before-image. Its docstring (`pdgtx.py` 2588) says that
  states which touched the live configuration are always refused.
- A unit that had failed before a repair can only roll back to `ROLLBACK_FAILED`,
  because `systemctl stop` leaves it failed.
- Of two `pdg tx apply` of one transaction, the one that finds the lock busy
  removes the materials of the one that runs.
- The four requests of section 4, and edits beside a leftover journal.
- An import of MosDNS takes the hijack mode from the file as it is at the
  preview (`pdgconfigio.py` 2325), and its baseline from the file as it is a
  moment later (2366). `pdg hijack-mode` in between goes unnoticed: the baseline
  is already its own, and the import replaces it by a file with the mode of
  before, although "importing MosDNS must not silently switch that mode"
  (1427-1430). Without its exception `AppliedAsPreviewed` is violated.
- An archive can be torn, in spite of the docstring of `backup_blob` (section 8).
- The removal of the migration's journal, interrupted, leaves one that every
  later migration and update refuses; and its undo goes on after it could not
  write the configuration back (`removes` and `restores` of section 10). What
  `tests/test-ruleset-phone-direct.py` 1056-1061 says of kills holds for the
  replacements, not for these.

## 14. What is proved

TLAPS checks these for every value of the constants: every set of transactions,
files, units, processes, jobs, requests, recipients and so on, finite or not,
and without the bounds of the runs mattering.

**`PdgTxProofs`.** `OneInFlight` (`SingleInFlight`) and `TransitionsAreLegal`
(`LegalTransitions`), from `ConstantsAssumption` and `Disciplined`, which says
that both rules are followed. `SingleInFlight` is not inductive. The
strengthening `IInv` adds that a process is in a critical place iff it holds
the lock, that no two processes have the same transaction, that `meta` agrees
with the place of the process that works on the transaction (`RecordAgrees`,
which is what a crash or a raising write could break), and that between the
pending check and `APPLYING` nothing is unsettled (`ClearedIsQuiet`, which is
what makes the check mean something later).

`TypeCorrect` (`TypeOK`) uses `GoalAssumption` too. The data part needs
`Coverage`: what is left to write or restore is staged, and a process past
`SaveBefore` has an image of all of it.

`AlwaysRecoverable` (`Recoverable`). The strengthening `Undoable` adds that
from the before-image until `APPLYING` the files are still the saved ones: only
the holder of the lock writes targets, it writes only old or new contents, and
materials go only once the record is final. `RecoveryInv` is the conjunction of
these three.

**`PdgTxAtomicity`.** What a transaction does to the files and units, under
`Disciplined`.

- `NoUpdateIsLost` (`NoLostUpdate`), `EditsAreKept` (`RecoverKeepsEdits`),
  `RollbackRestores` (`RolledBackRestores`), `CommitIsHealthy`
  (`CommittedHealthy`), from `KnowledgeInv`. It adds to `RecoveryInv` what a
  process knows at each place: from the check of the preconditions to the
  commit, that a file nobody edited still has what the candidate was computed
  from, in its place or in the before-image (`BasisAt`); in a rollback or
  recover, which files are back and that the others have old or own content
  (`UndoneAt`); after the observation and after each unit, how the units run
  (`UnitsAt`). None is inductive without `Recoverable`: that the image is what
  was there is what makes its restoration mean something.
- `CommitIsAsPlanned` (`CommittedAsPlanned`) has the hypothesis `DeletedOnce`: a
  file that a transaction deletes was there at the start and is deleted by no
  other transaction, deriver or editor. Finding 3 is what happens otherwise.
  The runs `tx_files` and `tx_chain` satisfy it. `Deletions` carries it through
  rollbacks: until its deleter begins to apply the file exists, now and in every
  before-image.
- `ChangesAreAtomic` (`AtomicChange`) is the refinement: initial states map to
  initial states, and every step of the core is a step of `AtomicConfig` or
  leaves `Logical` and `Status` alone. `Logical` is the disk while nothing is
  unsettled and the one before-image otherwise, so each write under the lock is
  a stutter, and the configuration in force changes in `MarkCommitted` only.
  It needs `DeletedOnce`, and `Outside = {}`: `AtomicConfig` knows no editors
  without the lock, and an edit under an unsettled transaction would be a
  change nobody promised (`NoUpdateIsLost` and `EditsAreKept` say what holds
  with editors).

**`WebProofs`.** Of `WebJobs`: `OneOperation` (`Exclusive`), `OperationsHaveRecords`
(`OperationIsRecorded`), `RecordsSettle` (`Settled`), `TypeCorrect`. The one
assumption with content is `TimeoutAssumption`: each operation's timeout is
below the age at which its reader gives up. The invariant `JInv` says that at
most one record is active, none under a guard, that an operating job is
recorded as running, of this boot and within its timeout, and, for the legacy
cleanup, that what it saw running and has stopped neither operates nor is
queued again. `Alive` is the heart: no answer systemctl can give lets a reader
take an operating job for dead.

Of `WebServer`: `GuessesAreBounded` (`GuessesBounded`), for any connections,
addresses, window and limits. The code checks its tables, and the property
counts the passwords really tried, which the tables list late (a worker records
its failure after the hashing), or no longer (`_prune`). `ServerInv` therefore
says: every attempt under way is counted once, by address and in all
(`Counted`); recent failures and attempts together are within the limits
(`Limited`); and every guess, but for those still to be recorded, has a failure
of its own that is no older, in the same order (`Accounted`, by `Covered`). The
crux is `RecentFailuresCover`: `_prune` drops from the front until the first
recent time, and that drops no failure that covers a guess inside the window.

**`PdgPolicyProofs`.** `PolicyClosed` (`Closed`) and `PolicyRendering`
(`RenderingAgrees`), for every menu of requests and every closed configuration
to start from. The invariant adds what a staged candidate is (`Sound`): a model
in it has valid references, and metadata without a model name the targets that
the expected metadata name. A candidate's target was checked minutes before the
commit; the theorem shows that the commit's own checks suffice.

`AggregatesAreCurrent` (`AggregatesAgree`), and with it `DerivedIsCurrent`
(`DerivedAgree`, which is both), has the hypothesis `DirectIsPhone`: no exit or
group is named `direct` at the start, in an archive, or by a request of the web.
The run `policy` satisfies it, and finding 6 is what happens otherwise. A commit
derives the lists again only if its caller says so or stages a source; the
theorem shows that every other change leaves alone which rule sets are the
phone's. `FInv` adds to `IInv` that no exit or group in force is named `direct`
and that each group has a list of members (`Plain`), and what a request knows at
each step: which targets it may name once it is past its early answer (`Asked`),
what it read (`Snapped`), and that its candidate is derived from, or keeps every
rule set's way as the metadata that it expects to find have it (`Ready`).
`ChangeFits` says so of each change function. The filters are `Those`, over sets
of positions; `ThoseInOrder` says what they return, by the least element of a
set of numbers (`Least`) in place of an induction.

**`PdgPolicyRules`.** `RuledDomainsReach` (`RuledDomainsReachGateway`),
`RuleSetsKept` (`RuleSetsAgree`), `DomainTestRight` (`DomainTestAgrees`),
`CommitsAreAtomic` (`EditsAreAtomic`) and `ChecksAlwaysStand` (`ChecksStand`), from
three hypotheses, and the last from a fourth, which the run `policy` satisfies:

- `DirectIsPhone`, as above. The proof uses it for the deletion and renaming of
  exits and groups, which would otherwise take the phone's rule sets along.
- `Undisturbed`: the discipline of section 4. Without it TLC finds the first
  two properties violated (the hazard at `pdg-bot.py` 3659).
- `FitAtStart`: the starting files agree with each other (`Consistent`), and an
  archive that passes the checks of a restore was made (`Archive`) by a gateway
  whose files did. A restore validates the model and the metadata each on its
  own; `backup_blob` writes no other archives (section 4).
- `TargetsAtStart`, for `ChecksAlwaysStand`: at the start and in the archives, a
  rule that names domains has a target (`Targeted`). No handler writes another
  one; a model edited by hand could have one, and the web does not list its
  domains (`_rule_items`), while `patch_rule` takes them for ruled.

`Consistent` is the two file properties and the shape of the rules (`Ruly`: a
rule for a rule set names no domains and is not Telegram's). That `Commit`
keeps it needs three things.

1. *What an edit does* is said of the set of the rules, not of their list.
   `Keeps`: the rule sets stand, and the domains with a rule are those of
   before less some and plus some, which must be what the edit stages in
   `custom_hijack.txt` and `custom_direct.txt`. `Resends`: one rule set gets
   other targets, or none. `Redirects`: some targets become another everywhere.
   There is a lemma for each change function, over `Those`, `InsertAt` and maps
   of lists (`OnThose`, `OnInsert`, `OnMap`).
2. *What it was computed from.* `Based`: the staged files are the change
   function of some files and some model, and those it replaces are what the
   commit expects to find. Where a handler does not read for update what it
   decides on, its knowledge is `Knows` (still true if nobody committed since)
   or `PinnedGroup` (its commit expects the model it loaded).
3. *What the commit checks.* A deletion or renaming of a target that finds no
   rule set to move when it reads `rulesets.json` stages the model alone, and
   its commit does not expect the metadata to be as it read them. If another
   handler has sent a rule set to that target since, the two files would part;
   `MovedStand` shows that the derivation refuses this (`Derivable`), since the
   metadata in force then name a target that the candidate lacks.

`DomainTestRight` rests on `RenderingAgrees` too, and on `RuleSetsAgree`: no
rule that names an exit is dropped by the renderer. Past that it is a fact
about two first matches (`TestIsRight`), with the line for Telegram woven in
after a leading reject (`Woven`, `Lines`) and rules without domains left out.
As in `AggregatesAgree`, the list of lines is described by the increasing
function of `ThoseInOrder`.

`CommitsAreAtomic` compares what a commit writes with what the same request
would make of the files of that moment (`CommitAgain`). Most requests replace
every file they are computed of, and the commit checks those (`PlainAgain`). The
exceptions are the deletions and renamings, which stage `rulesets.json` only if
the copy they read names the target (`RedirectOps`). If they leave it alone,
nothing has checked that it still does not; but the derivation refuses a target
the new model lacks, so every target of now is one the redirection would leave
alone too (`RedirectAgain`, by `Replaces`). `TInv` says that `rulesets.json` stays
a table, so that a target replaced by itself changes nothing (`Unmoved`).

`ChecksAlwaysStand` says that what a handler checked before anything else (`Early`)
still holds when its edit is committed, and goes by three kinds of requests. A
request that is `Loose` has it because nobody has committed since. A pinned one has
it because it looked at the model alone (`Answered`), and the commit expects that
model. Every other one is looked at again (`ChangeAnswers`): in the transaction, as
with the deletions of the web, or by what refuses the candidate. An exit that is
gone cannot be the target of a new rule (`AddDomainStands`, `PinStands`) or a member
of a group (`AddGroupStands`), since the model is validated with it, and a rule set
cannot have the name of an exit, since the derivation refuses that
(`AddRuleSetChecked`). Only `patch_rule` needs more, that every rule naming a
domain is one the web lists (`RuleListed`); hence `Targeted`, which every edit
keeps (`ChangeTargeted`). The invariant beside the others is `CInv`: the model is
`Targeted`, and what each request was answered still stands as far as it can
(`Vouched`). Of `add_group`, `ChecksStand` says less than its early answer does: an
exit may be deleted meanwhile and its name taken by a policy group of the web,
which then passes as a member.

**`WebImportsProofs`.** `StagedIsWhole` (`RecordHasUpload`), `CancelledStaysGone`
(`CancelledIsGone`), `AcceptedIsKept` (`JobHasItsFiles`) and
`AppliedOnceAsPreviewed` (`AppliedAsPreviewed`), for any imports, threads,
collectors and time limits. The claim is a file that others take over after a
time and that whoever believes it to be his unlinks, so it is no lock. The
invariant `ImportInv` says when it is one: the holder is alone with an import
while its preview has not expired (`FreshAlone`, `FreshKept`) and at the places
before its job is published (`HoldersAlone`). That rests on `InGoodTime`, which
comes from the model's assumption that a handler ends before its claim can be
taken over (section 5). `Known` is what a handler may still believe of files
that it read earlier, `Emptied` that a record goes before its upload, and
`Spared` that whoever could remove the files of a waiting job is not there.
`AppliedOnceAsPreviewed` adds to them `Once`, that what is applied has a job past
its commit, and `Tracked`: a baseline of the model that differs from what was
read means that the model has changed (`ShownStale`), and past the check that it
has changed back, so that it is on its third change if it differs again
(`CheckedStale`). `Commits` reads the property off the one step it is about.

**`BotProofs`.** `PanelAlwaysWatched`, `CustomAlwaysKept`,
`LinkAlwaysKept`. The invariant has, beside types, which thread may be where
(`Roles`), that one thread at a time is inside `set_panel` (`OneAtATime`), that
what a thread has closed is closed, or open under a secret that its session's
link does not have (`ClosedForMain`, `ClosedForTimer`), that a panel being opened
has a new secret (`NewSecret`), and who is there to close it (`Watched`).

`ArchiveIsOneMoment` (`ArchiveOfOneMoment`), about backups. What makes two equal
readings enough is `NotPutBack`: until a file has been changed back to what the
first reading saw (`middle.back`), one that differed from it when the second
reading began still does, so what both readings agree on is what was there
then. It assumes nothing of what transactions write.

`AlwaysReadable`, `DeliveredAlwaysRead`, `MessagesAlwaysFit`, about the
notifier. The invariant says that the rows in memory are as sound as those in
the file (`RowsSound`), how they may be ahead of it in each phase of a run
(`RunFollowsFile`), and what a recipient believes (`BeliefKnown`).

**`RulesetMigrationProofs`.** `SuccessMeansRunning` (`SuccessIsRunning`),
without any hypothesis; `MosdnsAlwaysBoots` (`EveryDiskBoots`) and
`NobodyIsMisdirected` (`NeverMisdirected`) from `Trusted("restores")`, whose
absence refutes the first of them (section 10). They do not need
`Trusted("removes")`. `ControlInv` says how the files follow the order of the
installations (`CommitOrder`) and of the restorations (`UndoOrder`), and what
MosDNS runs with when the journal goes (`Outcome`). `DiskInv` adds `OldOrNew`:
behind a journal each file is the old one or a new one, and both lists are new
as long as the configuration is; and that the disk and the before-image can be
booted (`Boots`).

`TypeOK` of `WebJobs`, `CustomKept` and `LinkKept` of `PanelSession` are proved
and not in a run.

**Only model-checked.** Liveness (`LockIsFreed`, `JobsEnd`, `ImportsCleaned`,
`PanelCloses`, `HealthSettles`, `AllReleased`, `JournalSettles`): fairness and
`ENABLED` are beyond the prover.

## 15. Not modelled, and why

- **Menus, renderers, parsers, validators**: pure functions or I/O; their
  outcome is nondeterministic in the models.
- **Settings** (TCP fast open, unlock DNS, upstreams) and **status requests** of
  the control API: single edits of one file through the same `tx_apply`.
- **Generation-checked probes** of exits in the bot (`pdg-bot.py` 4045-4360):
  results for the screen, discarded when the configuration has changed.
- **Sessions and cookies** of the web server: one table under one lock.
- **Snapshots, updates, binary swaps and the other migrations** of `pdg.sh`:
  long shell sequences over the whole file system, of which only the migration
  with a journal makes promises about a crash. The swap of binaries is a hazard
  in `PROJECT.json`.
- **Rule status receipts**, **nftables merge**, **diagnostics**, **MITM
  certificates**: text processing and read-only reports.
- **Installer, release tools, certificate hook, front end**: sequential
  scripts, or user interface. The certificate hook is an outside editor of
  `PdgTx`.

## 16. What could come next

1. A model of the binary swap (`CoreSwap`) and of the update that surrounds the
   migrations: a crash between the backup, the exchange and the verification.
2. Sessions of the web server, with expiry and logout from another thread.

Constants are parameters with named assumptions, invariants are conjunctions
of named parts, and recursion stays out of the modules that are proved about.
