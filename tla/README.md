# Verification of Yurarium

Yurarium keeps a bibliographic database of yuri manga and publishes it as a static site. Its
adapters fetch pages and catalogues, its facts and names packages turn them into records, a build
writes the records out, and a check-in gate decides whether what was written may be published.
This directory holds TLA+ models of the parts of that program that keep state between runs or
between processes, the TLC configurations that check them, and proofs about each of them.

Contents: the system's parts (1), the models and how they correspond to the code (2), the runs and
the fairness they assume (3), the disagreements found (4), the proofs (5), what is left out and why
(6), and what could come next (7).

To repeat a check: `tlc -config MCIdentityRegistry.cfg MCIdentityRegistry.tla`; to repeat the
proofs: `tlapm IdentityRegistryProofs.tla`, and likewise `CreditRegistryProofs`,
`NameStoreProofs`, `StoreProofs`, `FetchProofs`, `GateProofs`, `UpdateRunProofs` and
`FeedProofs`. Every run ends within three minutes.

## 1. The parts of the system

| part | state it keeps | operations | interacts with |
|---|---|---|---|
| Identifier registry, `adapters/facts/identity/` | `works.yaml` (and, through other modules, credits and publishers): entries with anchors, `merged_into`, detached anchors, relations | mint, survivor, index, assign, attach, merge, detach, withdraw, render | every build asks it for ids; pages are published under them |
| Credit identifiers, `adapters/credit_identity.py` | `credits.yaml`, and the ruling document a person writes | mint per spelling, hold back, apply rulings | the registry's functions; the corpus of the build |
| Publisher identifiers, `adapters/publisher_identity.py` | a registry of houses | mint, assign | the registry's functions |
| Gate, `check.py`, `test.py`, `cycle.py`, `adapters/greentree.py`, `.githooks/pre-push` | verify records, remembered counts, suite passes, budgets, the green-tree token | gate by hand, incremental and full; tests of what changed; both at once; push | the working tree, `data/build` and the compiled store `data/relational.db` |
| Names store, `adapters/names/store.py` | three YAML files (authors, titles, publishers), a journal for each and for the attempts, a lock file | load, record, compact, sweeps, clear a claim | several naming passes in one checkout |
| Fetch layer, `adapters/net.py` | per host: last request, pause, penalty; a page cache | fetch with retries | every adapter, from several threads |
| Update run, `.github/workflows/update.yml`, `run_stage.py`, `fieldaudit.py`, `runhealth.py` | the branch (captures, names, the ledger of failures in a row), the release, the open issues | fetch in stages, compile, audit and set back, record, push, name, put back, publish, sync the issues | every part below, the issue tracker |
| Naming job, `.github/actions/naming`, `adapters/naming` | items, a usage line, names | prepare, ask, judge, land | a step of the update run |
| Relational store, `adapters/relational/` | `data/relational.db`: tables, quarantine | compile into a scratch, apply it to the file, or save over the file; derivations, emit | the build, the gate, the site |
| Schedule, `adapters/schedule.py`, `checkstate.py` | when each row was last looked at | print a plan within a budget | nobody |
| Source ledger, `adapters/ledger.py` | row counts of earlier runs | compare, append | the workflow |
| First-seen ledger and feed months, `build.py`, `adapters/sighting.py`, `relational/emit.py` | `data/ledger/first-seen.yaml`: the day each release was first seen | remember, carry a date to a new key, decide the day a row is filed under, write the window and the months | the captures, which every run overwrites; the published months |
| The rest of `build.py`; the rest of the site, `interface.*`, `render/` | their output | one pass | everything above |
| Platform, shop and catalogue adapters; name resolvers; facts; editorial trail; lint; workflows | captures and reports | one pass each | fetch layer, names store |

The behaviours that are hard to test, and so are worth a model:

- **long histories of legal calls.** An identifier is a published address. Merges chain, anchors
  are lent, detached, attached again, and every build assigns over whatever is there. What must
  hold relates an address printed once to what every later history makes of it.
- **memory standing in for work.** The gate skips what it remembers, the tests skip what did not
  change, the hook skips both on a token. Each is right only if the digest it compares covers all
  that was read, and the two halves of a cycle run at once.
- **crashes and concurrent processes.** A naming pass can be killed between any two writes, and two
  passes may share one checkout with a lock that covers a compaction and not a load.
- **documents that grow.** A ruling is applied on every run, in file order, against the entries
  that earlier rulings left.
- **workers that wait on each other.** The threads of a fetch share a lock per host, sleep with it
  held, and are told to wait longer by whichever of them is refused.
- **numbers that differ on two sides.** A delta compares rows whose numbers were handed out twice,
  and what points at them points at another row on the other side.
- **a day that passes.** The captures are overwritten, the feed is written anew by every build, and
  where a row belongs depends on what day it is and on when it was first seen, under a name that may
  have changed since.
- **a workflow whose steps fail.** What is published, what is pushed and what is open in the
  tracker are three stores, changed by steps any of which may be the last of its run.

`PROJECT.json` lists every hazard with its line and the properties aimed at it, or the reason it
has none yet.

## 2. The models

### PublishedIdentifiers and IdentityRegistry

`PublishedIdentifiers` says what the registry promises someone who holds an address: an identifier
is issued once and has a live home; two homes may be joined for good; a name keeps its answer until
it is released by hand. It has no file, no index and no pass.

`IdentityRegistry` is the code. An entry is a number in the order of minting, its `anchors`, what
was `detached` from it and the entry it was `mergedInto`. `Merge`, `Detach` and `Attach` are the
options of the command line, taken before the assignment (`phase = "deciding"`). `BeginAssign`
builds the index once (`owner`). `AssignKnown` and `AssignNew` are one turn of assign's loop,
which patches that index by hand; `RelateSiblings` records the pairs of one title and author;
`Save` is the write, with the relations that render drops. `done` is history: the rows assigned
since the last decision.

- `Survivor` is survivor's walk in closed form: the live identifier the walk meets, or, where the
  merges close a circle, the one it enters the circle at. `SurvivorWalk` transcribes the loop, as a
  recursive function of the identifiers seen, and compares the two in every registry
  (`SurvivorIsTheWalk`), circles with and without a tail into them among them. The closed form is
  used because the arguments about merges are about the set of identifiers a walk meets, and not
  about its turns.
- `Index` answers with the last entry of the file that lists an anchor, and falls back to the other
  trailing-slash form (`Twin`).
- `Next` merges any two entries that exist and differ, which is all `--merge` asks: a loser retired
  already, a winner that leads to the loser. So identifiers do get lost in circles, and a loser
  merged again takes a page from one work to another; each property names the merges it is not true
  of (`Remerged`, a retired entry merged a second time, into another work; a work sent into a
  circle; `Undoing`, either) and holds at every other step, also from a registry in which such a
  merge was made before. `EveryIdResolves` and `OneWorkPerAnchor` are what is true as long as none
  was made: of the credits, whose rulings merge live entries only, and of the registry under the
  condition of `ReaderIsServed`.
- `Rows` and `Siblings` stand for the matching of titles, shelves and print runs: what a row is
  joined to is data, that the same rows come back is not.

### CreditRegistry

EXTENDS the registry with spellings for anchors and adds the run of `credit_identity.py`. `StartRun`
loads, decides which spellings are held back (a spaced spelling one part of which is a credit of its
own) and starts the assignment; `AssignSpelling` is a turn of the loop; `StartRulings`,
`ApplyMerge`, `ApplyWithdraw` go through the document one ruling at a time; `WriteRegistry` ends
the run. Between runs `CorpusChanges` and `AddRuling` change the input: rulings come in any order,
and the corpus prints what it likes, a string ruled no credit included, since nothing in this module
keeps it from doing so. `Reprinted` are the spellings it goes on printing against the document.
`settled`, `lastFaults` and `written` are history. `RoomToMint` is a bound: a run starts while
identifiers are left for all it may mint.

### Gate

`tree` is the files a person writes, each with its content or none, and which of them git tracks;
the compiled store that the checks read (`data/relational.db`); the corpus JSON of `data/build`;
the recorded budget and the tracker page. `Read` is what a check reads, files and store. `Key` is
what a pass is remembered under: all files, new ones included (`git ls-files --others` in
`_input_keys`), and `data/build`. `Covered` is what the token hashes: the tracked files and
`data/build`, as `greentree._files` lists them. `Named` is the key of a suite: the files it names,
and `data/build` if it names that. A check or suite `Broken` on given inputs fails there. The gate
is a process in four stages: `Prove`, `ReadBuild` (the store is read once, the source by each
check; without a store the gate ends), `RunCheck` per invariant, `GateAnswers` (budget ratchet,
memory, token and tracker, in the order of `main`). The test run is `RunSuite` per suite and
`TestsAnswer`, by hand, from the hook or within a cycle. `StartCycle` starts both halves and
`EndCycle` reads their answers. `Push` is the hook, which trusts the token, or starts the cycle,
or, where there is no corpus JSON, every test alone. `Edit` changes the source or the budget
between runs and `Build` rewrites the store, with the corpus JSON beside it or, as by default,
without.

What the properties assume is history in the state, and no specification of better use.
`unseen`: some build so far wrote the store alone, as `build.py` does unless it is asked for the JSON
(`--emit-json`), and from then on no digest tells what is read; `store_unseen` shows what it costs.
`beside`: the files as they were when the token was written, so that `NewFilesStay` can say that no
file outside git moved since. `Declaring` are the suites that read no more than they name, which
nothing makes a suite be, and `Trusted` those of them that name `data/build` only while no build
wrote the store alone. A property about a suite is about the trusted ones.

Simplifications: one invariant of each sort and one budget of the regression kind stand for the
lists; arrival, report and advisory budgets, the store report, the leak guard, the canaries' own
cases (the hook's `test.py --canary` among them) and the not-asserted exceptions are left out; the
tracker page is the minute it shows; the two lists an ordinary build writes into `data/build`
(works awaiting an identifier, open claims) carry only the day and those rows, and do not move with
the store; the hook vouches for the working tree, as the code's token does, and not for the commit;
a suite names a file or not, whatever becomes of its own text; files are edited and built only
while nothing runs.

### NameStore

A pass is a process with a memory. `ReadYaml` and `ReplayJournal` are load, a file at a time and
without the lock, ending with the digest. `Learn` is record: the journal line, flushed, then
memory. `Lock`, `MergeFromDisk`, `WriteYaml` per file and `Unlink` per journal are compact, and
`Kill` may take the place of any step. A journal that is unlinked while another pass has it open is
an `orphan`: lines go on being written to it, and nobody will find them. `Apply` is the rank rule
of `_merge_group`, with a reviewer's `supersede`. What happened is kept as history: the facts
learned and landed; `took`, what each pass recorded or replayed since it started; `unlinked`, the
lines a pass that had not taken them unlinked, or that were appended to an orphan; `crossed`, the
names two passes touched, or one touched while it remembered something else than is on disk; `met`,
the passes that have run beside another.

Simplifications: the line and the change of memory are one step (memory dies with the process, and
other processes see only the disk); a compaction may come at any time, since the threshold that
starts one is a matter of size; a value is a reading up to division, as `same_reading` compares
them; corroborations, citations, the spans and doubt sweeps, `clear_claim` and records edited in
place are left out; the attempts file behaves like one more file whose facts are of equal rank.
`ApartSpec` is the one assumption about use: no load overlaps a compaction, that is, a pass starts
where no compaction is under way, and a compaction waits until the others have loaded. `Spec` is
without it, and `names_overwritten` shows what an overlap costs. Passes may start over a journal
another is writing, compact under each other, share names and be killed at any step; what is lost
then is named by the properties, as a line in `unlinked` or a name in `crossed`.

### Fetch

A worker thread is `idle`, `queued` for the lock of its page's host, `sleeping` with the lock held
(`_wait`), `asking`, `writing` the cache file, or about to change the penalty (`penalising`,
`forgiving`) under the same lock. `since`, `penalty` and `lock` are the dictionaries `_last`,
`_penalty` and `_locks` of `net.py`; `since` counts how long ago, so that no clock grows. An answer
is one of those `outcome` tells apart: a page, gone (404, 410), a status nobody retries, one that
says not now, and the exceptions `_once` does not catch. `Kill` ends the process in any state and
starts the batch again with what the cache holds, a page cut in half included. `answered` and
`owed` are history: which pages a host ever gave, and what its refusals since its last answer
come to.

Simplifications: a fetch is of a batch (`fetch_many`); a stale cached file is one the read passes
over; `set_pause` is the constant `Pause`; `TakeCached` includes the renaming of a file kept under
an older key; times are in units of the pause.

### CompiledStore and Store

`CompiledStore` is the promise: the store says what one capture says, or nothing. `Store` is how the
build gets there. `Compile` makes the scratch, with its rows numbered in any order; each table has
one turn of apply's loop, parents first (`WritePublisher` row by row with `DropPublishers`, then
`ReconcileSurface`, `ReconcileClaim`, `ReconcileClaimRecord`), and `SetAliases` its deferred pass
over the references of a table to itself, setting and clearing; `Commit` ends the one transaction.
Where there is no file, or the delta is refused, `Unlink` and `Copy` are `save`. `Crash` stops a
build anywhere. `Said` reads a store with every number replaced by what it means, and is the
refinement mapping.

Four tables stand for the forty because apply treats a table by its shape, and these have every
shape: a stated id under a key that is another column (publisher), a number handed out with a
reference to its own table (surface), a key that contains a number (claim), rows that only point
(claim_record). Publisher is the one table where the order of writes matters: rows are written
one by one before any is dropped, and a row that finds its id taken refuses the delta. Left out: the
loaders, the derivations, a changed schema, and what the comparison with a rebuild does. The
quarantine is kept apart (`Row`), since the delta does not touch it. `store` runs without rows to
refuse, `store_quarantine` with one.

### UpdateRun

One variable per store that outlives a run: `remote` (the branch), `published` (the release),
`issues`. `run` is the job: `tree` is its checkout, `head` what the tree was checked out of or last
pushed as, `store` the database, `kept` the copy made after the push. `Stages`, `Compile`,
`FieldAudit` with `Recompile`, `Record`, `Push`, the naming job's endings (`NamingIdle`, `Judge` and
`Land`, `NamingStops`), `PutBack`, `Publish`, `Plan` with a call per issue, and `Finish`. `Fail` is a
step that fails: the run goes to the next step marked `if: always()` (`NextAlways`). `Lose` is a
runner that is gone.

Simplifications: a capture is good or has a selector that moved; a ledger count is kept at
`Threshold`; the audit's fault is a platform's, a stage's is a command's; a push is on top of what
landed meanwhile, and the model has no other writer of the branch; the naming passes of the run
itself and the second compile after them (`update.yml:307-340`), whose names the same push carries,
the weekly cadence, the audit of producers and the wording of an issue are left out.

### Feed

A row stands for a chapter of the web once its copies are one. `listed`, `stated`, `title`,
`platform`, `address` and `state` are what the captures say today; `ledger` is the file of first
sightings, from a key to a day; `feed` is what the last build said of each row, on the day `built`.
`KeyOf` and `LegacyOf` are `sighting.key` and `legacy_key`, `Seen` is the loop of `build.py` that
asks the ledger, carries a date over from an old key, or takes today. `Held` is the admission of a
row to the feed, `Backlog` the one-shots taken out again, `Pub` the lock on a guessed date, `Late`,
`Accompanied` and `Ended` the three questions that decide `Filed`, the day a row stands under.
`Build` does all of it; `BuildCut` is one that ends after the ledger is written. `MonthFile` and
`CurrentFile` are the files `feed_files` makes of it. `Capture`, `Withdraw`, `Correct`, `Lengthen`,
`Readdress` and `Turn` change what the captures say, and `NextDay` passes a day. `first` is
history: the first build that had the row, at an address it could be known by again.

Simplifications: the chapters of one work are spelled alike; a row of the feed's window and one read
from a page's single date take the same way in; printed volumes, which the ledger does not date, are
left out, and so are the comparison with the published months, a report, and their carrying forward,
which the site's own repository does. `Spec` starts with every work running, so that a state is one
change among the others; `RederiveSpec` starts with any states and changes none.

## 3. The runs

Two runs check liveness. `fetch` assumes that time passes and that a thread that can run does
(weak fairness of `Tick` and of each worker's step): the pool is of operating-system threads, and
every request has a timeout (`net.py`, `TIMEOUT`), so a request ends; what it ends with is left to
the host. `update` assumes that a call to the tracker about one source, made in run after run,
succeeds in one (strong fairness of `OpenOrUpdate` and `Close`): a call may fail in any run, and
ends the sync there, so weak fairness would promise nothing. That runs get as far as planning
their issues is not assumed of the system: it is the premise of the property.

| run | asks | bounds |
|---|---|---|
| `registry` | over every merge `--merge` accepts: types; `OwnerIsCurrent`; `ResolvesUnlessCircled`; `LinksMoveTogether`; `AnchorsStay`; `DetachedStaysOff`; `AssignIsRepeatable`; `RelationsCarriedOver`; `ReaderIsServed`, that a step from a sound registry which undoes no merge is one PublishedIdentifiers allows; and `SurvivorIsTheWalk`, that the closed form of survivor is the loop | 3 ids, 3 anchors (an address in both slash forms and a book), 1 detachment or relation recorded |
| `credit_rulings` | types; `OneWorkPerAnchor`; the document's promises: `RulingsHold`, `WithdrawnAnswersNobody`, `CleanRunIsRepeatable`, `RulingsMergeLive`, `RerunReportsNoFault` | 4 spellings, one of them spaced, 3 rulings out of a ring of merges and two withdrawals of one string, with and without a successor, in any order |
| `gate` | types; `RememberedIsTrue`, `VerdictIsRight`, `HeldTreePassesChecks`, `PushedChecksPass` | 2 contents of a module and of the store, a page that is absent, new or tracked, builds of either kind, 2 invariants, 3 suites (one names its module and reads the page as well, one names nothing, one is the proof), 1 minute |
| `names` | under `ApartSpec`: types; `LoadGivesMemory`, `NothingRecordedIsLost`, `LandedIsKept`, `StatedIsNotOverwritten` | 2 passes that learn of one title, 2 files, 1 line per journal at a time, a kill at any step |
| `fetch` | the types; `ServedWasAnswered`; `EveryoneBacksOff`; and, with fairness, `BatchEnds` | 2 workers, a page and an image of 1 host, 3 attempts, penalties 2 and 4 over a pause of 1, 1 kill |
| `store` | `StoreTypeOK` (the schema's keys and references); `StoreIsCompiled`, that the store implements CompiledStore; `UnmovedIsUntouched` | every capture of 2 names with an alias, 1 value, citations, 3 states of 2 publishers; numbers up to 4 |
| `update` | `UpdateTypeOK`; `PublishedIsBacked`; and, with fairness, `IssuesFollowLedger` | 1 command, 1 platform, 1 name, 2 failures to an issue, runs without end |
| `feed` | `FeedTypeOK`; `NeverNewsAgain`; `ShownStaysInItsMonth` | 2 rows of 1 work (one coverage led to, one a one-shot of a guessed date), 2 platforms, 2 addresses, 6 days in months of 2, a feed that looks 2 days back, 2 changes |
| `store_unseen`, `names_overwritten`, `store_quarantine`, `feed_month_moved` | one statement of the repository each, which the code breaks (section 4) | as `gate`, with 2 minutes; as `names`, with loads at any time; as `store`, with 1 row refused; as `feed`, 5 days, nothing changed but the day |

Why the bounds are enough. Three identifiers are the least with a chain of two merges, and with a
loser, a winner and a third holder of an anchor; three anchors give an entry one of its own, one
lent and one in both slash forms. They also make a circle of two with a tail into it, a circle of
three, and a loser merged into one work and then into the other. `FewRecords` bounds only what is
recorded of detachments and relations: one of either meets every order of merge, attach and assign
around it. Three rulings make a ring of merges, a chain around a withdrawal, or the two withdrawals
of one string with a merge. Two contents of each input are what staleness needs, the old one and
the new; a third would only be another new one. One minute is enough for the gate: the tracker page
is in the token only, and a second minute can only make a token be refused that would be held. One
line in a journal at a time still lets a replay apply a claim over a file that holds another, since
a compaction empties the journal and a pass goes on; the facts cover a tie and a supersession, of
one title that both passes learn of, so that names do cross. With two lines the run was explored
once, as far as 13 million states, without an error; that journals of any length behave is proved
(section 5). `MaxId`, `MaxRulings`, `MaxJournal` and `MaxKills` occur in guards, and nowhere else.
Two workers at one host are enough to have one sleep while the other is refused, and three attempts
to refuse twice and answer in between, so that a penalty is doubled to its limit, halved and
carried; the second page is asked for as bytes, which is the answer that forgives nothing. Two
names give an alias that moves, turns round and goes, and numbers that are swapped between the
scratch and the file; `MaxId` stops the builds after names have come, gone and come again under new
numbers. A command and a platform are the two kinds of source and give two calls in an order; two
failures to an issue tell a count from a flag. Six days are three months and let a row be found,
leave the window, leave the days the feed looks back and be given another key, each before or after
the others; the two rows differ in everything the code asks of a row but its work, which they share
so that one may keep the other from being news.

What the passing runs show, in the order of what would hurt most:

- of all that the command line may do to the registry, two things alone take a printed address from
  its page or give a registered anchor a second answer: a merge that closes a circle, and a second
  merge of an entry retired already; every other history of merges, joins, detachments and builds
  keeps the promise, and the rulings of the credits never do either;
- the hand-kept index of assign is always the real one, so no row is minted twice for being asked
  late (up to the slash forms, see section 4);
- running a build again changes nothing, for works and, after a run without faults and but for what
  the corpus prints against a ruling, for credits;
- as long as each build writes what is digested, the gate's memory is sound: every verdict is the
  one a run without memory would give, for a cycle as far as the suites read what they name, and no
  push gets by with a store the checks fail on, but for files that are not under git, which the
  token does not see. No memory ever makes a clean tree fail;
- a row is news once: no corrected platform, title in full, first address of its own or page that
  always says today brings it back, and while a month is in progress what was shown has a file;
- one naming pass killed anywhere, inside a compaction too, is found again by the next load, and
  nothing stated is displaced by something weaker;
- the lock and the merge from disk keep two passes apart where no load overlaps a compaction, whoever
  is killed and over whatever journal a pass starts, with two losses: a line another pass unlinked
  whose writer is then killed, and a name both are at;
- a worker never asks a host before the refusals met by any worker have been waited out, although
  requests may overlap; no refusal is ever cached; and no lock is held for ever, so a batch ends;
- whatever the numbers in the scratch and in the file, a build leaves a store that says what the
  capture says, and one that is killed leaves the store of before, or none, but never half;
- whatever fails in an update, nothing is released that the branch does not hold, and an issue that
  a failed call left wrong is put right by a later run.

## 4. Where the code and its comments disagree

Each is a run that fails, and a finding in `PROJECT.json`.

- `store_unseen`: the checks read the store, which is ignored by git and outside `data/build`; an
  ordinary build rewrites it and moves no digest, so the next gate, the proof and the suites answer
  from memory of an earlier store, and a token stays held, where the code speaks of "exactly these
  inputs". Found while the gate was modelled; the properties of `gate` say `unseen` where they do
  not hold for it.
- `names_overwritten`: load reads the YAML and the journals unlocked, so a pass that loads across
  another's compaction may later write back over what landed, where compact says it is kept.
- `store_quarantine`: `create` says a quarantined row stays until something admits it or a ruling
  does, "and a rebuild is not either of those". A publisher whose name changes under its identifier
  makes the delta refuse (its key is its name, and rows are written before any is dropped), the build
  replaces the file, and the rows quarantined before are gone.
- `feed_month_moved`: a row's month "is decided by the first-seen ledger, so re-deriving cannot move
  one" (`docs/FEATURES-INTERFACE.md:57`), and an older find "stays where it was filed, because the
  months it would leave are closed" (`build.py:7067-7068`). A one-shot found late is filed on the day
  it was found for as long as that day is within `FEED_DAYS`; the build after that files it under its
  publication date.

Seen while modelling, and not made runs.

Registry and credits:
- detach takes an anchor off "the work holding it" (`identity/__init__.py:461`), but after a merge
  two entries list the anchor and only the first of the file loses it (480-490); an anchor detached
  from a work that is then merged comes back through the winner;
- two `--merge` options can close a circle, after which nothing of the circle resolves to a live
  entry. `--merge` asks only that its two entries exist; the guard it would need is that the loser is
  not on the winner's way to its survivor, and no more (`MergesOfTheCommandLine`, section 5);
- `--merge` of a loser retired already, into another work than before, sends its address from the one
  work to the other, which are not the same, and leaves its anchors on both: two live works then list
  one anchor, and the order of the file decides which answers (`identity/__init__.py:410-426`,
  243-265). The merge that was meant is of the first winner;
- the two slash forms of one new address are minted twice in one pass, because assign patches its
  index for one of them only;
- a relation whose sides are joined by a chain of two merges stays in the file, since the write
  reads `merged_into` once;
- a withdrawal that names no successor is reported as refused from the second run on
  (`credit_identity.py:359-363`), because the test for an earlier run's work looks only at entries
  with a successor. `data/identity/credit-rulings.yaml` has one, of アンソロジー, so every run reports a
  fault (`RerunReportsNoFault` leaves it out by name). A string the corpus prints again after its
  withdrawal is minted again by every run and withdrawn again, a new identifier each time;
- a re-run over unchanged data is to mint nothing (`credit_identity.py:245-246`), but a spaced
  spelling is held back for as long as a part of it is a credit (298-323): the run that withdraws
  the part holds the spelling back, having looked before it read the rulings, and the next run
  mints it.

Gate:
- the hook says gate and tests passed on this tree (`pre-push:35`) on the word of a token the gate
  alone writes (`check.py:6578-6584`), beside a test half that may have failed;
- the token does not hash a file that git does not track yet (`greentree.py:37-39`), which the
  checks read and the gate's own digests cover (`check.py:175`): a new file that fails leaves the
  token held, and the next push goes by. It is the fault `check.py:171-174` tells of, for the
  digests;
- a suite that reads what it does not name is skipped when that moves, as `test.py:169-172` says,
  and a cycle and a push from it go by;
- the hook takes `data/build/series.json` for the sign of a build, so with a store and no such file
  it runs the tests and no gate, and the push is of a tree every suite passes on and any check may
  fail on (the last part of `PushedChecksPass`);
- the gate hashes the tree for its token and then rewrites the tracker page, a tracked file with the
  minute on it, so the token is refused for a tree nobody touched.

Names store:
- another pass's compaction unlinks a journal that a running pass writes to (`store.py:387-390`);
  killed before it compacts, that pass loses what it recorded, where the module says at most the name
  in flight (11-12). `NothingRecordedIsLost` names the case, `unlinked`;
- `_touched` is never cleared, so a pass that lives long enough may put an old value of its own over
  a newer one; and what it replays from another's journal counts as touched, so a pass that starts
  over a journal puts its lines over what their writer lands later. Both are of names two passes are
  at, `crossed`.

Feed:
- "the seed date is not evidence" (`build.py:6024`) is asked of rows inside the window only: one
  that coverage led to and whose date falls out of `FEED_DAYS` is marked late where it is read
  (4415), whatever day it was first seen, and a seeded one is then filed under the seed date;
- a row that moves from one address to another is a new sighting, since `carried` searches the keys
  of the old form only. `sighting.py` says as much; both properties leave the case out by name.

Fetch:
- `fetch` "never raises" (`net.py:306`), but `http.client.IncompleteRead` and `BadStatusLine` are
  neither `URLError` nor `OSError` (369-375) and get through; `fetch_many` keeps them as results;
- "each host stays strictly serial" (392), but the slot is released before the request is made
  (151-152), so slow requests to one host overlap;
- a page asked for as bytes has no text, which `outcome` does not take for an answer (253-265), so
  an image never forgives its host.

Update run:
- an issue is closed with "it has worked again since this issue was opened" (`runhealth.py:106`),
  which need not be so: an issue opened from a ledger whose push failed is closed by the next run,
  which starts from the old count;
- the naming job "cannot hold the publish back" (`update.yml:522`); its minutes do count towards
  the job's own limit, past which nothing is published;
- what a compile refuses is put aside in the scratch, and where the scratch is applied as a delta
  it never reaches the live quarantine.

## 5. The proofs

### The registry

`IdentityRegistryProofs` proves, for every number of identifiers, any anchors and any rows, of
`Spec`, with every merge the command line accepts:

| theorem | of | says |
|---|---|---|
| `TypeCorrectness` | `TypeOK` | the answers of the index stay identifiers |
| `IndexIsCurrent` | `OwnerIsCurrent` | assign's patched index is the entries' index |
| `SurvivorWalks` | `SurvivorIsTheWalk` | the loop answers what the closed form says, circles included |
| `Resolvability` | `ResolvesUnlessCircled` | which step makes an identifier stop resolving, and that no other does |
| `PublishedLinks` | `LinksMoveTogether` | an address and its page move together, two kinds of merge apart |
| `RegisteredAnchors` | `AnchorsStay` | an anchor keeps its work, the same merges apart |
| `DetachedAnchors` | `DetachedStaysOff` | only a merge gives an anchor back |
| `RelationsKept` | `RelationsCarriedOver` | the write drops no relation of two works |
| `RepeatedPass` | `AssignIsRepeatable` | what is assigned is not assigned again |
| `RegistryImplementsPromise` | `ReaderIsServed` | from a sound registry, every step but an undoing merge is one of PublishedIdentifiers |

and of `CommandSpec`, whose merges close no circle but may take a retired loser again:

| theorem | says |
|---|---|
| `MergesOfTheCommandLine` | every id resolves as long as no merge closes a circle, and exactly those merges break it |

Assumptions: `MaxIdAssumption` (a natural number), `TwinAssumption` (the slash form of the slash form
is the address), `RowsAssumption` and `SiblingsAssumption` (their types). `Anchor` may be any set.

The argument. The module has three parts, since the registry may be in three conditions.

*Any links.* `MetBy`, `LoopBy` and `SurvivorBy` are what the registry asks of its walks, over any
links, circles included. `Walk` is a recursive function, so the first thing to prove is that it has
a value: every state of the loop (where it stands, what it has seen) has at most one stop ahead of
it, and the assignment of those satisfies the loop's equation (`WalkSteps`). `Trail` is the loop's
invariant: what has been seen is a path from the start, each identifier once, each leading on to
where the walk stands and not back. A turn keeps it (`TrailGrows`), and the walk ends (`WalkEnds`):
of all trails take one that has the fewest identifiers left. It ends at a live identifier, the only
one met (`TrailToLive`), or back at one it has seen, which is the one identifier of the circle that
its tail leads into (`TrailToCircle`); the closed form names the same (`WalkAnswers`). A merge
repoints one link, so what is needed of it is what a walk does then: one that does not come by
answers as before (`OffTheWay`), one that does goes on from where the link now leads
(`RepointedWalk`). From these follow the three theorems about addresses (`WalksMoveTogether`,
`AddressesFollow`); no other step changes a link (`StepRepointsNothing`).

*Any registry.* `Base` is the invariant of `Spec`: the types, that a merge leads to an entry of the
listing (`OnlyIssued`), and what assign knows. `OwnerIsCurrent` is not inductive by itself.
`OwnerIsIndex` is its other half: where assign's index has an answer the entries give it too, also
for an anchor of which only the other slash form is registered. `DoneIsSettled` says of every row
assigned since the last decision that each anchor it joins is listed by its entry, refused to it,
or answered by somebody else. One lemma per operation (`DetachBase`, `AttachBase`, `MergeBase`,
`AssignKnownBase`, `AssignNewBase`, and `UnreadKeeps` for the ends of a pass) shows that all of it
is kept, whatever was merged before. `IndexIsCurrent`, `RepeatedPass`, `DetachedAnchors` and
`RelationsKept` follow.

*A sound registry*, in which the links are a forest (`Acyclic`: no set of retired identifiers keeps
its successors to itself) and no anchor is split. Then the walk from anywhere ends at exactly one
live identifier (`SurvivorFacts`), and a merge that is not `Undoing` sends to the winner what
resolved to the loser and nothing else (`SurvivorMerged`, and `SurvivorRejoined` for a retired
loser merged into the same work again). `IInv` is the conjunction of the types, the forest,
`OneWorkPerAnchor` and what assign knows of it; `StepKeeps` says that every operation but a merge
keeps it, `SoundMergeKeeps` that such a merge does, and `Sound` that a registry of `Spec` in which
every identifier resolves and no anchor is split is one. The refinement reads it through two
functions, `Home` (where an identifier leads) and `Answer` (what a registered anchor answers). By
`IInv` the answer is that of any holder (`AnswersAgree`), so it moves only where holders do, and
one lemma per operation names the step it is to a reader: `MergeIsJoin`, `DetachIsRelease` (or a
stutter, where a later entry lists the anchor as well), `AttachIsClaim`, `AssignKnownIsClaim`,
`AssignNewIsIssue`, and a stutter for the rest. `MergesOfTheCommandLine` needs the forest only,
which a merge keeps if the loser is not met from the winner (`ForestKept`); `SurvivorIsLive` says
that a walk answers with a live identifier exactly when it meets one, which is where the "exactly"
comes from.

### Credits

`CreditRegistryProofs`, for any spellings, any document and any number of identifiers:

| theorem | of | says | of the document |
|---|---|---|---|
| `CreditTypeCorrectness` | `CreditTypeOK` | the registry keeps its types through runs and rulings | |
| `CreditsResolve` | `EveryIdResolves` | every credit ever issued resolves to a live one | |
| `CreditsAgree` | `OneWorkPerAnchor` | a spelling is one credit | |
| `LiveMerges` | `RulingsMergeLive` | what a ruling retires is live and leads to a live credit | |
| `MergesHold` | `RulingsHold` | after a run every merge it did not refuse holds | `RulingsAgree` |
| `WithdrawalsHold` | `WithdrawnAnswersNobody` | after a run what is withdrawn answers nobody | `RulingsAgree` |
| `NoFalseFault` | `RerunReportsNoFault` | a re-run reports no ruling that the last run applied, but a withdrawal without a successor or of a string that is printed again | `RulingsAgree` |
| `CleanRepeat` | `CleanRunIsRepeatable` | a re-run of a run without faults changes no entry of that run, and mints only for what the corpus prints against the document | `RulingsAgree` |

The one hypothesis is about the document, which the code takes as it is. `RulingsAgree`: no string is
both withdrawn and a side of a merge. Of two such rulings one cannot hold, and the code applies
both. The rulings of the repository fulfil it. Nothing is assumed of the corpus, of the parts of a
spaced spelling, or of where a withdrawal sends its readers: what these cost is in the statements.

The argument. `CInv` is the registry's `IInv` with the types and the cursors of a run; the action
lemmas of the registry are cited for what a ruling or a spelling does to an entry
(`RegistryKeeps`), and what is new is a retirement without a merge (`WithdrawKeeps`), for which
`Survivor` of the retired entry is itself. Above it are three invariants. `StandingInv` adds
`Alone` (no two live credits share a spelling, and who detached a withdrawn string is retired or
does not list it) and `RulingsStand` (each ruling in `settled` is true of the entries), with one
lemma per effect a step may have on the answers: it rests, mints, joins two credits, adds a
spelling to one, or makes one leave (`RestEffect`, `MintEffect`, `JoinEffect`, `AddEffect`,
`LeaveEffect`). `ReplayInv` adds what a run remembers of the last one (`Remembered`). For a run
over what another left, `FaultsAreOld` says that a withdrawal with a successor which is not among
the faults has left its mark, a retired entry it was taken off (`Noted`), and that it stays. For a
run over what a clean one left, `Covered` says that every spelling of the corpus is answered, ruled
out, held back for a part, or still to be minted by this run, and `Fresh` that a withdrawn string
is listed by entries of this run only, so that withdrawing it again touches no other.

### The names store

`NameStoreProofs`, for any passes, files, names, values, facts and bound on a journal, of
`ApartSpec`:

| theorem | of | says |
|---|---|---|
| `NameStoreTypeCorrectness` | `NameStoreTypeOK` | the lock is held by the pass that compacts, and by no other |
| `KilledAnywhere` | `LoadGivesMemory` | a pass killed at any step, alone, leaves what it knew to the next load |
| `RecordedIsKept` | `NothingRecordedIsLost` | what was recorded is known to a load or to a pass at work, two named losses apart |
| `LandedStays` | `LandedIsKept` | what a pass wrote stays written, until two are at its name |
| `StatedClaimsStand` | `StatedIsNotOverwritten` | an answer gives way by the rank rule only |

The hypotheses. `StoreAssumption` has the types of the constants, that there is a file, and that
the files have different names. `ApartSpec` is about use: no load overlaps a compaction. Which
names the passes learn, when they start, over whose journal, and who is killed is left open.
Neither loss named in `NothingRecordedIsLost`, nor the one in `LandedIsKept`, can be left out: TLC
finds each on the instance of `names`.

The argument has two halves. The first is about a journal. Induction over its lines is induction over
the set of sequences the statement holds of (`LineInduction`, from the least length it could fail
for), and gives what a replay does to one record: nothing, where no line is about its name
(`ReplayElsewhere`); a result that depends on that record alone (`ReplayIsLocal`); the values it had
and those of the lines (`ReplayValues`). A kill inside a compaction leaves a file with its journal
still beside it, so a journal is replayed over a file that has it already. That this changes nothing
(`CompactedAgain`) is not plain, since applying a fact twice is not applying it once: a claim applied
again may land beside the one that displaced it. What answers is the same by `ReplayedAgain`: if a
line supersedes, then what answers does not depend on what did (`SupersedingDecides`); if none does,
what answers is stated as well as each of them (`BestStatedAnswers`) and outranked by none
(`BestStatedStays`). The values are the same as well, and a swept record is its answer and its values
(`SweptIsItsValues`).

The second half is `NInv`, which says of every pass how its memory stands to the disk, wherever the
others are. While it loads nobody compacts, so what it has read and not touched is on disk, and so
is every line it took (`LoadIsOfDisk`). At work, a name it has not touched it remembers as it saw
it (`MemoryIsSeen`), and a name it alone has touched it knows at least what the file says of and
what it took (`TakenIsKnown`, `TouchedApart`). In a compaction its memory is swept, and on disk
where it has been written or the pass has no say (`WrittenIsMemory`). So every fact is in the file,
in the journal, or was unlinked unwritten (`LearnedIsPlaced`): a pass that unlinks a line either
took it, and has then written a record that knows it, or makes it `unlinked`. Where a name is
`crossed` nothing is claimed. `LoneIsExact` is the sharper fact of a pass that is `Undisturbed`:
what it remembers is what a load would give, and in a compaction what a load would give once swept.
There is one lemma per action; those that leave the disk alone share `FilesRest` and `DiskRests`,
and those under the lock `Locked`.

### The relational store

`StoreProofs`, for any captures, publishers, names, values and rows to refuse, with the scratch and
the file numbered anyhow (`StoreAssumption`: finitely many names and values, and captures that are
`Sound`, as the registries and the loader make them; `Capture` may be all of those):

| theorem | of | says |
|---|---|---|
| `StoreTypeCorrectness` | `StoreTypeOK` | the committed file passes every constraint of the schema |
| `ImplementsCompiledStore` | `StoreIsCompiled` | the file says what one capture said, or nothing |
| `UnmovedRowsStay` | `UnmovedIsUntouched` | a delta that says nothing new changes no row and no number |
| `DeltasKeepWhatStood` | `DeltaKeepsWhatStood` | a delta keeps the quarantine, the number of every name, and that of every claim it keeps |

`Said` chooses a row for every number, which is no way to reason about two stores at once, so the
proof reads a keyed store by relations instead (`Reads`: there are rows that ...), shows that this is
the same (`ReadsIsSaid`), that the scratch reads as its capture (`ScratchSays`), and that two stores
which read alike, and agree on the numbers of what they share, are one store (`SameStore`).

The invariant `StoreOK` says of each stage of the transaction what is done and what is still the
file's. After the surfaces (`SurfacesDone`) the map of numbers leads from each row of the scratch
to the row of the same name, and a number of the file stands for the name it stood for there,
dropped rows included: inserts number upwards from what is there (`NumbersAreFresh`), and rows are
inserted before any is dropped. `ClaimsHeld` is what the cascade leaves: the claims of the file
whose surface is still there, and all of them. That is why a claim which keeps its key keeps its
number (`ClaimsDone`), although a dropped claim's number may be handed out again. Aliases are
translated when every row has its number (`AliasesDone`). `DoneReads` puts the parts together: a
store whose tables are done is keyed and reads as the scratch does. The steps of the tables are
then stutters of `CompiledStore`, `Commit` and `Copy` its `Finish`, `Unlink` its `Replace` and
`Crash` its `Abandon` (`StepIsCompiled`). The bound `MaxId` is used once, for a file to have a
highest number. `DeltaKeepsWhatStood` is of every delta, whatever it changes: a number the file
used for one name is never another's afterwards. With it, what `store_quarantine` finds lost
(section 4) is lost on one way only, by the file being replaced.

### Fetch

`FetchProofs`, for any pool, pages, hosts, pauses and bounds on the penalty (`FetchAssumption`: the
smallest penalty is no more than the largest, and `Long` is beyond any gap):

| theorem | of | says |
|---|---|---|
| `TypeCorrectness` | `FetchTypeOK` | a host's lock is held by exactly the worker that sleeps on it |
| `BackingOff` | `EveryoneBacksOff` | every worker waits out what any worker was refused |
| `CacheHonesty` | `ServedWasAnswered` | what the cache serves came from the host |
| `NoPageIsLost` | `PagesInHand` | a page without a result waits or is in exactly one worker's hands |
| `NobodyIsStuck` | `SomebodyMayMove` | while a page has no result some worker may move or sleeps on, in a pool with a thread |
| `WorkIsBounded` | `WorkRunsOut` | a batch not killed takes at most six steps a page for each attempt |

`EveryoneBacksOff` is about the moment a worker leaves the lock, with a gap it read when it entered.
The strengthening is `GapIsCurrent`: the gap of a sleeping worker is the pause and the penalty as
they are now, since nobody changes the penalty while the lock is held, and what is owed is at most
the penalty, since both double together, a penalty is only halved where what is owed becomes
nothing, and doubling keeps the order (`DoubledBounded`). `DiskWasAnswered` extends
`ServedWasAnswered` to every file and every worker about to write one.

The last three are what `BatchEnds` rests on besides fairness, and are stated in the proof module,
over the model's variables only. `PagesInHand` is inductive with the types: every step of a worker is
one of four things to the batch (`WorkIsOnOnePage`: a page served from the cache, taken up, advanced,
or finished). Nobody is stuck because the types say who holds a lock: one who sleeps, whose gap is
below `Long`, so that either the gap has passed or time may pass. `StepsLeft` counts the steps a page
may still take, six to an attempt, the longest being a refused one; a step lessens the count of its
own page and of no other (`WorkLessens`). So of `BatchEnds` only this is left to TLC: that a thread
which may move does.

### The gate

`GateProofs`, for any checks, suites, files, contents, budgets and whatever fails on what, of `Spec`,
with builds of either kind and new files:

| theorem | of | says |
|---|---|---|
| `TypeCorrectness` | `GateTypeOK` | the memories, the token and the processes keep their types |
| `MemoryHolds` | `RememberedIsTrue` | what a run would skip now says nothing now: of the checks until a build writes the store alone, of a suite while it is trusted |
| `VerdictHolds` | `VerdictIsRight` | no memory fails a clean tree; `--full` is exact; a gate and a cycle from memory are, under the same conditions |
| `TokenHolds` | `HeldTreePassesChecks` | the token vouches for no tree the checks fail on, unless a build wrote the store alone or a file outside git moved |
| `PushHolds` | `PushedChecksPass` | what goes past the hook on the token's word, from a cycle, and with nothing built |

`GateAssumption` has the types of the constants, that the budget and the contents are told apart from
nothing, and that the proof cannot fail where there is no store to plant a canary in. It says nothing
of what a suite reads.

The properties speak of the tree as it is, but memory has to survive edits: a tree that is put back
must find its old passes true. So the invariant `GateIInv` says that what is remembered under a
digest is true of every tree with that digest (`MemoryIsTrue`), which an edit cannot disturb, as
long as no build wrote the store alone; that until then the store is the one the corpus JSON tells
of (`Synced`); and that a gate or a test run under way has found nothing that does not fail, and,
where its memory is right (`Exact`), all that fails among what it has looked at (`GateIsTrue`,
`TestsAreTrue`), with what may run beside what (`RunsTogether`: the proof is left out only within a
cycle, whose tests have it).

### The update run

`UpdateRunProofs`, for any commands, platforms, answers and threshold:

| theorem | of | says |
|---|---|---|
| `TypeCorrectness` | `UpdateTypeOK` | a run that comes to publishing has a store it kept after its push |
| `PublishedFromBranch` | `PublishedIsBacked` | no name is released that the branch lacks, and no moved capture of a platform's own file reaches branch or release |
| `IssuesKeepTheirSide` | `IssuesAreNotUndone` | while a source stays down, or well, no run works against its issue, and a call that got through stays done |

`UpdateIInv` adds to the types that branch and release are good (`BranchIsGood`), and of the run
which names its tree, store and kept store may have at each step (`RunNames`), that its captures are
good from the audit on unless it failed (`RunCaptures`), and which steps a failed run never reaches
(`RunOrder`). There is one lemma per action.

`IssuesAreNotUndone` is the safety half of `IssuesFollowLedger`, for each source: `Opening` and
`Closing` say what a run has in hand for it is right (the ledger of its tree counts it so, it is not
on the list of the opposite calls, and once planned its own call is made or still to come). A run
begins so (`Start` checks out the branch), the record keeps the count on its side of the threshold
(`RecordedStays`), and the plan follows the count. What is left to TLC is that, run after run, the
call gets through.

### The feed

`FeedProofs`, for any rows, works, platforms, dates, windows and length of a month
(`FeedAssumption`: the types of the constants):

| theorem | of | says |
|---|---|---|
| `TypeCorrectness` | `FeedTypeOK` | no sighting is of a day to come, and no row is filed after its build |
| `NewsOnce` | `NeverNewsAgain` | a find, or a date nobody stated, is never filed after the first build that had it |
| `MonthsKeep` | `ShownStaysInItsMonth` | a row leaves its month only for a reason of its own |

Everything rests on one fact about the ledger, `OneSighting`: however many keys a row has had,
those that hold a day hold the same one, as long as one of them is of the old form. It is kept
because the old form is written only while the row has no address, and nothing is known of an
address the row has not had (`FreshAddress`). `KnownSinceFirst` says that a row a build had can
still be found, by its address or by its names; `FeedFollowsLedger`, that what the last build said
of a row follows from a day the ledger still holds for it, so that the next build, asking under
whatever key, goes by the same day (`SeenAsSighted`).

### Only model-checked

The liveness properties (`BatchEnds`, `IssuesFollowLedger`), since the prover has no rules for
fairness. What they rest on besides is proved: for the first that no page is lost, nobody is stuck
and the work runs out, for the second that nothing done is undone. Every other property of the runs
that are to pass is a theorem. A function that is a fold over a sequence or that walks along links
can be reasoned about, as the names store and the registry show, if the induction is over a set;
the library's induction theorems that take an operator cannot be used.

## 6. What is not modelled

- The build but for what `Feed` has of it, the site but for its feed files, and every parser:
  functions of their input, with no state between runs. Their correctness is asserted of the output
  by `check.py`. These are most of the repository's lines, and the reason why the models cover a
  small share of it.
- The name resolvers, the facts and the judging of a naming answer: language data. What they record
  enters `NameStore` as its facts and `UpdateRun` as its answers.
- Publisher identifiers: the registry's code with another prefix.
- `schedule.py`: its plan is printed and no run follows it, so a model of runs that do would be of
  another program. That a row's floor may be passed for ever is a fact about the printed list.
- The source ledger: one comparison of two files. It sees a drop between two runs only, which is all
  it says it does.
- The derivations of the relational store and their convergence: what settles depends on what each
  derivation computes. `converge` raises when it has used up its passes, settled or not.
- Inside the modelled parts: what section 2 names as simplified. Of these, edits during a gate run
  and `clear_claim` are real hazards.

## 7. What could come next

1. `NameStore`: `clear_claim` and curate's edits, which journal nothing. `Gate`: edits while a run is
   under way, with each check's read a step of its own.
2. The pure parts of the registry as operators checked over bounded inputs: the joins of `propose`
   and `chain_joins`, `relation` and `full_script_flip` of the credits.
3. `Store`: the refusal of a delta by other tables than publisher, and the comparison of a delta with
   a rebuild.
