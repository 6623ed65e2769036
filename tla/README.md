# A verification development for WebToApp

WebToApp turns a web application into signed native applications. The
repository holds the parts of that product which exist today: a specification
format and its validators, a policy engine, a static analyzer, the `wta` command
line, a control plane with its database and jobs, native shells, and the bridge
by which a hosted page talks to its shell.

This directory models those parts in TLA+, checks the models with TLC on small
instances and proves what matters most with TLAPS for every instance.

## 1. The system

| Component | Source | State it keeps | Operations |
|---|---|---|---|
| SDK bridge client | `packages/sdk-js/src` | map of in-flight requests, armed timers, abort listeners, open send promises, the disposed flag | `request`, reply listener, timeout, abort, send failure, `dispose` |
| `wta` project export | `crates/wta/src/project.rs`, `safe_io.rs` | the output directory and its files | check, create the directory exclusively, write every file, write the manifest last |
| `wta` output files | `crates/wta/src/safe_io.rs`, `commands.rs`, `digest.rs` | one output file | path check, exclusive or truncating open, write, sync, hash |
| `wta` specification rules and commands | `crates/wta/src/spec.rs`, `commands.rs` | the specification file | draft (`init`), load, schema, semantic rules, verdicts of `analyze` and `build`, canonical digest |
| Static analyzer | `packages/analyzer/src` | one inspection: redirect count, pinned address, deadline; entry counters, seen names | `inspectUrl`, `inspectZip` |
| Control plane database | `apps/control-plane/drizzle`, `src/server/db` | tenant tables, row security, immutable revisions | statements under a tenant setting, cascades, triggers |
| Jobs | `apps/jobs/src` | build targets and their leases, domain verifications | `expire_build_leases`, `expire_domain_verifications` |
| Control plane API | `apps/control-plane/src/server/api.ts` | none | validate an AppSpec and evaluate the policy pack |
| Policy engine | `packages/policy-engine/src` | none (pure) | pack selection by time, six rules, classification |
| AppSpec package | `packages/app-spec/src` | none (pure) | schema and semantic validation, canonical JSON, revision freezing |
| Desktop runtime | `runtimes/desktop/src-tauri/src` | the loaded specification, the `ready` flag, two windows, the permission policy | setup, navigation filter, reveal, close, permission denial |
| Android runtime | `runtimes/android` | the web view and its bridge listener | navigation filter, bridge replies |
| iOS runtime | `runtimes/ios` | the web view and its reload id | navigation filter |

How they interact: the page calls the SDK client, whose transport is a channel
the native shell owns; today the Android shell answers every call with a
refusal. The CLI drafts a specification or reads one, validates it by the schema
and the rules of `spec.rs`, and exports a project with that specification as its
`resources/appspec.json`, which the desktop runtime validates again at start by
rules of its own and without the schema. The control plane validates the same
specification by the schema and the TypeScript rules and evaluates the policy
pack; the mobile shells have one more set of rules. The control plane's database holds
immutable revisions, builds made from them, and targets that runners lease; the jobs worker expires leases. No API
route writes to that database yet: authentication, runners and the verification
of domains do not exist (docs/implementation-status.md), so the database and the
jobs are modelled under arbitrary legal statements of their future users.

### What is hard in each part, and what makes it correct

* **SDK bridge client.** Five handlers may settle one request (reply, timer,
  abort, failed send, dispose), each through a closure that captured the id, not
  the map entry. The native side may answer late, twice or never. Correct: every
  caller that waits has its entry and its timer; no closure survives its call; a
  reply reaches only the request it answers; a promise is settled once; a fired
  signal and a disposed client leave nothing in flight; every request is settled
  in the end.
* **URL inspection.** A name server may change its answer, a server may redirect
  anywhere or fall silent, and the deadline may fire between the resolver's
  answer and the code after the `await`. Correct: connections go only to public
  addresses and allowed origins, to an address that was checked in this hop; a
  result is never a body that was cut off at the limit; nothing is opened after the deadline; the
  function ends.
* **Archive inspection.** The zip library's callbacks still come after the
  deadline closed the archive; names, sizes and totals are checked one entry at
  a time. Correct: what is accepted is a tree that was read completely and
  verified; no more is expanded than the limits and one chunk; no further entry
  is asked for once the promise is settled; the promise is settled.
* **Project export.** Several exports, kills, failed writes, a loss of power and
  a user who removes the directory. Correct: the manifest is proof of a whole,
  durable project of one export; nothing that exists is replaced.
* **Output files.** Checks of a path and its opening are separate steps.
  Correct: only `--force` replaces; a link is followed only if it was put there
  in that gap; the digest reported is that of what was written; a reader never
  accepts a part of a file or one over the limit.
* **Control plane database.** Correct: no sequence of statements and cascades
  links rows of two tenants; no statement on rows changes a revision; a session
  touches its own tenant only.
* **Jobs.** A run takes the time and picks its rows, may wait for those that a
  runner is changing, and may overlap with another run or fail. Correct: the task
  expires exactly what the tested function says; a run ends nothing that is live
  and leaves nothing that had run out when it began.
* **Specification rules and policy engine.** One document is judged by seven
  pieces of code in four languages, through four parsers of URLs. Correct: what one part exports the next
  accepts, or it is known exactly what it refuses; a draft lacks nothing but
  evidence; no tool takes what a document says of itself for evidence.
* **Desktop shell.** Set-up runs partly in a closure on the UI thread; every call
  in it may fail, and the page and the user act between its steps; the resource
  it starts from may have been rewritten. Correct: nothing remote is shown before
  the permission policy is installed and the navigation filter armed, nor outside
  the origins of the configuration; no failure leaves an invisible process.

## 2. Modules

| Module | Models | Proofs |
|---|---|---|
| `BridgeCalls` | what `request()` promises its caller (abstract) | |
| `Bridge` | `client.ts`, refines `BridgeCalls` | `BridgeProofs` |
| `UrlInspect` | `inspectUrl` | `UrlInspectProofs` |
| `ZipInspect` | `inspectZip` | `ZipInspectProofs` |
| `SealedProject` | what an output path is to those who look at it (abstract) | |
| `ProjectExport` | `export_windows` over `write_regular_file`, refines `SealedProject` | `ProjectExportProofs` |
| `OutputFile` | `write_regular_file`, `read_regular_file_limited`, `sha256_file` on one path | `OutputFileProofs` |
| `AppSpec` | the document: what the rules of all parts tell apart | |
| `SpecRules` | every judge of it: schema, `spec.rs`, `init`, `analyze`, both builds, `validation.ts`, the API, policy pack, `config.rs`, the Android shell | |
| `DesktopShell` | set-up, navigation filter, windows and permission handler of the desktop shell | |
| `Preview` | from a draft to a window: `SpecRules` and `DesktopShell` composed | `PreviewProofs` |
| `TenantDb` | both migrations, and TRUNCATE | `TenantDbProofs` |
| `BuildLease` | both tasks, with runners as environment | `BuildLeaseProofs` |
| `MC*` | small instances of each for TLC | |

Each module starts with a comment on what it keeps and leaves out, then state,
`Init`, one action per handler or step, `Next`, fairness, and its properties. A
section *Seeded faults* holds variants of some definitions that a slip in the
code would amount to; they are not used by the model. With a variant in place of
the definition the property that guards against it is violated, which shows that
the property is not vacuous.

### Bridge

JavaScript runs a handler to completion, so a handler is an action. `pending` is
`#pending`; `timers` and `listeners` are the armed timeouts and registered abort
listeners; `sends` the promises of `send()` that have not settled; `idOf`,
`methodOf` and `signalOf` what a call's closures captured. `reached`,
`answeredBy` and `outcome` are the outside: which requests the native side has,
and what each caller's promise has come to. Every early return of `request()` is
an action (`RequestDisposed`, `RequestInvalid`, `RequestAborted`,
`RequestRepeatedId`); `RequestSend` covers a `send()` that returns nothing or a
promise, `RequestSendThrows` one that throws. `TimerFires`, `Abort`,
`SendRejects`, `Receive`, `ReceiveMalformed` look up whatever call holds the
captured id when they run, as the code does. The codec is abstracted to valid,
malformed with a readable id, or unreadable (a stutter). `FreshIds` says whether
the id factory ever repeats an id: the default (`randomUUID`) does not, one that
a user passes may, as the loop of `request()` checks ids in flight only.

### UrlInspect, ZipInspect

`UrlInspect` keeps the loop counter, the resolver's answer of this hop, the
pinned address and the history of connections. The resolver and the servers are
nondeterministic at each step. `Deadline` ends the inspection where the race or
the request listens to the signal (`CutOff`); after the resolver's answer it
only sets the flag that `Connect` looks at, which is `throwIfAborted()`.

`ZipInspect` has one action per listener; `phase` is what the library will call
next. `fail()` settles and closes once; the library's callbacks may come after
it. The library looks whether the archive is open when `readEntry()` or
`openReadStream()` is called (`Closed`), and the callback of a stream does not look
at `finished`: if the deadline fires between the call and the callback the stream
opens all the same, and the entry at hand is read to its end. What never happens is
that another entry or another stream is asked for (`NoEntryAfterSettling`). The checks of one entry that touch no state are the fields `safeName`, `ok`
and `crcMatches` of an entry, sizes are chunks, and a path is a sequence of
segments, so that prefixes mean what they mean in the code.

### ProjectExport, OutputFile

`ProjectExport` keeps of each file its author and how much of it is safe: short,
in the page cache, or synced. `Claim` is the exclusive `fs::create_dir`;
`OpenFile`, `WriteAll` and `SyncAll` are the steps of `write_regular_file`, which
makes a missing directory again before it opens a file. `PowerLoss` may cut what
was not synced; directory entries are taken to survive it. After a removal while
an export was running (`torn`) that export goes on in a directory made anew, or
in another export's: the properties about whole projects exclude this, and
`NothingReplaced` and `SuccessIsWhole` say what still holds.

`SealedProject` is the promise: one export claims the path, parts become durable
and stay so, the seal comes only over all of them, none but the claimant reports
success, and only when the seal is durable, too. The refinement maps the phase of
the path (`Phase`: absent, foreign, open, sealed, or spoilt once torn) and the files
that no loss of power takes back (`DurableFiles`). A kill, a failed write, a loss
of power and an export that is refused are all invisible there.

`OutputFile` looks inside one file: blocks, offsets, holes. A writer's check and
open are separate, an open with `--force` follows a link, two writers keep their
own offsets. The user may delete the path or put a link there at any time. The
existence of the parent directory and the walk over its ancestors are left out:
they only refuse more. So is someone who replaces a directory above the path by a
link after that walk, a race that docs/threat-model.md:187-191 admits.

### AppSpec, SpecRules, DesktopShell, Preview

`AppSpec` is the document as data: a text that stands for a URL is the URL it
parses to by the WHATWG standard (Rust's `url`, the URL of JavaScript), a spelling
(as an origin, with slashes after it, as the parser writes it, otherwise with
nothing or with something after the host, or broken), and the stricter parsers that
read it, too (`readers`: ajv's `format: uri`, `java.net.URI`); names and identifiers are lengths and the kinds of characters in them; hosts are
lists of labels, four octets or eight segments. `SpecRules` has one predicate per
rule and per judge, named after its function, true where the code reports no
issue. `Schema` is `app-spec-v1.schema.json` but for its formats, which the two
validators that run it take differently: ajv asserts `"format": "uri"`
(`UriFormats`), the `jsonschema` crate does not. `Loads` is `load()` of the command
line with its limit of 1 MiB, `ValidAppSpec` is `validateAppSpec()`, and
`DashboardAccepts` the API, which takes 256 KiB. `RuntimeAccepts` and
`AndroidAccepts` are what the desktop and the Android shell ask, without the
schema; the Android one takes 256 KiB as well, and reads URLs by `java.net.URI`. `Draft` is what `init` writes: its slug is cut at 63 characters and
trimmed (`SlugLen`), its identifier is made of that slug (`DraftIdentifier`).
`Required` and `Findings` are the findings that keep `analyze` and the policy
pack from calling a specification ready.

`DesktopShell` is one process: `Launch` loads and judges the resource, or panics;
`InstallPolicy`, `Arm`, `Navigate`, `Show` and `Reveal` are the steps of the
closure that set-up runs on the UI thread, each with its failure. `loading` says
that `navigate()` was called and the filter (`Admits`, which is `on_navigation`)
has not been asked yet; `StartArrives` asks it. `PageNavigates`,
`AsksPermission`, `CloseView` and `CloseMain` are the page and the user, and may
come between any two steps; `exit()` only sets `exiting`, and handlers run until
`LoopEnds`.

`Preview` composes them: `WriteDraft` or `Write` makes the document,
`SupplyOwnership` and `BlockLinks` complete a draft, `Export` applies `load()` and
`check_preview()`, `Rewrite` is the user of the project, who owns its files, and
`Start` starts a shell from what is there. That the file is read whole and the
project exported whole is what `OutputFile` and `ProjectExport` are about.

### TenantDb, BuildLease

`TenantDb` is the database with every table and reference, in which a row
is its organization and its references. A statement is atomic and takes effect
or does not; `Delete`, `DeleteOrg` and `DeleteUser` carry out the cascades
(`Doomed`) and the `SET NULL`s, and fail as a whole if the revision trigger
raises. Row security is `Sees`; that foreign-key checks and cascades are not
subject to it is PostgreSQL's rule. `Truncate` empties a table and all that refer to
it (`CascadeTo`) in a role that may (`owner`): it fires no row trigger and heeds no
policy, and is the one way a revision goes. Statements that change the schema or the
triggers (DDL, `ALTER TABLE ... DISABLE TRIGGER`, `session_replication_role`), unique
indexes, other columns and concurrent transactions are left out. A session's tenant
is what it last set: that a pooled connection may keep it from an earlier request
cannot be seen, as no code sets it yet.

`BuildLease` has both tasks over a clock, and what the columns and the status type
allow runners and owners to do. A task is one `UPDATE`, read committed: `BeginLeases`
is its `NOW()` and its snapshot, `ExpireBuildLeases` its commit, which tests again
what changed in between (`Expiring`); likewise for verifications. Runs overlap, as
the worker's concurrency is 5, and fail (`RunFails`). The worker's role either
bypasses row security or does not (`bypass`); in the latter it sees no row, as the
tasks set no tenant (docs/threat-model.md:195 says that worker roles are not
implemented).

## 3. Runs

| Run | Instance | Shows |
|---|---|---|
| `bridge_fresh` | 2 requests, 2 ids, 2 methods, one shared signal, fresh ids | correlation, aborts, dispose, and the refinement of `BridgeCalls` with its liveness |
| `bridge_reuse` | 3 requests over 2 ids, unsubscribe may throw | no call stranded, no closure outlives its call, settled once |
| `late_reply` | an id that comes back | *violated*: see Findings |
| `dispose_throws` | unsubscribe throws | *violated*: see Findings |
| `url_inspect` | 5 URLs of 3 origins, answers of up to two of three addresses, bodies over the limit | where it connects, what it accepts, that it ends |
| `zip_inspect` | all archives of up to 4 of 11 entries | what is accepted, what is expanded, what is asked for after settling, that it settles |
| `project_export` | 2 exports that pass the checks and one that does not, 3 files and the manifest, one removal, one loss of power | the manifest's and a success's promise, and the refinement of `SealedProject` |
| `output_file` | two builders, one with `--force`, contents of 3 and 2 blocks, a loader with a limit of one | replacement, links, digests, readers |
| `tenant_db` | 2 tenants, one user, 2 projects, one row of each table from revision to artifact, a runner, a membership and an audit event; roles with and without bypass and ownership | tenancy, frozen revisions, row security |
| `leases` | 2 targets, one verification, 2 overlapping runs, 4 instants, leases of 2, both kinds of role | the task against the tested function, what a run ends and leaves |
| `preview` | some 330 drafts at the limits of names and identifiers and 7800 documents, each a valid one with one part changed or those parts that are judged together; four rewritten resources, six pages | which judge accepts what, what a draft lacks and when it is valid, what the shell shows and that it settles |
| `draft` | the drafts alone | *violated*: see Findings |

### Why the bounds are enough

* Bridge: what can go wrong needs two calls that share an id or a signal and a
  third that takes the id of a settled one while the second is in flight; the
  invariants are proved for every number of calls, ids and signals besides.
* URL: four hops reach the bound of three redirects in every order of five URLs
  that differ in what `validateTarget` tests; two addresses are enough for one
  that is public beside one that is not; a limit of two chunks has both sides.
* Archive: three limits (entries, size, total) are each exceeded by an archive of
  four entries, and all pairs of a file and a directory, of equal paths and of a
  path and its prefix come in both orders.
* Export: proved for every number of processes and files. One removal lets an
  export start again after a failed one, and tears one that runs.
* Files: a forced writer whose content is shorter than the other's shows holes
  and remainders; one interference hits every step.
* Database: the longest chain of cascades is there, and
  projects and tenants come in pairs, so that each composite reference has a
  wrong row to point at.
* Preview: names are cut within a word, at a hyphen and not at all, on both sides
  of 50, 63 and 80 characters; each rule has a document that breaks it alone, and
  start, claims and origins, or push, items and targets, vary together. The
  theorems hold for every document; the run finds out first, cheaply.
  Texts that one parser reads and another does not (`|`, a space, letters beyond
  ASCII, a written port, a last label like `1a`) and files of all three sizes are
  among them.
* Leases: the clock passes the end of a lease taken at the first instants; a run
  can begin before a renewal and end after it, with another run in between.

### Fairness

Assumed of the program's own scheduler only, never of the other side:
`Bridge`: an armed timer fires (the event loop). `UrlInspect`: the deadline's
timer fires, and the continuations of settled promises run. `ZipInspect`: the
timer fires, and the opening of an archive in memory calls back; later the
library may hang in any phase. `DesktopShell`: Tauri runs what is queued on the UI
thread, and the event loop ends once it was asked to. Servers, name servers, native
replies, runners, owners, pages and users have none.

`BuildLease` assumes none either. Its crontab gives a job one attempt (`max=1`) and a
backfill period that has no unit (`fill=1`): what the library makes of that is not in
the repository, a failed run is not tried again before the next minute or hour, and
the worker's role may see no row. That every lapsed lease ends some day is therefore
not claimed; what is claimed is what each run does.

### Deadlock

Checked where the system goes on; `ProjectExport` and `OutputFile` are sets of
processes that all end, and in `Preview` a shell ends and nobody need start
another, so their configurations say that they may stop.

No run lists a type invariant: for every module that has one a theorem states it
for every instance. So do theorems state three properties more that TLC was asked
first and that no run repeats: `OneAuthor` and `OneClaimant` (`ProjectExport`), which
`KeepsSeal` comes close to, and `ConnectsAtMostFourTimes` (`UrlInspect`).

## 4. Proofs

`BridgeProofs` proves every invariant and action property that the runs check of
`Bridge`, for any calls, ids, methods and signals. None of the invariants is
inductive: `NoStrandedCall` says that a waiting call holds its entry, but a
handler settles whatever call holds
the id its closure captured, so one has to know as well that an entry belongs to
a waiting call that captured this very id, and that everything armed belongs to
a waiting call. `IInv` puts these sides together (`WaitingHolds`, `EntriesWait`,
`ArmedWait`, `WaitingHears`, `SentHasId`, `IdleIsBlank`, `IdsAreUnique`,
`ClosedIsEmpty`). `SettleKeeps` is the one lemma about settling that all handlers
share; each handler then has a lemma of its own. `DisposeEmpties` and
`DisposedIsQuiet` need `~UnsubscribeThrows`, `Correlation` needs `FreshIds`; the runs
`dispose_throws` and `late_reply` show that neither can be dropped.
`SendsFailTheirOwn` needs `FreshIds`, too, as the handler of a rejected `send()`
settles whatever call holds its id by then; it is part of what `Correlation` rests
on. `ImplementsBridgeCalls` is the safety part of the refinement.

`ProjectExportProofs` proves every property of `ProjectExport` for any number of
processes and files. `ManifestSealsProject` holds because the state of every
slot is determined by where the one writer is (`Progress`: earlier files synced,
later ones not there), and because the only process inside is the creator of
the directory (`InsideIsCreator`), which the exclusive `create_dir` gives while
nobody removes the directory under a running export. `DoneIsCreator` carries
`SuccessIsWhole` over later exports: they cannot claim what is there.
`WritesOnce`, which holds even in a torn directory, gives `NothingReplaced`: a
handle that still leads to its file leads to bytes nobody finished before.
`ClaimsExclude`, that no two exports are inside at once, follows.
`ImplementsSealedProject` is the whole refinement: `WriterSeen` reads off `IInv` how
the path looks from where the writer is, which files are durable, and when the
manifest is there; one lemma for each action (`ClaimSeen` to `RemoveSeen`) then
names the abstract step or shows that there is none. It needs that a directory with
a creator is there (`OwnedIsThere`).

`UrlInspectProofs` proves all four safety properties for every set of URLs and
addresses, answers of any length and every limit. The invariant ties the phase to
what was looked at: a hop that goes on passed `validateTarget`, an address is
pinned only in the step that checked all of its answer, and only a destroyed
response is past the limit. `Types` contains the bound of three redirects; `FourConnections` counts the
connections against them (`Counted`): before a hop connects there was at most one
for each redirect, afterwards one more.

`ZipInspectProofs` carries four facts about the entries read so far until one is
refused: the two sets of names are theirs (`NamesKept`), no two collide in
either order (`TreeSoFar`), each passed its checks, the last one once it was
read (`CheckedSoFar`), and the running total is the sum of what they declare or,
while one is being read, of what the earlier ones declare and its chunks so far
(`CountedSoFar`). The sum is a recursive
function, `Declared`. Induction theorems that take a predicate are not available to
the provers, so induction is done on sets: a set of numbers that is not empty has
a least one (`LeastElement`, from the well-foundedness of <), hence a set with 0 and
the successor of each member is all of them (`Climb`). `Complete` is
`AcceptedIsComplete` as a whole.

`OutputFileProofs` identifies a file with its creator. Whoever has opened a file
that is not its own was given `--force` (`Opened`), so a file that nobody
overwrote holds exactly as many blocks as its creator has come (`Whole`), and
what a reader has of it is a prefix of that (`PrefixesRead`), since files then only
grow (`Grows`). From these follow `OnlyForceReplaces` and `ReadsPrefix`. `Raced`
keeps a link from the path of a forced write that has looked. For the digest,
`Stays` says that the path leads to whatever was opened while nobody interferes,
`Filled` what a file holds that one writer has alone, and `Hashed` that a builder
reads that file. `TakesLittle` gives the limit of a load.

`TenantDbProofs` proves tenancy, frozen revisions and row security for any rows,
tenants and users. A deletion takes along what refers to it, found in three
rounds (`Doomed`); that three are enough is a rank: each cascading reference
climbs by one from projects to artifacts (`CascadesDescend`, `RankBounded`), so
`Doomed` is closed (`DoomedClosed`) and nothing that stays refers to what goes
(`PurgeInv`, shared by the three deletions). Rows found by cascades from one
tenant are of that tenant (`DoomedIsOwn`), which gives `OthersUntouched`. What `TRUNCATE` empties
is closed under reference (`CascadeCloses`), so that no reference to it stays
(`TruncateInv`) and a table goes as a whole (`TruncateEmpties`), revisions only
together with builds, targets and artifacts.

`PreviewProofs` proves every safety property of the run `preview` for every set of
drafts, documents, resources and pages. `DesktopStarts`, `AndroidStarts`,
`ValidatorsDiffer` and `NeverReadyOnClaims` are about one document and need no
behaviour; `ValidatorsDiffer` rests on `CliToDashboard` and `DashboardToCli`,
which go through the rules one by one. `DraftLoads` follows a draft through
`init`, its owner and `load()` and says both when it loads and when it does not;
that a slug never exceeds its limit (`SlugIsShort`) goes by the same induction on
sets, over the words of a name. `ShellInv` orders the steps of the closure: behind
the policy step the handler is installed, and the filter is armed only then.
`Shows` adds that what was exported has loaded.

`BuildLeaseProofs` has the types, that the `UPDATE` selects what the function
selects, and that a run is exact (`RunsAreExact`): a row that it did not pick had not
run out then and cannot come to have run out by that time later, as a lease is only
ever set to end after now; a row that it picked is tested again.

Assumptions, all about constants: `NoneAssumption` and `SwitchAssumption`
(`Bridge`), `ExportAssumption`, `FileAssumption` (writers and readers are different
processes, the marks are not files), `ConstantsAssumption` (`UrlInspect`),
`LimitsAssumption` (`ZipInspect`), `KeysAssumption` (`TenantDb`), `LeaseAssumption`,
`ShellAssumption` and `PreviewAssumption`. They say that marks are none of the values they stand
beside, that bounds are numbers and that inputs have their types.

Only model-checked: liveness (that part of `KeepsPromise`, both `Settles`,
`LaunchSettles`), as liveness under fairness and `ENABLED`
are out of the prover's reach. Every safety property that a run checks is a theorem.

## 5. Findings

* `late_reply`. A reply is matched by id and method, and a new id is compared
  with ids in flight only (client.ts:210, 310). With an id factory of the user's
  that repeats the id of a request which ended without its reply (a timeout, an abort,
  a `send()` that threw although the message had gone out, as in the run's trace), the
  late reply to the first settles the second. The README of the SDK says "A late native reply is
  ignored." The default factory never repeats; `Correlation` proves the rest.
* `dispose_throws`. `dispose()` marks the client disposed and calls the
  transport's unsubscribe function before it fails what is pending
  (client.ts:276-289). If that function throws, pending calls wait for their
  timers, and a second `dispose()` returns at once. The README says all pending
  calls fail promptly. Nothing is stranded: `NoStrandedCall` holds.
* `draft`. `init` checks its arguments by the helpers that `validate()` uses, and
  the draft not at all. `load()` applies the schema first, whose slugs and Windows
  identifiers are at most 50 characters long, without "_", and whose domains are no
  IPv6 addresses. The draft of a longer name, of a base identifier with "_" or of an
  IPv6 start is invalid for good. crates/wta/README.md:56 says that it "intentionally
  fails full validation until ownership records are supplied". `FittingDraftLoads`
  says that of drafts completed by their owners exactly the others load, and that
  `validate()` itself refuses, of the three, the IPv6 start alone.

Not findings, but worth knowing: an export whose directory is removed while it
runs goes on in a new one and reports success for files that are gone
(safe_io.rs:82); a forced write follows a link that was put there after the check
(docs/threat-model.md:187-191 says so); once a revision exists, its project, its
organization and its author can never be deleted, as the cascade and the
`SET NULL` hit the trigger (0001_tenant_security.sql:27-30); the command line never
asks that the claimed domains cover the allowed origins, so a project it exports
may refuse to start (`ShellsAgree` says exactly when); docs/threat-model.md:173
says that a failed set-up exits without visiting the remote URL, which holds of
every step but `show()`, which comes after `navigate()`; docs/architecture.md:179
says that expired leases return non-signing stages to a safe retry point, while
tasks.ts:13-29 sets them to `expired`, which no statement leaves; before the
default pack takes effect (2026-08-31) `evaluatePolicy` throws.

## 6. Not modelled

* `wta` doctor, runner and argument parsing, and the wording of every report: no
  state, and nothing that another part reads.
* The limits on item counts and on the length of URLs: each is one comparison that
  the schema repeats.
* Canonical JSON and SHA-256: recursion over strings.
* `selectEffectivePolicyPack`: it has no caller outside its tests; there is one pack.
* The dashboard's pages and the other routes of the API: presentation, nothing is
  stored.
* Downloads and new windows of the desktop shell: one unconditional refusal each.
* The Android shell beyond what it starts: the bridge listener answers with one
  refusal, which is a reply of the environment of `Bridge`; the life cycle of the
  view belongs to Android.
* The iOS shell. It has the size limit and the origin rules of the Android one, but
  over Foundation's URL, whose parser changed between versions of iOS (what an old
  one rejects a new one may encode), and over a generated decoder.
* How JSON spells a value: a number written `1.0`, a repeated key, a byte order mark,
  a character that one language counts as blank. The validators are compared on
  documents as values. What `java.net.URI` and ajv read is a property of each text,
  not derived from its characters; Rust's `url` and the URL of JavaScript are taken
  to implement one standard.
* That a lapsed lease is ended some day: see Fairness.
* Unique indexes, further columns and concurrent transactions of the database: no
  code in the repository issues a statement yet.
* Generated contracts, fixtures, CI: data and configuration.

## 7. What is left

* An abstract specification of `OutputFile` (what a path promises its readers) and
  of `DesktopShell` (guard, then show), with their refinements as theorems.
* What one tenant sees of `TenantDb` as a database of its own, refined by each
  session under the policies.
* The navigation filters of the mobile shells as processes like `DesktopShell`, once
  those shells do more than refuse.
* Statements and transactions of the API, once it has routes that write.
