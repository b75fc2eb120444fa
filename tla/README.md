# A verification development of UW Markdown

UW Markdown keeps an underwriting record in one Markdown file: YAML frontmatter,
prose, and fenced JSON blocks, each with a `_meta` that says who wrote it, which
revision it is, whether it is superseded and, optionally, the hash of its content
and of the block before it. The program around the format reads such files, edits
them under a protocol, checks their integrity, computes with them, issues receipts
over them, composes them into packages, and serves them to editors, agents and
services. This directory models the parts where order, concurrency, failure or a
long sequence of calls decides whether the record, or what is said of it, is right.

Paths below are relative to `src/`. `verify` is `packages/uwmd-verify/src`, `core`
is `packages/uwmd-core/src`.

## 1. Inventory

| Component | State | Operations | Works with |
|---|---|---|---|
| Parser, `verify/parser.ts` | none kept; builds `sections`, `superseded`, `extensions`, logs | `parseUWFile`, `getSection`, `getSectionVariant` | everything reads through it |
| Envelope, `verify/envelope.ts`, `verify/lite-bridge.ts` | none | `toUWEnvelope`, `stringifyUWX` | parser; codecs |
| Editor, `core/editor.ts` | none kept; text in, text or error out | `applyEdit`, `applyEditAsync`: `frontmatter_set`, `section_replace`, `section_supersede`, `pipeline_log_append` | parser, policies, gaps, hashing |
| Edit policies, `verify/protocol.ts` | the built-in list | `resolvePolicy`, `checkAuthority`, `matchPolicy`, `authorityAllows` | editor and verifier, each with its own reading |
| Gaps, `core/gaps.ts` | the `gaps` section | `inferGaps`, `maintainGapsAfterEdit` | runs inside every maintained edit |
| Agent runner, `core/runner.ts` | none kept | `writeAgentBlock`, `writeErrorEntry` | parser |
| Integrity, `verify/integrity.ts` | none | `verifyChain`, `verifyProvenance`, signatures | reads what the editor wrote |
| Bindings, `verify/bindings.ts`, `core/bindings-edit.ts`, `examples/bindings/reference-adapters.mjs` | the stored source | `apply_edit` under `If-Match`, reads | editor; many clients |
| Command line, `core/cli.ts` | files | `uwmd init`, `uwmd edit`, `validate`, ... | editor, other processes |
| Batch index, `packages/uwmd-batch` | a folder, read | `indexUWMDDirectory` | parser, validator |
| Web editor, `tools/web-editor/src` | the open deal, undo and redo stacks, the saved text, the tab | open, sample, new, edit, undo, redo, download | editor (through `runEdit`), receipts |
| Receipt panel, `ReceiptPanel.tsx`, `receipts.ts` | the receipt held, the verdict on show | issue, load, re-verify | the deal, `verify/receipts.ts` |
| Receipts, `verify/receipts.ts` | the receipt | `issueReceipt`, signing, `verifyReceipt` | metrics, packs, releases |
| Assumption cascade, `core/cascade.ts`, `verify/section-resolution.ts`, `verify/block-roles.ts` | none | `resolveValue`, `resolveSectionBlock` | ancestors, market data |
| Market data, `verify/market-data.ts` | observation sets | select, promote into a deal | cascade, editor |
| Waterfalls, `verify/waterfall.ts` | balances of two parties | `computeWaterfall`, `computeClawback` | validator's grammar |
| Module registry, `verify/modules.ts`, `module-runtime.ts` | owners of declared ids | `createModuleRegistry`, its async twin, listing | manifests, signatures |
| Package composition, `verify/composition.ts` | the walk's stack | `resolveComposite`, `resolveComposition`, `externalizeSection` | digests of members |
| Lake loader, `packages/uwmd-lake/src` | the adopter's tables | `planLakeLoad`, `executeLakeLoad` | a client without transactions |
| Capabilities and signing, `packages/uwmd-signing` | key stores | sign, verify, capability gate | `applyEditAsync`, `verifyChain` |
| Validator, metric dictionary, rollups, negotiation, portfolio | none | pure functions of one value | all hosts |
| Codecs, Lite, Excel, reports | none | conversions | bindings, web editor |
| MCP server, VS Code extension | open documents | read-only tools; commands | validator, receipts |

Hard behaviour, and what would be wrong:

* **A document under a long mix of edits.** Each edit re-reads the text it got, finds
  the canonical block by name, rewrites lines, and then a maintenance write of another
  actor follows in the same call; the agent runner writes in between under no policy.
  Lost history, two canonical blocks, a revision that goes back, a run without a log
  entry, or a hash left on content it does not cover would each need several edits.
* **Editor against verifier.** They are two readings of the same protocol (policy of the
  block *before* against policy of the block *after*, best match against first match,
  chain by head against chain by archive). Each accepted edit should verify.
* **A record written back.** `stringifyUWX` lays blocks out by section, whatever order
  the file had; which block is canonical depends on order.
* **Hosts with an await in the middle.** The binding computes from the source it started
  with; the web editor assesses a receipt against a deal that can change meanwhile;
  processes on one folder read twice and write without a lock.
* **Retries and half-done work.** An answer is late and the client calls again with the
  tag it kept; a lake load fails between two statements; a file is truncated and not
  filled; gaps maintenance fails after the edit.
* **Who wins.** Two ancestors at one distance, two observation sets of one day, two
  modules that declare one id: nothing may depend on the order of a listing.
* **Verdicts over time.** A receipt outlives its record, its packs and the release that
  issued it; a verifier may know less than the issuer.
* **Walks.** Shared, cyclic and deep packages; ladders of tiers over calls and
  distributions.

`PROJECT.json` lists the hazards line by line with the properties that watch them.

## 2. Modules

| Module | Models |
|---|---|
| `UWDocument` | blocks in file order and the views of them: canonical block, archive, lookups |
| `Parser`, `Envelope`, `MCParser` | `parseUWFile` block by block, routing included, against those views; the views written back by `stringifyUWX` |
| `EditPolicies` | both resolutions of a policy and both authority checks |
| `EditOperations` | the four edits, refusals in the order of the code, maintenance, stamping, as functions of a document |
| `Editor` | a host that keeps a text and calls the editor: one action per operation |
| `AgentRunner` | the runner's writes between the edits of `Editor` |
| `HistoryStore` | abstract: each section or variant keeps the versions written to it, told apart by revision |
| `EditorProperties`, `MCEditor` | what must hold of the document; the refinement of `HistoryStore`; small instances |
| `Integrity`, `EditorIntegrity`, `MCIntegrity` | `verifyChain`, `verifyProvenance`; the editor's documents under them, and what a record that verifies consists of |
| `EditBinding` | `apply_edit` with concurrent calls, retries and four kinds of client |
| `Directory`, `MCDirectory` | `uwmd init`, `uwmd edit` and the batch index on one folder, with kills |
| `DealState`, `ReceiptPanel`, `MCReceiptPanel` | `useDeal` and what `App` does with it; the receipt panel composed with it |
| `Receipts`, `MCReceipts` | a receipt from issuance to verification, with everything it names changing |
| `Assumptions`, `MCAssumptions` | the block a read consults, the cascade, ancestors and observations |
| `Fractions`, `Waterfall`, `MCWaterfall` | exact amounts; the ladder, row by row and tier by tier; the clawback |
| `Registry`, `RegistryProperties`, `MCRegistry` | both ways to build a registry, and what is listed and in effect |
| `Composite`, `MCComposite` | `resolveComposite`, one action per turn of its loop |
| `SectionParts`, `MCSectionParts` | a collection split into fragments, travelling, and resolved |
| `Lake` | loads planned and executed statement by statement, failing, repeated, overlapping |
| `MCReading`, `MCLibrary` | sums of independent modules, see section 3 |
| `EditLemmas`, `EditorProofs` | lemmas about the four edits; theorems about the editor and the runner |
| `EditBindingProofs`, `PanelProofs`, `CompositeProofs` (with `SectionParts` and `Lake`), `ReceiptProofs`, `DirectoryProofs`, `RegistryProofs` | theorems about those modules, with their lemmas |

How state and actions correspond to the code:

* A **document** is the sequence of its blocks; a block is a record of section, variant,
  source, revision, the superseded mark, whether it has a `_role`, a payload, and the two
  members of `_meta.integrity`. Prose, timestamps, confidence and notes are left out.
  Payloads are opaque except for the open gaps of the `gaps` section and the entries of
  a log. SHA-256 is taken to be injective: a digest is the pair it covers.
* `applyEdit` and `applyEditAsync` do no I/O between the parse and the text they return,
  so **an edit is one action** of `Editor`, with maintenance and stamping inside it. Its
  inputs are an operation, a context (the writer's source, and the hash of some block
  the document holds, or none) and the options. The refusals are `CASE`s in the order of
  the code; a call that throws is the code `"TypeError"`. The runner's writes are one
  action each for the same reason.
* `deal_stage` is the one frontmatter field kept, because maintenance depends on it.
  `frontmatter_set` may set it to anything in `StageValues`, also to what is no stage.
* In `Envelope` a block is known by its place in the file that was read, so that no two
  are taken for one, and the names of sections sort as `SetToSeq` lists them.
  `Reread` is `Parser`'s routing of the new text. A file that mixes unmarked history with
  marked history can be refused; RFC 0089 asks for the refusal.
* In `EditBinding` a call takes the source when it starts and answers from it later; the
  awaits in between (digest, `If-Match`, edit, digest) read nothing shared, so they are
  one gap. The content of an edit is its client and call number. A refused edit is 409.
* In `Directory` a command is its system calls: the check, the creation under `wx` or the
  two reads, the truncation and the filling of `writeFileSync`, with a kill between any
  two. A read finds an empty file or a whole one. An edit uses the text of its first read
  and the line numbers of its second, as the command does; `Over` keeps the end of a
  longer text another process put there. The scan reads its files in any order.
* In `DealState` a text is the file it began as and the edits since. React renders
  between two user events, so each callback runs on the state of the last one. In
  `ReceiptPanel` the effect, the answer of an assessment, and both halves of `onIssue`
  are actions; leaving the tab unmounts the panel. A receipt is issued with what the
  built-in pack evaluates to and verified by the metric dictionary, which refuses a figure
  over a size below zero: `Finding` says which files and edits state such a size. A text
  that cannot be canonicalized (RCP-09) is left out: `toUWEnvelope`, which refuses it,
  runs in the render of the tab where files open and edits are made (`BridgeStatus`) with
  no error boundary around it, and the sample is a published one. RCP-09 for a Lite
  receipt is a digest that cannot be compared.
* In `Receipts` a verification is one step on a snapshot, so `Verdict` is an operator
  that the properties ask with every knowledge a verifier may have: packs at hand,
  inputs at hand, a signature backend. A figure is what a calculation finds in the
  record, under the arithmetic of a release.
* In `Assumptions` a value is known by where it comes from. Tables of defaults are one
  value. When two newest observation sets are refused (MD-020), which happens before
  `resolveValue` is called, the value is resolved without market data. In `Waterfall` amounts are exact fractions and rows are whole years apart.
* In `Registry` a formula is the ids it reads, and the shape of a manifest is a flag.
  In `Composite` the recorded and the actual digest of a link are one set of links that
  are outdated; a link listed twice is one link.
* In `Lake` the tables are a function from a table and a primary key to a row; a failed
  statement may have taken effect or not; the foreign key refuses a member without its
  package.

Departures worth knowing: sections are found by the view `UWDocument` defines, which
`ViewsAreDeclared` shows equal to the routing fold; the members of an extension's variants
are kept in the order of the file, not sorted; gaps items are abstracted to their section
(field-level, conditional, partial and provisional items are not told apart); a block is
inserted between blocks, not lines; the capability gate and signatures are left out.

## 3. Runs

| Run | Instance | Shows |
|---|---|---|
| `Reading` | files of up to 3 blocks of one section of each kind; up to three peers with roles and lineages with ties; ladders of all tiers over 3 or 4 rows | routing gives the blocks of Format 2.7; what is written back is the same record; the order of ancestors, sets and peers decides nothing; accepted observations and own statements stand; the ladder pays all cash, each tier to its hurdle |
| `Editing` | one single section, the gaps section, the log; a human, an agent, the maintainer; three starts | one head and an ordered history, kept history, authorized succession, fresh hashes, refinement of `HistoryStore` |
| `EditingVariants` | two variants of one section, roles set, kept and cleared, and the runner | an edit of one variant leaves the other alone; runs are logged and the log only grows |
| `ProducedRecord` | agents and document extractors, hashed or not; two stages | the record verifies without a finding; sections nobody wrote are listed as gaps |
| `WebEditor` | one file, whose size is negative; an edit that mends it, one that is not financial; 1 undo step, 2 edits, 2 files on disk | the unsaved marker, a current verdict once settled, an own receipt is not failed by edits, the verdict settles |
| `Library` | one instance of each of seven services | see below |
| `RootAfterHistory`, `UnknownStage`, `ReplacedByAgent`, `DepthBound`, `RoundTrip`, `AsyncRegistry` | as above | the six disagreements of section 5 |

`Reading` and `Library` are **sums**: their parts share no variable, `running` says which
part a behaviour is about, and the others stay at one initial state. The states of a sum
are those of its parts side by side, never their product, and each property speaks of one
part. The parts of `Library`, and what is shown of each:

| Part | Instance | Properties |
|---|---|---|
| binding | two clients with a tag and one with `*`; 2 calls each, 2 at once | `RetriesAreSafe` |
| composite | 4 members with up to 4 links, 3 or 5 with up to 2; depth 3, 4 members allowed | `OrderIsTopological`, `RefusalsAreReal`, `StaleLinksAreReported`, `EveryPackageIsJudged` |
| parts | up to 3 rows over 2 keys, 2 changes on the way | `NeverASmallerCollection` |
| registry | lists of 2 to 4 modules with dependencies, overrides, readers and scopes | `VerdictIsOfTheSet`, `OverridesStayAvailable` |
| receipt | 2 calculations, 2 versions of a pack, 2 releases, 2 inputs, 2 events | `UntouchedNeverFails`, `KnowingMoreOnlySettles`, `VerifiedIsReissued` |
| directory | 2 paths, 3 processes with one command each, one scan | `ScaffoldNeverReplaces`, `SeparateEditsStack`, `IndexIsOfTheScan` |
| lake | 2 loaders, 3 bundles, 2 runs each | `LoadsConverge` |

**Bounds.** `MaxBlocks` and `MaxRevision` stop further calls on a long document; the calls
before may cross them by an edit and its maintenance. Three or four blocks are a head, its
predecessor, a second section or variant and a log, which is where routing, marking and
inserting can go wrong; the theorems cover the rest. `MaxCalls` 2 is a call and one retry;
`MaxOpen` 2 lets one call overtake another (the theorem has no bound). `HistoryLimit` 1
stands for 50: two edits overflow it. Five members, four links and a depth of 3 give
diamonds, cycles with and without a root, dangling links and a path longer than the limit.
Two changes are a fragment edited and the directive cut. Four modules are an override over
a reader behind a dependency. `MaxEvents` 2 is an upgrade and an edit in either order.
`LastDay`, `StaleAfter`, `MaxSets` and `MaxStated` give one observation time to go stale
after it was accepted. Three processes are an edit, another, and a scaffold of the file they
edit; each gives one command, as a process does. The other constants are inputs, not bounds.
`CHECK_DEADLOCK FALSE` is set because each of these systems rests once its bounds are used
up, its file is read or its call has returned.

**Fairness.** `ReceiptPanel` assumes weak fairness of `RunEffect` (React runs the effects of
what it rendered) and of `Answer` (an assessment is a computation that ends; a loaded receipt
is admitted by `assertUWReceipt`, so it does not reject). No fairness of the user, of fetches
or of issuing is assumed: `VerdictSettles` speaks of behaviours in which the user falls
silent. `CompositeFairness` is weak fairness of the turns of the walk: a loop that has begun
goes on (`EveryPackageIsJudged`). The other runs check safety and refinement, whose abstract
side has no fairness either.

## 4. Proofs

All theorems hold for any values of the constants that meet the modules' assumptions.

**`EditorProofs`** (any sections, variants, sources, policy lists, stages, writers, options):

* `TypeCorrect`: `Spec => []TypeOK`.
* `StampsStayFresh`: no block keeps a `content_hash` of other content, from documents
  in which none does (`FreshStart`).
* `DocumentsStayWellFormed`: the inductive invariant `DocumentIsWellFormed`, from
  well-formed documents (`WellFormedStart`) and operations that name a variant exactly
  for multi-variant sections (`AddressedByKey`).
* `DocumentsStayOrdered`: its part `HistoryIsOrdered`, one canonical block per section or
  variant with its history before it in the order of revisions.
* `HistoryStaysKept` and `SuccessionStaysAuthorized`, action properties, under the same two
  assumptions: no step loses or alters a block that policies keep, and what becomes canonical
  in the place of a block is one revision on, under the authority of that block's policy.
* `StoreIsImplemented`, the refinement: `Spec => ImplementsStore`, under the same two.
* `GapsStayListed`, under the same two, with every edit made with `maintainGaps`
  (`AlwaysMaintained`) and policies under which the maintainer may write over whatever need
  not be superseded (`MaintainerMayUpdate`, as under the built-in ones: `either` or its own).
* `ProducedRecordsVerify`: `Spec => []RecordVerifies`, under `AddressedByKey`, for records that
  only producers write (`ProducersWrite`) from a start that producers may have made
  (`ProducedStart`); `RecordsStayProduced` is its inductive invariant `RecordIsProduced`.
* Of `RunnerSpec`, with the runner's writes in between: `StampsStayFreshBesideRuns`,
  `DocumentsStayOrderedBesideRuns` and `HistoryStaysKeptBesideRuns` (runs too name a variant
  exactly for multi-variant sections, `RunsAddressedByKey`); `LogStaysWhole`, and
  `RunsStayLogged` from documents whose runs are logged (`LoggedStart`). Both need that
  nobody else signs with the runner's source (`RunnerWritesAlone`). There is no
  `SuccessionIsAuthorized` beside runs: the runner consults no policy.

Why the strengthening: that the new head comes *after* its history needs the insertion point
to be behind every block of the section, hence `LogsComeLast`; that its revision is above all
of theirs needs the block found to be the latest of its slot, hence `SlotsHaveHeads` and
`HistoryIsOrdered` for the slot; that a lookup finds it needs that no section turns into a
map because a block of it gains a role, hence `FiledByKey`. Each is needed by another.

Argument. `StepsAreEdits` says a step leaves the document or is one of four finishes of a
write; the theorems combine one lemma per kind of write. `EditLemmas` begins with minima,
maxima and what inserting and replacing do to a sequence, then shows of each operation which
document it returns, that it keeps `WellFormed` and `HashesRecompute`, and which blocks it
keeps or succeeds. An edit is two or three writes, its own, the one of maintenance and the
re-stamping, so `Keeps` (a kept block is still there but for its mark) and `Succeeds` (a head
is still there or has its one successor) are stated of one write and chained. The
refinement works on the versions of a slot: `ReplaceWrites` and `SupersedeWrites` say that an
edit writes one version to the slot it names, `HeadIsLatest` that the block it found is the
latest version, and `FinishIsAStep` that maintenance writes the gaps slot, if that is not the
edit's own, and that stamping changes only the version that was just written. A version
leaves out the superseded mark, which is what a supersession changes of the old head.
`GapsStayListed` rests on the same lemmas: the version maintenance writes is the latest of the
gaps slot and lists what was missing, succession loses no section, so nothing is missing that
was not, and stamping another section touches neither.

`RecordVerifies` is about two readings of one document, and its proof has two halves.
`ProducedVerifies` is the verifier's: if every section has hashes on all its blocks, each
naming the one before it, or on none (`ChainsAreWhole`), `verifyChain` finds nothing; if
every block is a producer's and a block of a later revision has an archived one of its
variant (`IsProduced`), neither does `verifyProvenance`. It takes what the reader files
away, the archive in the order of pushing, and shows that for a section with one head that is
the section's blocks in file order (`ChainIsInOrder`). `EditsKeepProduced` is the editor's. A
supersession leaves a section whose links all hold but the new head's, which has no hash yet
and is to name the hash of the head before (`Awaiting`); maintenance puts a block in front of
the log or rewrites one of the gaps section, and every other block still comes after the block
it came after (`CarriesSection`); the stamp completes the chain (`StampChains`). A replacement
cannot happen, because the head found demands supersession.

What `ProducersWrite` asks is what the code needs. Each writer's policy demands supersession
and is satisfied by its class of actor, or `ReplacedByAgent` and `RootAfterHistory` of section
5 would apply. Every edit is stamped (`integrity`): an edit without leaves an unhashed head on
a hashed chain. The gaps section is left to the maintainer, whose policy does not demand
supersession. `ProducedStart` excludes hashes on a gaps block that maintenance may rewrite,
which it does without a hash; hashes in multi-variant sections, whose chain strings all
variants together; and unnamed blocks in those, which the reader files under `default` and the
archive search by variant of `verifyProvenance` does not find. The instance of `ProducedRecord` meets all three.

`AddressedByKey` and `WellFormedStart` are real restrictions: the editor accepts an unnamed
write to a multi-variant section, and a file written by hand may have its log before its
sections.

**`EditBindingProofs`**: `RetriesStaySafe`, for any clients, calls and retries. The invariant
`BindingInv` says that the tag a client keeps is of a source without its edit, and that the
source and the sources calls are computed from hold the edit at most once: a call of the
client succeeds only on a source without it, and what others write is built on sources that
hold it at most once.

**`PanelProofs`**: `CleanStaysSaved`, `SettledVerdictStaysCurrent`, `EditsStayUnblamed`,
for any undo limit, files and bounds. The invariant `PanelInv` has three parts:
`OriginalIsSaved`, the text the unsaved marker compares with is on disk; `ReceiptsAreHeld`, a
receipt held is a loaded one or issued over a text (from which `OwnReceiptsAreJudged` follows:
one issued here mismatches only over another content, and is then stale), and the verdict on show is what assessing
its receipt over its text says; `LastRunCounts`, no run of the effect but the last has an
assessment under way, and once that is answered the verdict is the last run's. Assumed of the
files: the receipts in them are loaded ones, not issued in this session
(`FileReceiptsAreLoaded`). `FindingsAreFinancial`, that sizes and text are under the digest,
is not used by the proofs; TLC checks it of the instance.

**`CompositeProofs`**: `WalkIsTyped`; `OrderStaysTopological` for every finite graph and
every limit (so a cyclic package never resolves); `StaleLinksStayReported`;
`RefusalsStayReal`. The invariant `WalkInv`: every finished member is listed once, after its
contributors, and whatever an opened frame still waits for lies above it on the stack, so
that a frame on top for the second time may be closed. `StaleInv`: the findings hold the
outdated links of every member opened so far. `RefusalInv`: a frame is reached from the root
by a path as long as its depth, and the frame that put it there is the next opened one below;
a link to an opened member therefore closes a cycle, a depth beyond the limit has a path of
that length, and members the walk never reached, if none is a root, lead only to each other.

* `CollectionsStayWhole`, about `SectionParts`, for any rows, keys and number of changes. While
  a section is out (`Out`), its directive counts the fragments of the split and names no other,
  and a fragment at hand holds what its row is by now. A list of as many fragments as there
  were, none twice, is then all of them, and rows with keys of their own are as many as those;
  that sorting neither drops nor repeats a key needs that a finite set of numbers can be
  listed in its order (`RisingListExists`).
* `LoadsStayConvergent`, about `Lake`, for any loaders, bundles and number of loads. Of a plan:
  the package of a member is stated before it (`PlansAreSafe`, by way of `FlatteningKeeps`).
  Of a load under way (`Held`): every statement before the next has a row, which is that of the
  last of them under its key if nobody else wrote. Rows are never deleted, so no statement is
  refused by the foreign key.

**`ReceiptProofs`**: `VerifiedStaysReissued` and `KnowingMoreStaysSettled` hold of any receipt
at all; they are about the order in which `verifyReceipt` decides. `UntouchedStaysUnfailed`
needs `ReceiptInv`: an issued receipt that nobody altered is what issuing made of the record
of then at the release of then, signed or not. They rest on the assumptions that a pack's
version is published once and that one engine version computes one way.

**`DirectoryProofs`**, for any folder, processes, commands and kills:

* `ScaffoldsReplaceNothing`, from `DirectoryInv`: while `init` fills a file, the file cannot
  be read and no other command is about to write it, because that command would have read it
  before it existed or while it could not be read.
* `IndexStaysOfTheScan`, from `ScanInv`: the files of the scan are split into those read and
  those to read, and each entry is how its file stood at a moment since the scan began.
* `SeparateEditsStayStacked`, for finitely many processes (`ShellsAreFinite`), from
  `StackInv`: at a file where no two commands met there is at most one command, what that
  command read is what the file holds, and the text counts every edit that finished there.

**`RegistryProofs`**: `OverridesStayWithReaders`, for any list of manifests. The invariant says
of the part of the list already loaded that the owner of an id is loaded, declares it, and
covers the scope of every declarer before it; and that a calculation in effect that reads an
id some earlier declarer provides finds the value of its owner, since an override that leaves
a reader unserved is refused when it is loaded. It
assumes that nobody is not a module, that sections and calculations are claimed in
maps of their own, and that a fit manifest declares an id once (`validateCalculations`).

**Only model-checked**, and why: routing and writing back, whose operators fold over the
document in the code's order; the cascade; the waterfall (nonlinear arithmetic on
fractions); `VerdictIsOfTheSet` (a recursive function over all orders of a set: induction over
data).
`VerdictSettles` and `EveryPackageIsJudged` are liveness under fairness, which TLAPS does not
prove.

## 5. Disagreements found while modelling

Each is a run that TLC must find violated, with a finding in `PROJECT.json`.

1. **`RootAfterHistory`.** A manual head that superseded a hashed block may be replaced;
   `applyEditAsync` stamps `parent_hash` null although the predecessor is still retained,
   and `verifyChain` reports INT-01. The protocol says both things of such a block
   (V.10: every later block links; a permitted replacement stamps null).
2. **`UnknownStage`.** `frontmatter_set` takes any `deal_stage`; `inferGaps` then reads
   `STAGE_REQUIREMENTS[stage]` of a stage that is not there, and the edit throws instead of
   keeping its result.
3. **`ReplacedByAgent`.** The editor asks the policy of the block it replaces, the verifier
   that of the block it finds: an agent's replacement of a manual block is admitted and
   reported as POL-02.
4. **`DepthBound`.** A member's depth is that of the path that reaches it unfinished, so a
   package deeper than the limit resolves when a shorter path finishes the deep part first.
5. **`RoundTrip`.** Rows come back sorted by key: a collection in another order is not
   reproduced, which the comment on `externalizeSection` promises.
6. **`AsyncRegistry`.** The asynchronous registry loads each candidate without the ones
   listed before it: no set with a dependency can be built, whatever the signatures.

Definitions that are false of the code and known to be, kept beside what holds instead:

* `AcceptedEditsStay` (`EditBinding`): the reference binding reads its source before an await
  and assigns it after, so one of two overlapping accepted edits is lost. The library
  functions are not at fault.
* `VerdictIsCurrent` (`ReceiptPanel`): the old verdict stays on show until the new assessment
  is answered. It never *stays* wrong (`SettledVerdictIsCurrent`, `VerdictSettles`).

Seen while modelling and kept out of the properties by their hypotheses:

* Two `uwmd edit` that meet on one file, or one killed at its write, may lose a revision or
  the deal; a `section_replace` made of an empty read writes a file without frontmatter.
  `SeparateEditsStack` speaks of edits of a file that do not meet.
* A receipt of a record with a negative size, issued with a pack and never touched, is
  refused by the dictionary at verification: `UntouchedNeverFails` leaves out `"refused"`. So
  the panel shows a receipt it has just issued over such a deal as failed:
  `EditsAreNotBlamed` says that this is the only case.
  Packs that redefine dictionary ids are excluded, as RFC 0123 excludes them.
* Member rows of a package that shrank stay in the lake, and two loaders that overlap mix
  the rows of two versions: `LoadsConverge` speaks of the rows of the bundle, and of loads
  that ran alone.
* A ladder that ends below a cap, or a tier the grammar refuses, may leave cash unpaid:
  the waterfall's properties are of ladders `checkWaterfallContent` accepts.

Read in the source, without a run: INT-02 is skipped when the caller names no `parentHash`;
an unnamed write to a multi-variant section restarts at revision 1; `verifyChain` strings the
histories of all variants on one chain; maintenance rewrites a hashed gaps section without a
hash (INT-03); carried-over gap items stay after their section is written; marking looks for
the text `"superseded": false`; `findInsertionPoint` walks back over blank lines;
`matchPolicy` takes the first matching pattern where `resolvePolicy` takes the best;
`verifyRollup` reports a disagreeing aggregate as failed before a child that cannot be
verified, where its comment lists the child first.

## 6. Not modelled

* **The validator's other rules, the metric dictionary, rollups, pro-forma and portfolio
  arithmetic**: predicates and binary64 formulas of one parsed value, without state or order.
  Their hazard is rounding, which a model on small exact numbers does not reach.
* **Codecs, Lite, Excel, PDF and reports, representation negotiation, the conformance
  driver**: conversions and pure selections of one value, strings for the most part.
* **Signatures and capabilities**: cryptography on one value. A receipt's signature is modelled
  as what it covers and whether a backend is at hand.
* **The MCP server**: read-only tools. **The VS Code extension**: its receipt command has the
  race of the receipt panel.
* Of the command line: commands other than `init` and `edit`, `--output`. Of the batch
  package: filters, summaries, queue, the fact table, and a crash between its two outputs,
  which are rewritten whole by the next run.
* Of the runner: `last_modified` and `quick_metrics`, and an entry on a log that cannot be
  parsed. Of the envelope: prose, frontmatter, and the carriers of `fromUWEnvelope`.
* Of the cascade: the investor profile and the tables of defaults, which are one value each
  in the code's order of steps. Of the waterfall: yields, outcomes, `verifyWaterfall`.
* Of the web editor: edit settings, the unload prompt, Lite export.

The map covers a small share of the lines of the repository: most of them are the rules,
dictionary, defaults, carriers and layout named above.

## 7. Plan

Written, in this order: `UWDocument`, `Parser`, `EditPolicies`, `EditOperations`, `Editor`,
its lemmas and theorems, `Integrity`, `DealState` and `ReceiptPanel`, `EditBinding`;
`Composite` and its theorems, `SectionParts`, `Registry`, `Lake`, `AgentRunner`, `Fractions`
and `Waterfall`, `Assumptions`, `Receipts`, `Envelope`, `Directory`; theorems about
`EditBinding`, `Receipts` and `Directory`; the action properties of the editor, the runner's
theorems, the refinement of `HistoryStore` and the gaps; theorems about `ReceiptPanel`, the
findings of `Composite`, the index and the edits of `Directory`, `Registry`, `SectionParts` and
`Lake`; records that verify. Next:

1. Per-variant questions: unnamed writes, chains of a multi-variant section, hashed gaps.
2. Editor's and verifier's policy resolution compared over small policy lists.
3. Capability gate before `applyEditAsync`; rollups of receipts over a composite package.

## 8. Running

    tlc -workers 2 -config MCEditor.cfg MCEditor.tla
    tlapm EditorProofs.tla

Every cfg is listed with its module in `PROJECT.json`. Model constants are model values or
definitions of the MC modules. Operators named in `PROJECT.json` under `mutants` are broken
variants of the definition they stand before; putting one in its place makes the property
named there fail, which shows that the property speaks of that line of the code.
