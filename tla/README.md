# ragsage, specified

ragsage is a retrieval engine that a backend embeds. It parses documents into
chunks, stores them with their embeddings in one Postgres table under the scope
of a tenant, and answers questions from them with citations. This directory
holds TLA+ models of its parts, the TLC configurations that check them on small
instances, and TLAPS proofs of what matters most.

Paths below are relative to `src/src/ragsage/`. A definition carries the name
of what it models where TLA+ allows it; `PROJECT.json` maps every definition to
its lines.

## The system

| Part | State it keeps | Operations | Talks to |
|---|---|---|---|
| facade (`sage.py`) | the database, the configuration | `ingest`, `query`, `stream`, `delete_document`, `purge` | opens one scoped session per call |
| scoped sessions (`storage/session.py`, `engine.py`) | role and isolation variable of a connection, an open transaction | `scoped_session`, `owner_connection`, pool checkout | Postgres |
| stores (`storage/stores.py`) | rows of `ragsage_chunks` | `upsert`, `delete_document`, `purge`, dense and lexical `search` | the session it was given |
| schema (`storage/schema.py`) | the table, its indexes, role, grants and policy | `migrate` | Postgres catalogs, as the owner |
| ingestion (`ingestion.py`) | nothing between calls | `ingest`: parse, deduplicate, chunk, contextualise, embed, store | cache, backend, providers, stores |
| cache (`caching.py`) | entries of a cache the host supplies | keys, `encode_parsed`, `decode_parsed` | ingestion only |
| backend (`parsing/backend.py`, `router.py`) | `_parsed`, the stash of documents parsed and not chunked | `parse`, `chunk` | the format paths |
| chunker (`parsing/chunking.py`) | nothing | `chunk_markdown` in two passes | called page by page |
| query engine (`query.py`) | nothing between calls | `query`, `stream`: search, fuse, rerank, arrange, generate, bind citations | stores, providers |
| contextualizer (`contextualizing.py`) | nothing | a prompt within a token budget | a language model |
| format paths (`parsing/pdf.py`, `docx.py`, `html.py`, `pptx.py`) | nothing | bytes to Markdown pages | third-party readers |
| page classifier (`parsing/classifier.py`) | nothing | text layer or vision, page by page | called by ingestion, and by the PDF path to decide on an image |
| providers (`providers/`) | HTTP clients | one request each | remote services |
| command line (`cli.py`) | a JSON store file | `ingest`, `query`, `eval`, each in a process | the pipelines over the fakes |
| fakes (`fakes.py`) | the stores of a kit, in memory | every port of `ports.py` | used by the command line and by tests |
| evaluation (`evaluation.py`, `goldens.py`) | nothing | scores of examples, their means, the gate | runs both pipelines |

What is hard here, and what would make each part wrong:

- **Isolation over shared connections.** A pooled connection is pinned to a
  namespace with `SET LOCAL`. Any await may raise or be cancelled. A pin that
  survived its transaction, a statement that ran before it, or a role that
  bypasses row-level security, would show one tenant the rows of another.
- **Replacement while others read and replace.** `upsert` deletes, then inserts,
  under READ COMMITTED. Two ingests of one document, a purge and a search run
  in any order and fail in any place, and a document must be there whole or
  not at all.
- **Waiting.** Calls wait for connections and for each other's rows.
- **Schema changes under traffic.** Several processes call `migrate()` when they
  start. Each statement takes locks and any of them may fail. At no time may
  the table be open without its policy.
- **A cache that may be lost, full, stale or garbled.** `ports.py` promises that
  the engine is correct without it.
- **Shared state in the backend.** The stash links two calls of one ingest and
  is shared by all of them.
- **A stream that may break.** Events must keep their order and the last one has
  to agree with those before it.
- **Reading order.** A page is a heap of words with coordinates. Whether a gap is
  a gutter or the inside of a table decides the order of all of them, and each
  has to come out once. In every format lines are held back until a list or a
  paragraph is complete.
- **A file shared by processes.** Commands load the store file, change it and
  write it back whole, with no lock and no rename, and may be killed anywhere.
- **Arithmetic.** Ranks from zero, scores with ties, markers from one, budgets
  that are met exactly or shared between two sides, tables with no rows, ratios
  with nothing below the line.

`PROJECT.json` lists each of these at its line under "hazards".

## The modules

| Module | Models | Extends / instantiates |
|---|---|---|
| `Calls` | what the calls of `RagSage` carry: operation, namespace, documents, chunking | |
| `Corpus` | the promise of the store: a map from document to chunking that calls change in one step | `Calls` |
| `ScopedStore` | sessions, pool, transactions, locks and row-level security | `Calls`, instance of `Corpus` |
| `Ingestion` | concurrent ingests over one cache and one backend | |
| `Enumeration` | lists made of sets, found by counting: used wherever the code sorts or filters; sums | |
| `QueryStream` | retrieval, the stream and its consumer | `Fusion` |
| `Fusion` | reciprocal rank fusion and the order of the prompt, as operators | `Enumeration` |
| `Migration` | `migrate()` statement by statement, over other migrations and traffic | |
| `Chunking` | both passes of the chunker over the body of a section | `Enumeration` |
| `Contextualizing` | the window of text a chunk is embedded with | `Enumeration` |
| `Pages` | what the format paths share: blocks, held lines, pages, the classifier | |
| `PdfPath` | words on a page to Markdown | `Pages`, `Enumeration` |
| `FlowPaths` | the walks over DOCX, PPTX, HTML and text | `Pages`, `Enumeration` |
| `Formats` | routing, and all paths together | `PdfPath`, `FlowPaths` |
| `Fakes` | one ingest into a kit in memory and one answer from it, as operators | `Fusion` |
| `Evaluation` | the scores of an answer, their means and the gate, as operators | `Fakes` |
| `CommandLine` | commands as processes over one store file | `Evaluation` |
| `ScopedStoreProofs`, `IngestionProofs`, `QueryStreamProofs`, `MigrationProofs`, `ChunkingProofs`, `ContextualizingProofs`, `FormatsProofs`, `CommandLineProofs` | proofs | the module they are named after |
| `MC*` | instances for TLC | |

### ScopedStore

A call goes `idle` → `queued` (waits for a connection) → `role` (`SET LOCAL
ROLE`) → `bind` (`set_config`) → `run` (its statements, counted down in `left`)
→ `committed` → `idle`. A step is one round trip to the server. `Raise` stands
for whatever may end a call between two steps: an exception, a timeout of the
pool, a cancellation, a consumer who closes the stream (`GeneratorExit`), and
the loss of the answer to a COMMIT the server has carried out (`Raise` after
`Commit`). `Rollback` is the except clause, or the close of the session.

Postgres is modelled at READ COMMITTED: a statement reads what is committed when
it begins; `BeginDelete` fixes the rows a DELETE found and `FinishDelete` waits
until none of them is locked, skipping those that are gone; `Insert` waits for an
uncommitted row of the same key and fails on a committed one. Two
simplifications: a DELETE takes its row locks all at once, so the deadlock of
two of them appears as the abort the server makes of it (`Raise`), and a session
holds at most one transaction. The role `owner` may bypass the policy, as the
worst case. The limit of a search is left out, so a search returns all it could.
A `document_ids` filter is a collection, which narrows, or a bare id, which
`_document_filter` takes for no filter at all (`Filters`).

`Corpus` is what callers may rely on: a call takes effect at most once, all at
once, before it returns "ok". A delete or purge clears every document nobody
rewrote meanwhile (it may miss one that an ingest commits while it waits).
`ScopedStore` implements it under the map `rows` ↦ served chunking of each
document, `call` ↦ request.

### Ingestion

A task goes through `get` (ask the cache for the parse) → `set` → `find`
(deduplicate) → `resolve` (transcribe and chunk) → `context`/`keep` (the text to
embed, chunk by chunk) → `stored`. A step is the code between two awaits. All
tasks work in one scope. The write to the stores and its COMMIT are one step
here, which is what the refinement of `ScopedStore` proves of them. The cache may
miss at every `get` and refuse at every `set`; entries of the kinds in
`Corruptible` are overwritten by others, with text that is no entry (`Garbled`) or,
for a parse, with a document that decodes and is of something else (`Foreign`): the
code does not compare what it decodes with the key. SHA-256 and its
sixteen-character prefix are taken to be injective. A name stands for a file name
and its media type, and the same bytes may have several; so may they several sizes
of chunks, and a scan several readings. A path is read twice, once for the hash and
once by the parser, and its file may be rewritten in between. `MCIngestion` counts
ingests and meddlings (`BoundedSpec`) where there is no liveness to check, for the
rest of the state would only repeat.

### QueryStream and Fusion

A text is a sequence of atoms: words, blanks and markers. The refusal message is
taken to consist of two words; a marker comes whole within a fragment, and a text
equals the message, once stripped, only if the blanks between its words are the same. Scores of
the fusion are counted in units of 1/`Unit`, so that they are integers; `Unit` is
a multiple of every denominator. A sort is the enumeration of a set in an order
(`InOrder`), in which a member is found by how many come before it: that is what
a stable sort returns, and, unlike a sort, it can be reasoned about without
recursion. `Break` is an exception of any provider or the
consumer closing the stream. The default outcome of `query()` before a terminal
event is not modelled: `stream` always yields one or raises.

### Migration

One step per statement of `migration_statements`, in its order, in a transaction.
`Await` and `Duplicate` are the second creator of a catalog name: it waits for
the first and fails if that one commits. CREATE INDEX takes a SHARE lock and ALTER
TABLE an ACCESS EXCLUSIVE one, granted in the order they are asked for; `Deadlock`
is the server breaking a cycle. `Lose` is a lost connection. A change of
`text_search_config` between migrations is documented as unhandled and left out.

### Chunking

A line is a kind and a number of tokens. Blocks are intervals of lines, units
intervals of lines under an optional repeated header, chunks intervals of units.
A step is one turn of a loop. The recursive splitter of langchain is outside: it
may return any pieces that cover the block, fit the budget, share no more than the
overlap and begin no earlier than the ones before them. The Markdown header splitter is outside too. It hands over
bodies whose blank lines, outside fenced code, are gone, so that two tables that
follow each other without prose come as one table; `HeaderOf` reads them so.
In the model tokens of joined texts add up, with `Glue` for the blank line between
two units.

### Contextualizing

`Locate` is `_locate`: the chunk's text as it stands, else its first line and its
last one after that, else nowhere. Then each side is fitted, the preceding one
first (`_fit`): it is left empty, taken whole, or grown paragraph by paragraph,
and sentence by sentence if not one paragraph fits (`_fit_pieces`, a turn of its
loop to a step). A text is a sequence of lines, each one sentence, and a chunk is
what the chunkers make of it: lines as they stand, two passages joined, or a
rewriting (what the vision model may return). The paragraphs of a text are the runs of lines
between blank ones, in order (`Runs`, `Paragraphs`). Tokenisation is the constant
`Count`, any function of whole texts: as `_count` in the code, `Tokens` counts the
joined text afresh at every use, and no property adds up costs of parts. In the
instance a text costs more, as much, or less than its lines do. Sentences are joined
by nothing, the code's space between them being no line of its own, so a paragraph
and all its sentences cost the same. The fixed labels of the assembled text are left
out.

### Pages, PdfPath, FlowPaths and Formats

`phase` goes `route` → `open` → (`sheet` | `root`) → `walk` → `done` or `failed`,
`work` is what the walk has still to take, `held` the lines of a list or paragraph
that is not complete. A piece of content is known by its place and not by its
characters, so that a property can count how often it comes.

`PdfPath` lays a page out in one step (`LayOut`: bands, lines, ruled and
borderless tables, heading levels: functions without state in the code, operators
here), and writes it item by item as `_emit_column` does. Coordinates are
integers, halves doubled. A word has a style (size, height, weight, and the depth of
the number it stands for, if any), and the words on one top share it; a
word is on a line if it is within three points of its top or 0.6 of the word's own
height (`IsNear`), as in `_group_lines`. What pdfplumber finds ruled is any of
`Boxes`; what its tables hold is taken to be the words whose middle is inside, the
test by which the code removes words from the prose (`Held`; the text of a cell is
pdfplumber's, and a word on the rim of a box could be in neither or in both).
`DegradePage` is the except clause of a page. A PDF may have no page. The pixels of a
page are outside; whether it gets an image is not. The classifier has thresholds:
`Default` are those of `_CLASSIFIER` in `pdf.py`, which decides on images, and
`Policies` those of the classifiers a pipeline may be given, which decide on routes.
An area ratio is an area over `PageArea` and at most one.

`FlowPaths` takes one paragraph, table, shape or node at a step. A body has
elements that are neither paragraph nor table (`w:sdt`, `w:sectPr`), which are
skipped with all they hold. HTML nodes are numbered in document order, and a tree is
any that can be made of `Tags` with text, comments and `br` as leaves: lists in lists,
blocks in lists, captions in tables. `span` stands for every element the walk has no
case for. Inline marks, links and the text of cells are left out. The parts of a slide
are its title, its shapes and its notes, numbered in that order (`Place`); `NotesPart`
is any number above the shapes'. `RepeatTitle` is the outcome of `shape is
title_shape` when python-pptx returns another wrapper.

`Formats` routes by media type, then name, then bytes, as `detect_format` does.

### Fakes, Evaluation and CommandLine

A kit is a shelf for each namespace: vector and lexical records and documents, in
their order. Ingesting a source and answering a question are functions of a kit,
for nothing else runs in the process meanwhile; they are composed of the same
fusion and edge order as `QueryStream` (`Fusion`). Vectors are word counts by
`Bucket`, so that words collide as they do under the hash of `fakes.py`: the product
of two is the number of pairs of places whose words share a bucket. Cosines are
compared squared. A score is an integer fraction of `Scale`.

In `CommandLine` a process is `idle` → `load` → `ingest`, source by source →
`write` → `done` for an ingest, `read` → `answered` for a query, `golden` →
`score` → `passed` or `failed` for an eval. `Truncate` and `Write` are the two
halves of `write_text`. If two processes write at once, the later one may leave
the other's tail behind its own (`garbled`). `Kill` may come at any place; a kill
in the middle of a save, or two saves that overlap, set `raced`; what such a race
leaves is outside `SerialSavesLast`, for the code promises nothing of it.

## The runs

| Run | Question | Bounds |
|---|---|---|
| `tenants` | Do two tenants stay apart, are documents replaced whole, is `Corpus` implemented? | two sessions, connections and namespaces, one document, chunkings of 0, 1 and 2 chunks |
| `pool` | Does every call end? | two sessions; one connection and every call, or two and the calls that lock |
| `straddle` | finding: do the two searches of an answer see one chunking? | one namespace, one document |
| `cached` | Is what is stored always one whole document, whatever two ingests share in the cache, and who leaves what in the stash? | two tasks, two ingests and one meddling; two contents, one of them unknown to the router, two names, a file, two sizes, two readings of scans; parses and contexts garbled, parses replaced by a foreign document; deduplication |
| `smooth` | Does every ingest succeed when only the cache fails? | two tasks, one rewritable file, two contents |
| `answers` | Do stream, refusal, citations and ranking agree? | lists of up to four chunks and a fusion constant of four, scores below, at and above the threshold, three fragments, markers 0 to 5 |
| `migrate` | Is the table ever open, and does every migration end? | two migrations that restart for ever, one session, two widths, two variables |
| `misled` | finding: does success mean that the width is right? | the same |
| `chunks` | Is every line kept, in order, within budget, and are tables readable? | bodies of up to five lines of one or five tokens, a budget of four, an overlap of two |
| `window` | Do the windows keep to the budget and use it, are they the text nearest the chunk, do they stand in its place? | documents of up to five lines of three costs and blanks, every passage and pair of passages of each, a header that leaves most of the ceiling and one that leaves nothing |
| `formats` | Does content come once and in reading order, do headings keep their ranks, do pages take the right route? | PDF pages of up to seven words on four tops in one or two columns, four styles in three sizes, three sets of ruled boxes, thresholds of the parser and of two pipelines; bodies of up to four elements; decks of up to two slides of up to two shapes; every tree of up to three nodes and seven larger ones |
| `command` | Does a saved document last, are questions answered from it, is the gate fair? | two processes, three commands, two namespaces, five files, five questions, two golden sets |

Why these bounds are enough to be of interest. Two sessions reach every conflict
the code has, as each is between two transactions; the proofs cover any number.
Two chunks tell a partial replacement from a whole one, zero chunks is the ingest
that replaces nothing. Two fragments already split the refusal message, and the
third spaces it; `MaxMarker` exceeds the largest context by one. In `answers` the
constant of the fusion, 60 in the code for lists of 20, is as small as the lists are
long, so that they reach the end at which two late places weigh hardly more than one
first place; with a constant of two the property fails. In `cached` two ingests are
what it takes for one to find what the other left, and one meddling for a rewritten
file or a bad entry between them. In `chunks` a
table of two lines and three rows overflows, three small blocks meet the budget
before their separators and exceed it after, and a five-token line is irreducible
in a table and is cut in prose; with an overlap of two lines a piece could begin
before the one before it did. In `window` the header leaves eight tokens or none, and
two paragraphs a side overflow their offer in every way the code distinguishes: whole,
by paragraphs, by sentences, not at all; texts join at a loss and at a gain. In `formats` the tops are close enough to make one line of two, far enough to
make another, and high enough for a gap to be a gutter or not. In `command` two
ingests and a query, or an ingest between the load and the save of another, are
three commands; `RetrieveK` is two, the smallest at which `AnswersTheMatch` holds
(the code's default is twenty): with one, a chunk found by its stop words fills
the list. `window`, `formats` and `command` have 0.26, 1.07 and 0.42 million
states. `MaxLines`, `MaxFragments`, `MaxMarker`, `MaxElements`, `MaxSlides`,
`MaxNodes`, `MaxCommands` are the only bounds in guards or in sets of inputs;
nothing else counts without end.

Deadlock is checked in every run. Symmetry is used where no liveness is checked,
over sets the configuration treats alike.

### Fairness

- `pool`: the event loop runs every task (WF on its steps); the pool and row
  locks are first in, first out (SF on checkout and on the steps that wait); the
  consumer of a stream goes on or closes it. Nothing forces `Raise`.
- `smooth`: WF for each task, nothing but the cache fails (`Smooth`), and what is
  ingested are files, whose bytes may change meanwhile (`FilesSpec`). Every
  other failure ends an ingest with an exception, by design.
- `migrate`: SF for the statements of each migration (lock queues), WF for the
  deadlock detector and for the end of a session's transaction.

## What the runs found

Two runs are expected to be violated, each with its finding in `PROJECT.json`:

- `straddle`: the two searches of a question are two statements at READ COMMITTED;
  a re-ingest that commits in between gives the prompt chunks of two chunkings.
- `misled`: the width is checked once before the statements run.

Others met while modelling have no run of their own. Eight are properties in the
modules, each of which TLC finds violated when a configuration names it:

- `TextsAreOfTheirChunks` (`Ingestion`, two values of `Size`): the key of a cached
  context is the document's hash and the chunk's ordinal. After a change of
  `chunk_size`, or another transcription, the same key means another chunk, embedded
  with a text written for the first, against "there is no staleness for the key to
  guard against" (`caching.py:22-25`).
- `FormatsFollowTheSource` (two names): the parse cache is keyed by the bytes. The
  same bytes under a name that routes elsewhere come back in the format of the
  first, against "its result depends only on the document's bytes and the parser
  reading them" (`ingestion.py:144-147`).
- `DocumentsAreOfTheirBytes` (a file): a file rewritten between hash and parse is
  cached under the hash of its old bytes, and an ingest of those, from memory, then
  stores the new document. An entry of a foreign writer that decodes is not compared
  with its key either.
- `StashIsInFlight`: an ingest that is cancelled, fails or is deduplicated between
  parse and chunk leaves its pages in the stash for the life of the process, against
  `parsing/backend.py:130-132`. A failure after chunking leaves nothing.
- `FiltersNarrow` (`ScopedStore`): a `document_ids` that is a bare id is taken for no
  filter and the search runs over the namespace, against "narrows and never widens"
  (`storage/stores.py:27`). The fakes match nothing in that case.
- `NothingDropped` (`Formats`): a list takes its text from its items and a table from
  the cells of its rows, as many as the first row has; other text in them (a list
  right in a list, a caption) is in no block, against "so nothing is silently dropped"
  (`html.py:139-140`).
- `NumbersNest`: on a page with a larger title, `1 Introduction` and `1.1 Background`
  in the second face are both `##`, against `pdf.py:397-399` and the advice of
  `website/content/failure-modes.mdx:328-330`.
- `NoneIsReadDistrusted`: a page that an injected classifier distrusts and the
  parser's own trusts has no image and is read as text, against "the very classifier
  the pipeline will run" (`pdf.py:45-47`), as `failure-modes.mdx:245-254` describes.

`MarkersResolve` (`QueryStream`) fails too: a marker out of range loses its citation
and stays in the text.

The rest, by part:

- Ingestion: two first ingests of one document at once may make the second fail on
  the key.
- Queries: a chunk found by one channel at its top can be cut by the fused list;
  `_converse` may end as NOT_FOUND without a search (`models.py:258` says a search
  found nothing).
- Migration: two processes that start together on a fresh database make one
  `migrate()` fail, on an existing one one of them is aborted in a deadlock, against
  "Safe to call on every start" (`engine.py:109`).
- Contextualizer: a chunk whose first line occurs earlier may be given the
  neighbours of that place, against "a missing neighbourhood is worth far less than
  a wrong one"; headers, labels and separators are outside the "hard ceiling on
  everything prepended".
- PDF: a ruled table that crosses a column boundary has its words written in the
  other column as well; a title across both columns bridges the gutter and the page
  is read as one column. Where the gutters are is the code's own test, which
  `SheetKept` takes as given: the pages of `failure-modes.mdx` on which that test is
  wrong satisfy it.
- HTML: comments come out as text; a table whose first row is empty is dropped; rows
  of a table in a table come twice; only the first article, or the densest div, is
  read.
- DOCX: a heading with a list number of its own becomes a list item. PPTX: the text
  of grouped shapes is dropped, a title may come twice.
- Command line: of two ingests that overlap the first may be lost although it
  reported success; a save cut short makes every later command fail; a source that
  cannot be read loses those before it in the same command.
- Goldens: names that are not in the corpus drop out of the labels, and an example
  with none left is scored 1.0.

## The proofs

TLAPS proves the following for every number of sessions, tasks, documents, chunks,
migrations and lines, from the assumptions named in each module only.

- `ScopedStoreProofs`: `TypeCorrect`; `CleanPool`, `ScopedReads`, `ScopedWrites`;
  `WholeReplacement` (`OneChunking`), `WholeReads`. None of these is inductive
  alone. `TypeInv` adds what the place of a call says of its state. `PinInv`: two
  sessions never hold one connection, and a connection is pinned to its holder's
  namespace, as the application's role, before the first statement and unpinned
  after the last. `ScopeInv`: what a session found, deletes, inserts or has seen is
  in the scope of its call. `DeleteInv`: the rows a session found or deleted are
  whole documents of the committed table, and no two sessions deleted the same row;
  `InsertInv`: inserted rows are a whole chunking of documents of which nothing
  else will be left when they are committed.
  The same module proves the refinement, `StoreImplementsCorpus`. `WorkInv` says which part of its
  work a call has done at each statement, `AppliedInv` when it took effect. `Begin`
  is the abstract Begin, `Commit` the abstract application, `Return` and `Rollback`
  the abstract returns, and every other step stutters.
- `IngestionProofs`: `TypeCorrect`; `WholeDocuments` (`StoresWholeDocuments`);
  `StashAccounted` (`StashIsAccountedFor`), with no hypothesis beyond
  `ConstantsAssumption`: any names, files, sizes, readings and foreign entries, every
  failure, with deduplication and without. What the cache keeps of the code's promises
  is little, and `CacheInv` says how much: a parse that decodes is a document somebody
  read, not always of the bytes of its key; a context is of the document and ordinal
  of its key, or was overwritten. `TaskInv`: an ingest has the texts of just those
  chunks of one chunking of its document that are not to do (`HasTexts`). Hence what a
  `Store` puts down is whole. `StashAccounted` is a property of steps and needs the
  types only: each step is shown to account for what it leaves in the stash.
- `MigrationProofs`: `MigrationTyped`, `ProtectedAlways` (`NeverUnprotected`),
  `MigrationTakesEffect`. `Committed`: a committed table is complete. `Held`: only
  the creator of the table, or the one who has it locked against everyone, has a
  draft of it. `Progress`: the draft has what the statements so far have given it.
  `Passed`: what the statements so far create is committed, or their own.
- `ChunkingProofs`: `ChunksWithinBudget`, `ChunksNotShredded`, `ChunksCoverInOrder`
  (`CoversInOrder`), `TablesStayReadable` (`TablesReadable`), `ChunkingTypeOK`, for
  every body, budget, overlap and cost of a join. The first two rest on sizes alone
  (`Inv`): a unit is within the budget or irreducible, an open table has its header,
  an open piece fits or is one row, and closed chunks are linked, each beginning where
  the one before ends and would not have fitted. The others need to know where each
  line is (`IInv`, `Placement`). `BlocksInv`: blocks follow each other, a table begins
  where no other goes on and has only rows, and prose has no line of a table.
  `ScannedInv`: a line that was scanned is in a block, open, or blank. `UnitsInv`: a
  unit is a whole block, a piece of prose over the budget, or rows under the header of
  their table, and of two units the later begins and ends no earlier and shares lines
  only in such prose. `SizedInv`: the lines of the blocks that are done are in units.
  `PackedInv`: chunks are disjoint and take every unit so far. What the lines of a unit
  cost is a difference of two totals; totals do not fall, so a unit that has a row and
  a header costs no less than the two.
- `QueryStreamProofs`: `StreamEventsInOrder`, `StreamCompleteMatches`,
  `StreamGrounded`, `StreamChannelsReinforce`, `StreamTypeOK`, for every corpus, list,
  score and answer. First what the operators return: an enumeration is a bijection
  that respects its order, the fusion is a permutation of what was found, the order
  of the prompt one of what it is given, the citations are the markers of the text
  without repetition. Then the invariant: `FusedInv` (the candidates are the fusion
  of the two lists that are still there), `AnswerInv` (what is known of text,
  citations and sources at each place), `StreamInv` (the events are the fragments, so
  many citations, and so many of the two that close a stream), `TypeInv`.
  `ChannelsReinforce` is proved under `RetrieveK <= RrfK`: two shares of the last
  places of lists of length R, 2/(K+R-1), exceed one share of a first place, 1/K, if
  and only if R <= K. The code has 20 and 60, and lets a host set the 20 only.
- `ContextualizingProofs`: `Ceilinged` (`WithinCeiling`), `WindowFull`
  (`NothingMoreFits`), `WindowNoHoles`, `WindowRightPlace`, `WindowTypes`, for every
  document, tokeniser, window and header: nothing is assumed of `Count` but that it
  counts. `Charged` says that what is kept of a side, closed or not, fits what it was
  offered; `Greedy` that a side which is cut by paragraphs has all the neighbours to
  choose from and did not fit whole, and one cut by sentences those of a nearest
  paragraph that did not fit alone, so that the piece at which it stops is one too many
  (`Full`). That the text is the right one takes four conjuncts more. `Document`:
  the chunk was made of this document. `Where`: the place found is `Located`.
  `Fitting`: what is being gathered is a chain of pieces of that side, each next to
  the one before with only blanks between. `Closed`: the same of the sides that are
  done. `RightPlace` follows
  from `Where`: a chunk that stands in the text stands at its origin, as nothing else
  is said to match; one that was joined or cut begins at the first line that is its
  own first one and ends at the first of its last.
- `FormatsProofs`: `PagesRouted` (`PagesRoute`), for every document and layout, any
  thresholds of the parser's classifier and any of a pipeline's. `PagesInv` says that
  each page made so far is `Right`, which is about `Default` alone, and that there is
  none before the format is known; `RoutedInv` that there is a page for each sheet,
  measured, and that one which raised measures as a page that no thresholds let pass
  and has an image. What a more trusting classifier distrusts the default one
  distrusts too, because what is measured are numbers.
  `FlowsKept` (`FlowKept`), for bodies, decks and trees of any size. `FlowInv` says
  for each format what has come out, written or held, and what is left. `DocxInv`: the
  first m elements have, in their order, and the rest are the work. `PptxInv`: a walk
  is before a slide (`Slidewise`), at its title (`Titlewise`) or among its parts
  (`Partwise`), and what lies before that place has been told (`Told`), a title
  perhaps twice. `HtmlInv`: the work is a queue of nodes in the order of the document,
  none of them under another (`Queue`); what came out is in order, tables with rows in
  their rows apart (`Steps`), and before all that is left, and each text but the
  strays has come out or is in a node that is left (`Halfway`). `SaysAll` is what that
  takes of one node: lists and tables, which the walk does not enter, say all that is
  in their places. The lemmas are about trees numbered in the order of the document: what
  is under a node is an interval, so that of two nodes, neither under the other, all
  of the one is before all of the other.
  `HeadingsKeepRank` (`HeadingsRanked`) and `PathsTypeCorrect`, for any words, boxes
  and thresholds. `SheetInv`: the pages made are those of the first sheets, and what
  has been written of the one that is walked, what is held and what is left are
  together its columns, headings as well (`Walked`); when the page is made nothing is
  left. So the headings on a page are the lines of its columns that got a level, with
  the size and number of the words they are made of, and the rank of a size is a
  number of larger sizes, which is greater for a smaller size; the level is the greater
  of that and the number, up to four, from which the three clauses of the property
  follow (`RankedWell`). `LevelsOK` says of the
  work and the blocks of every format what levels there are. `SheetsKeptWhole`
  (`SheetKept`), for any words, boxes and thresholds, adds what the layout makes of the
  words of a page. Merged spans do not overlap and no word lies across a gap between
  them (`Spanning`), so the gutters are in the same order on every word (`SidesAre`): a
  word is in one band, and two words of two bands have a gutter between them
  (`BandsAre`). A word's line begins at its anchor, which is no later than the word and
  above everything on the lines after (`Lined`), so lines are one above the other
  (`Stacked`). Runs of lines with the same cells are maximal, hence disjoint
  (`RunsApart`), and a thing made of lines has the top of one of them: sorting by tops
  puts things in the order of their lines (`PilesApart`), wherever ruled tables come
  between. `ReadsDown` says this of a column, and `ColumnsApart` of two. Of the words
  it assumes (`PdfAssumption`) that two on one top do not begin at one place, and that
  they are given in the order into which `_group_lines` sorts them.
- `CommandLineProofs`: `CommandsTyped`, `SavesLast` (`SerialSavesLast`),
  `CommandsAnswerTheMatch`, `CommandsGateFair` (`GoldenGate`), for every number of
  processes, files and commands and every vocabulary. `TypeInv` has a `Shelf` for
  each namespace of each kit: both stores hold the same records, those of a document
  are numbered one after the other by page (`Numbered`), and they have exactly the
  content words of the document (`Worded`), as no word is lost between two windows.
  For `SavesLast`, while no saves have overlapped (`Safe`): at most one
  process is between its load and the end of its save (`OneSaver`); the file is empty
  only while that one writes (`EmptyWhileWritten`); the kit of that one has
  everything that was ever saved (`Loaded`) and the sources it has taken (`Taken`);
  and the file does otherwise (`Lasting`). `CommandsAnswerTheMatch` follows a word of
  the question: it is in a record (`Worded`), which both searches find (`DenseOf`,
  `OverlappingOf`); what the lexical one has first scores the share of a first place at
  least, which of those the dense one alone has found only its own first does, so one
  of the first two of the fused list was found by words (`FusionFirst`); a cut at two
  leaves one that matches, the reranker puts those that match first, the edges drop
  none, and the model takes the best of what it is shown (`QueryOf`). The hypothesis
  `RetrieveK >= 2` is needed: with one, a chunk found by its stop words or by a
  collision alone may be all that is left. The code's default is 20, and nothing keeps
  a host from 1. `CommandsGateFair` adds that an eval asks a kit that has its corpus
  and nothing else (`GoldenInv`), and computes the scores of what is answered
  (`JudgedOf`). Its golden sets are `Scorable`: no example asks what is small talk,
  which is answered without sources, and a corpus has no more documents than `Scale`
  units, below which a recall of one in many rounds to nothing.

Sorts, sums and filters are recursive in most libraries. Where a proof needs them,
the models have them as enumerations by counting (`Enumeration`) or as sums of a
recursive function on an interval (`Total`), whose existence and values are derived
from the least place where they would fail: the order of the natural numbers is well
founded. The lemmas about enumerations and sums are in each module that uses them.

Only model-checked: liveness (`CallsReturn`, `IngestsSucceed`, `MigrationsEnd`),
which rests on fairness and is out of the prover's reach. Every other property of a
passing run is stated by a theorem, under the hypotheses named above.

## Not modelled, and why

Validation of settings and identifiers, and the list of messages that are small
talk: stateless checks that unit tests reach. Providers: one request each, present
as the answers and failures of the models that call them. Of the fakes, deletes and
filters, the rewriter and the recording tracer, which only tests use. Of the command
line, `info`, which prints. Inline formatting of every format, and what third-party
readers make of bytes. Documentation tools and the website: no behaviour. Of the
facade, pipelines and engines built inside a session of the host's own.

## Plan

What is left, in order:

1. The facade inside a host's own session: `pipeline_for` and `engine_for` without a
   COMMIT of their own, as another kind of call of `ScopedStore`.
2. A fault model for `CommandLine` in which a save is a rename, to show what it would
   take for `SerialSavesLast` to hold without `~raced`.
