# A TLA+ development of the searchable-encryption schemes in this repository

The repository holds four prototypes of dynamic searchable symmetric encryption.
Each is a client and a server that speak gRPC and keep their state in RocksDB; a
user runs `rpc_client`, which loads the client's state, executes one command and
saves the state in the client's destructor.

| system | directory | what it adds |
|---|---|---|
| FFVSE | `src/EuroS&P22-FFVSE` | verifiable answers, and compaction of an index that has grown longer than its answer |
| Rose² | `src/ROSE-2` | deletions that stay logarithmic, by a binary tree of removed leaves kept in an oblivious map |
| ROSE | `src/ROSE` | deletions carry a token for what they cancel; keys are updated by searches (KUPRF) |
| FVSE | `src/FVSE` | the predecessor of FFVSE: a counter and an XOR checksum |

Cryptography is not the subject here. A hash or a PRF value is a tagged value equal
only to itself, and a cipher text opens only with what it was made from. What is
modelled is everything around it: counters, labels, links, the order of reads and
writes, what is saved when, and what happens when a step is not followed by the next.

## 1. Inventory

### FFVSE

*Client* (`DistSSE.client.h`): `WC1`, the updates in the current epoch of a
keyword, and `WC2`, its epochs, in memory and (only at the end of the process) in
RocksDB. Operations: `gen_update_request`, driven by the jobs of
`DistSSE.db_generator.h`; `search`, which sends a token and reads the whole answer;
`verify`, which recomputes the answer from the proofs; `ReProof`, which opens the next
epoch with a snapshot of the answer. *Server* (`DistSSE.server.h`): "e" and "p" entries
by label. Operations: `batch_update` (two stores an entry), `search` (walk the chain
from the newest label, collect, delete the "e" entries walked if the chain is longer
than the answer, stream the answer), `ReProof` (store the snapshot).

They meet in three calls: the update stream, the search and the `ReProof`. The hard
part is that a search is a transaction over both sides with no transaction manager:
the server deletes on its own count, and the client replaces what was deleted in a
later call and on a count of its own. Nobody looks at the status of a call or a stream, the server
never deletes a "p" entry, and its handlers outlive the client that called them.

Correct means: a search of a keyword that was updated is accepted with exactly
the documents attached; the index at rest is what the saved counters name; a lookup
never misses (the server would continue with the values of the turn before); a deletion
of the chain is followed by its snapshot; and after a failure, an answer that is still
accepted contains nothing that is detached.

### Rose²

*Client*: `ST`, per keyword the key, the number of additions `cnt_i`, of deletions
`cnt_d`, the tree node `sn` a search starts from, and the label of the last leaf;
loaded and saved like the counters of FFVSE. `Update_Rose_2` adds a leaf linked to
the previous one, or removes one: it reads all ancestors of the leaf from the
oblivious map `OD_tree`, takes the lowest one out, links its other child to the
grandparent, and writes entries and nodes on two streams. `search_Rose_2` sends `sn` and
moves to a new key. *Server*: entries by label, the oblivious maps `OD_del` (document to
leaf) and `OD_tree` (node to children); `search_Rose_2` walks the tree breadth-first from
`sn`: an entry of a node leads to its children, a node without one to the chain of
all its leaves. *KUPRF*: key generation and evaluation.

*Oblivious map* (`OMAP/`): an AVL tree (`AVLTree`) whose nodes are blocks of a Path ORAM
(`ORAM`) in a store in memory (`RAMStore`); a node holds the key and the position of each child.
An operation fetches whole paths into a cache, works there, and `finilize` gives every block it
touched a new random position, corrects the positions the parents hold, pads the number of reads
to that of a tree of the greatest height, and writes the paths back, leaving what does not fit in
the cache. What is hard: a block moves in every operation, and the only record of where to is in
another block that moves too.

Correct means: the node numbering of client and server is one tree; relinking
loses no live leaf, at any shape left by earlier deletions; links lead only down;
a removed document is not returned; all of that over sessions that may be killed; and the
oblivious map answers like a map, with no block lost, dropped or in two places.

### ROSE

*Client*: the last operation on each keyword (number, type, label, key). `encrypt`
makes a node that opens the node before it; `trapdoor` makes a search node with the
step from a new key to the old one. *Server*: nodes by label. `search_rose` stores the
search node, walks the chain, removes deletions and the additions they cancel,
relinks past removed nodes, merges adjacent search nodes, and at the end removes
everything it kept if it met no deletion.

Correct means: an answer is exactly the additions not cancelled, although tokens cross
key changes and the chain is rewritten while it is walked; and a walk leaves the chain only at a node
that a fault or an earlier walk without deletions took away, never because of what a walk relinked.

### FVSE

*Client*: per keyword an update count (`uc_mapper`) and the XOR of the identifiers stored
(`sc_mapper`), loaded by the constructor and saved by the destructor, which deletes each key
before it puts it. An update reads both, computes the label from the count, and sets both, in
separate steps; `gen_db_2` runs this in several threads over the one client, each thread with a
stream of its own, and no lock around the maps. `search` sends the count; `search2` calls `verify`
afterwards. *Server*: entries by label; a search enumerates the labels `1..count` and unmasks what
it finds.

Correct means: the count that is saved names labels that all exist, an entry that it names
stays as it is, no update is lost, the checksum is that of the identifiers stored, and all of
that for any number of threads, for a client killed at any moment and for a call that fails. The code does not promise
all of it: which parts hold when is what the properties of `fvse` separate.

### The rest

The four `thread_pool.h` are used by commented-out code only, `ind_merge` has
no caller, `logger` and `trace` only write output, and `random_db`, `reset_csdb`
and the benchmarks are stand-alone drivers. `PROJECT.json` lists each part with its status,
and under "hazards" what is hard to test in it, line by line.

## 2. Modules

| module | what it is | code |
|---|---|---|
| `SSEIndex` | abstract: documents attached to keywords, searches answer exactly | - |
| `FFVSE` | client and server of FFVSE, one action per handler or turn of a loop | client, server, generator |
| `FFVSEFaults` | FFVSE with killed clients, broken streams and replies, server crashes, one handler for each stream, each write a step | the same, between the steps |
| `FFVSELost` | FFVSE from every index lost messages can leave, leftovers of earlier epochs included | generator jobs, what `search` deletes |
| `FFVSEProofs` | proofs about `FFVSE`: types, the inductive invariant, safety, and that it implements `SSEIndex` | - |
| `FFVSELostProofs` | proofs about `FFVSELost`: what is accepted is attached | - |
| `Rose2Tree` | the node numbering: heights, levels, ranges, ancestors | both sides of ROSE-2 |
| `Rose2` | client and server of Rose², one keyword, sessions and kills | client, server |
| `Rose2Numbers` | what the numbering promises, against a tree built from its links | - |
| `Rose2Proofs` | proofs about `Rose2`, for a tree of any depth: the numbering, types, links descend, exact searches, no live document lost, the first two deletions take effect | - |
| `PlainMap` | abstract: a map with calls `find` and `insert`, what `Rose2` uses | - |
| `PathORAM` | the block store: buckets, cache, fetching, new positions, write-back | `ORAM.cpp`, `RAMStore.cpp` |
| `OMAP` | the AVL tree over `PathORAM`, one action per call of the recursion | `OMAP.cpp`, `AVLTree.cpp` |
| `OMAPProofs` | proofs about `OMAP`: types, that no block is dropped, and that it implements `PlainMap` | - |
| `OMAPPlacedProofs` | proofs about `OMAP`: no node is lost, every block is where its parent says, the tree is balanced | - |
| `Rose` | client and server of ROSE, one keyword, sessions, kills, broken streams and failed calls | client, server, generator |
| `RoseProofs` | proofs about `Rose`: links lead back, tokens follow the keys, when walks go astray, answers are exact | - |
| `FVSE` | client, generator threads and server of FVSE, kills, failing and late streams | client, server, generator |
| `FVSEProofs`, `FVSEExactProofs` | proofs about `FVSE`: types, no gap below a saved count and no change there; one thread loses nothing | - |
| `MC...` | the instances TLC runs on | - |

`FFVSEFaults` and `FFVSELost` extend `FFVSE` and reuse its actions; `Rose2` extends
`Rose2Tree`, `OMAP` extends `PathORAM`. `FFVSE` implements `SSEIndex` under the mapping "a keyword is
updated when its counter is positive" (`IndexSpec`), and `OMAP` implements `PlainMap` under the
mapping "the value of a key is that of its newest copy" (`MapSpec`): the two lookups and the two
inserts of `Rose2` are calls of such a map. Operators introduced by a comment
"Mutation" are wrong versions of the definition that follows: each property is run
against one of them to show that it can fail.

### How FFVSE corresponds to the code

`pc` is what the client process does; a call blocks its thread, so while
`srv` (the locals of the server's handler) is not `None` the client waits. `WriteUpdate`
is one turn of a job's loop, `ServerStore` one turn of the handler's, so the server lags behind
by any number of messages. `ServerWalk` and `ServerWalkJunk` are one turn of the loop in
`search` (what `Xor` yields when the entry was not made for the label is junk),
`ServerLast` the code after it, `ServerThrow` the exception when an entry is empty.
`VerifyFirst` and `VerifyNext` are the turns of `verify`, then `RejectResult`,
`AcceptResult` or `AcceptAndReProof` conclude. `live` and `result` are history. Labels
come from a constant operator `St`: `H1(w . c1 . c2)` concatenates two decimal
numbers, so labels of different epochs may coincide; the assumption `StAssumption` keeps
apart those of one epoch only, and TLC's instances use radix 2 so that they do coincide
within the bounds. Without faults one client makes one call after the other, so one queue `net` serves for all
streams.

`FFVSEFaults` gives each stream its handler. A fault cuts the stream that is open (`Break`): any prefix of it has
arrived, and its handler stores this prefix (`late`) at any time later, while other calls are served; the client goes
on at once (`LoseCall`; the rest of the job is `WriteLost`) or is gone (`Kill`). A search of a killed client
goes on too (`orphan`, the same turns of the loop), and may delete after its successor has begun. Each `store` and each
`delete_entry` is a step (`StoreE`, `StoreP`, `DeleteOne`), and so are the `Delete` and the `Put` of each key in
`~Client` (`DeleteKey`, `PutKey`, first `WC1`, then `WC2`), so a client may be killed with one map
saved and not the other, or with a key deleted and not put. `LoseReply` cuts an answer short,
`CrashServer` ends all handlers where they stand. `claimed` (the last snapshot and what was updated since), `saved` (what the
stored counters stand for) and `overtaken` (a handler of an older stream has replaced an entry) are history.

`FFVSELost` starts where any number of failed jobs may have led: of the chain of the epoch any subset is stored, an
entry possibly without its "p". Of earlier epochs any "p" entries are left, for none is ever deleted, and any
"e" entries, for a search deletes those it walked only. Where a label is that of an earlier entry too, the newer cell is over the
older one, or the older one is there in place of the newer, lost one. For this the module knows the shape of
a label, `c1 * Shift(c2) + c2` (`ConcatAssumption`), where `Shift` is 10 to the number of digits.

### How Rose2 corresponds to the code

A label is `<<node, counter, key>>`, the input of the PRF. `AddFind`, `AddInsert` and
`AddSend` are the three calls of an addition; `DelFind`, `DelRead`, `DelEntry`,
`DelTree`, `DelEnd` those of a deletion, the two streams interleaving as
`batch_update_Rose_2` and `batchOMAPInsert` may. `Written` computes `Ins`, with the
counter of a right sibling stored on the left as `client.h:436` does. `DelCrash` is the
index out of bounds at `client.h:443`. `Rose2Numbers` asks of `Rose2Tree` whether the numbers the
client and the server compute are those of one tree; `MCRose2Deep` checks it on eight leaves. The search keeps the locals `C` and `D` through
a missed lookup as `get` does. The oblivious maps are plain maps; the re-encryption of
entries after a search is absent because the call is commented out (`server.h:291`).
`hist` is history: what was asked for, and which accidents happened: a deletion cut short (`torn`), one of a document that
is deleted or was never there (`again`), and the leaf of a deleted document given to another one (`reused`: a killed
process saves neither its counters nor its deletions, the server keeps both).

### How Rose corresponds to the code

A label is the number of its node; a KUPRF value is the document and the key
it is under, a token the pair of keys it leads between. `Update` is `encrypt`, its
node waits in `net` for the handler. Each `Visit` is one branch of the loop of
`search_rose`, with its relinking (`Drop`); `GoAstray` is a read of a missing or
truncated node, after which the code follows garbage and the model stops, which is why
deadlock is not checked in this run. `hist.log` is history: the operations of the keyword by the number of their node, as
far as the client remembers them, and `hist.forgot` the documents whose deletion a killed process took with it. `Readable` chooses whether a value
stored through a C string is cut at a zero byte. There are three faults. `Kill`: the `Last*` entries fall back to the saved ones.
`ExitBroken`: the stream broke and what had not been stored is lost, but the status of `Finish` is not looked at
(`DistSSE.db_generator.h:416` and `:486`) and `~Client` saves entries that name nodes nobody has. `FailSearch`: the call of
a search fails, before or after the request arrived; a walk that has begun runs to its end. `fate` is history: the
nodes `lost` with a call, the nodes `swept` by a walk that met no deletion, and for a node `dropped` on the way the search that
did it.

### How OMAP corresponds to the code

The methods of `ORAM` are operators from the fields of the object (`oram`: the cache, the leaves
of the operation, the buckets read and written, the nodes modified, the number of reads) to their
next values, because an operation of the tree is a sequence of them; `store` is the `RAMStore`.
`AVLTree::insert` recurses: `InsertDown` is one call (the node is read and remembered in `path`),
`InsertNew` and `InsertSame` its end, `InsertUp` one return, with the link, the height and the
rotation of that level (`Rebalance`, the four cases). `FindDown`, `FindHit` and `FindMiss` are
`search`. `Finish` is `finilize` up to the write-back: the padding reads any paths (`Pads`; at
most as many as the code's count of reads leaves), and every modified block gets any leaf (`Refresh`: bottom-up, no further than `maxHeightOfAVLTree`).
`Write` is the write-back of one bucket, deepest first, with as many blocks of the cache as fit, any of
those that may lie there (the code takes them in the order of a hash table). `lost` says that `ReadNode` came
back with NULL or a lookup in the cache threw; nothing is followed after that. (`pc` is then "lost", or "broken" if an insert
whose value was already in the tree meets it on its way back.) `find` of a key
leaves `modified` blocks like `insert`, so finds move blocks too.

### How FVSE corresponds to the code

Every access to one of the two maps is a step, because threads interleave between them: `ReadCount`,
`ZeroCount` (the 0 that `get_update_time` puts for a new keyword), `ReadSum`, `ZeroSum`, `SetCount`,
`SetSum` (with the write to the thread's stream). `Deliver` is one turn of the server's handler,
`Finish` the call that waits for its end, `Search` and `Verify` the two commands. `Close`, `Delete`, `Put`
and `Exit` are the destructor: the checksums first, then the counts, each deleted and then put.
`Kill` leaves what was deleted deleted (`hole`), and the streams of the killed client arrive later
(`LateDeliver`) or never (`LateDrop`). `Break` is a call or a stream of a living client that fails: what was sent goes the
same way, what the thread writes from there on is lost (`cut`), and the counts are raised and saved all the same;
`failed` remembers it. A checksum is the set of the identifiers that are left over in the XOR; it
is `Broken` (an empty string) once the identifier "ind" of command 1, shorter than a checksum, went in.
An entry remembers its mask: command 1 masks with `H2` of the label as the server unmasks
(as `src/FVSE/README.md:84` says), a batch with `H1`, so that a search after a batch returns nothing the client knows.

## 3. Runs

| run | properties | bounds | states | expected |
|---|---|---|---|---|
| `ffvse` | TypeOK, SearchableAtRest, NoStaleRead, IndexSpec, SearchEnds, CompactionCompletes | 1 keyword, 2 documents, 3 updates an epoch, epochs 0 to 2 | 218k | pass |
| `ffvse_faults` | AcceptedIsAttached, AcceptedIsClaimed | the same, 4 updates in all, 1 fault | 2.9M | pass |
| `ffvse_lost` | AcceptedIsLive | 1 keyword, 1 document, 3 updates an epoch, epochs 0 to 2; any lost subset of the chain over any leftovers | 1.4M | pass |
| `rose2` | TypeOK, LiveReturned, ExactWithoutDeletes | 4 leaves, 4 documents, 3 keys, 2 deletions, 1 kill | 2.6M | pass |
| `rose2_deep` | LiveReturned, FewDeletesHold, Descends, RangeIsSubtree, SnIsLowest, FreshChildren | 8 leaves, 5 documents, 2 keys, 4 deletions; the last three look at every node | 1.7M | pass |
| `rose2_deleted` | DeletedNotReturned | 2 documents, 1 deletion | | violation |
| `rose2_repeat` | SearchRepeats | 1 document, 2 searches | | violation |
| `rose2_twice` | LiveReturnedAfterAll | 3 documents, 2 deletions of one | | violation |
| `rose` | TypeOK, AnswersLive, AstrayHasACause, TokensFollowKeys | 2 documents, 3 updates, 3 searches, 2 faults | 6.1M | pass |
| `omap` | TypeOK, NeverLost, Placed, Balanced, NothingDropped, MapSpec | 7 keys in one bucket; 3 keys and 2 values, 4 keys, 2 keys in trees of 3, 3 and 7 buckets | 766k | pass |
| `omap_tall` | CapacitySuffices | 12 keys in 3 buckets of 4 blocks | | violation |
| `fvse` | TypeOK, NoGap, NothingLost, ProofMatches, SavedIsFinal | 2 keywords, 1 or 2 threads, 3 updates, batches up to 3, 1 fault | 957k | pass |

**What they show.** *FFVSE.* Without faults the pair implements `SSEIndex`: every search
is accepted with exactly the documents attached, over any number of compactions
within the bound, although the two sides decide on compaction separately, and although
labels of different epochs coincide (a label that is used again is overwritten before it
is read, and `NoStaleRead` says no turn depends on what a missed lookup left behind).
After one fault anywhere the client may reject for ever. What it still
accepts holds attached documents only (`AcceptedIsAttached`), and once a keyword was compacted it is exactly the
snapshot with every later update (`AcceptedIsClaimed`). Both have one exception, which the code does not prevent:
the handler of a killed client may store an entry after a later client has stored another one under the same label, and
that entry is accepted in its place. Without `~overtaken` TLC finds both violated. With two faults, a kill and then
a lost stream of the successor, `AcceptedIsAttached` fails without any overtaking: the
labels of the killed client are used again, and the loss mixes the two chains. From any index
that lost any of its entries, with any leftovers of the epochs before and one of them
under a label of this epoch, acceptance is still never stale (`AcceptedIsLive` in `ffvse_lost`): a leftover read in place of
a lost entry leads the walk into junk, which `verify` does not accept.

*Rose².* The numbering is a tree (checked against a tree built from its links).
Relinking loses no live document as long as each is deleted at most once, no
process dies in the middle of a deletion and none is killed after it deleted what it added (the next session would give the
deleted leaf to another document, under a node that is already removed: with four documents, two deletions and one kill that
document is lost, which is why `LiveReturned` excludes `reused`). The counter stored on the wrong side loses nothing.
Without deletions the answer is exact across key changes. The first two deletions take
effect if nothing is added afterwards. The third need not: the counter of a sibling that goes to `rNode` replaces
that of the left child, no entry has the label of that child any more, and the walk of the leaves under it returns deleted
documents. With `MaxIds` = 6 and the bound of `FewDeletesHold` raised to 3, TLC finds this on the instance of `rose2_deep`:
six documents, 1, 5 and 6 deleted in this order, and document 1 is returned. With five documents it does not happen. The three violations are disagreements with what the
repository says, recorded as findings: an addition after a deletion brings the
deleted document back (`sn` is recomputed without regard to removed nodes); a second search of
a keyword finds nothing (the key changes, the entries do not); deleting a document
twice loses another one.

*Oblivious map.* Over every shape of an AVL tree of seven keys, and over blocks that do not
fit their bucket and wait in the cache from one operation to the next, a find answers with the last
value inserted; the heights are right and the tree balanced; every block is in one place, on the path its
parent records; and no step drops a block. `omap_tall` is where this ends: `maxHeightOfAVLTree` is
the height of a full tree, an AVL tree of as many keys may be higher, and above the bound the
parents are not told where their children moved. The comment at `ORAM.cpp:308` takes the
capacity for enough; with `OMAP_SIZE` = 1000000, 28656 keys can reach the height that breaks it.
With fewer nothing can be lost: that is proved for every instance whose trees fit (`HeightFits`, section 4), and TLC
evaluates that those of `omap` do (`InstancesFit`).

*FVSE.* With one thread, no kill and no failing call no update is lost, and the checksum of a keyword is the XOR of what is
stored for it, if command 1 was never used on it. After command 1 the checksum is the empty string, for good: the identifier "ind"
is shorter than a checksum, and `Xor` then prints an error and returns `""` (`Util.cc:49-52`). That is a disagreement with
`src/FVSE/README.md:86-87`, which stores `Xor(sc, ind)`; no property calls the empty string right. With several
threads one count is drawn twice (the comment at `client.h:159` says that no lock is needed) and one of the two
updates overwrites the other; but no label below a saved count is missing, whoever races or is
killed, and without a fault no entry below a saved count changes. With a kill the second fails: the
stream of the killed client arrives late and overwrites what a later client stored under the same labels. When a call or
stream of a living client fails the first fails too: the count is saved over labels that were never stored, which is
why `NoGap` asks that none `failed`.

*ROSE.* Every answer is exact, for any mix of additions, deletions and earlier searches, with
search nodes merged, tokens carried across keys, and after two faults of any kind. A walk that does not answer has read garbage, and
`AstrayHasACause` says of the node where it did so that it was never there (the keyword is unknown), or was cut at a zero
byte, or was lost with a failed call, or was swept at the end of an earlier walk that met no deletion, or was dropped
by a search that a killed process then forgot. Each of the five does happen: with any of them left out TLC finds the property
violated. `src/ROSE/README.md:54-57` knows of two, searching twice in a row and an unknown keyword, and is wider and narrower than
the code: the sweep also spoils a search with additions in between (add, search, add, search), and a
broken stream spoils even a first one. Line 57 there, that adding, deleting and then searching may
crash, has no cause in what is modelled (the cut of a document's cipher text at a zero byte is left out).

**Why the bounds suffice.** In FFVSE three updates give a first, a middle and a last link of
a chain, two documents let one update cancel another while a third is left, and two
epochs after the first give a snapshot of a snapshot and, in radix 2, labels that
coincide; with faults, four updates fill an epoch, its killed client's labels and the entry that follows a
compaction. In `ffvse_lost` the labels are made to meet earlier (`Digits`): entry 2 of epoch 1 has the label of entry 3 of epoch
0. Two keywords (two updates each, one compaction) were explored once with the same outcome: the
state of a keyword is touched only by its own commands. In Rose² a node relinks at most its grandparent, so three
levels of nodes contain every shape a relinking sees (root, middle, lowest), and five
documents fill the left half and begin the right half. A tree with three
levels, six documents and five first deletions (4.4 million states) was explored once
with the same outcome. In ROSE three searches give a merge after
a merge's first half was itself relinked, two updates around a search show what a sweep leaves behind, and two faults let a
kill follow a failed call.

In the oblivious map seven keys give every double rotation at the root and below it, buckets of one block give a
full path and blocks that stay in the cache, and two levels below the root give a bucket that is on
some paths but not on all. In FVSE two threads and three updates let one thread store an old count
after the other has gone two ahead.

**Bounds in the modules.** `MaxC1`, `MaxC2`, `MaxFaults`, `MaxUpdates` (FFVSE); `Depth`, `MaxIds`,
`MaxKeys`, `MaxDeletes`, `MaxKills` (Rose²); `MaxUpdates`, `MaxSearches`, `MaxFaults`
(ROSE); `Geometry`, the instances of the map (depth, bucket size, keys, values); `MaxThreads`, `MaxBatch`,
`MaxMade`, `MaxFaults` (FVSE). The search of FFVSE also requires an epoch to be left, so that the `ReProof` it may end
in is always possible.

**Fairness.** Only FFVSE states liveness. `WF(ServerHandler)`: gRPC runs a handler that
was called on a thread of the server until it returns. `WF(ClientSearch \/ FinishUpdate \/ Exit)`: the
client's thread does not stop by itself while a call has returned. Nothing
is assumed of the user: new commands and the length of an update job are free, so a job need
not end; a search must.

## 4. Proofs

The theorems hold for every value of the constants that satisfies the assumptions of the
modules, which TLC evaluates in the runs. For `FFVSE`: `BoundsAssumption` (the bounds are numbers, at least one
update an epoch), `IdAssumption` (finitely many documents, so that answers have a size),
`StAssumption` (labels of one epoch differ; nothing is assumed of labels of different epochs or
keywords) and `NoneAssumption` (the absent value is none of the others); for `FFVSELost` also `ConcatAssumption`: a label is
`c1 * Shift(c2) + c2`, and `Shift(c2)` is greater than `c2` and does not shrink when `c2` grows, as 10 to the number of digits. For `OMAP`: keys are positive numbers, the
geometry is a set of instances (with any depth, bucket size and bound on the height), the absent value is no value, call or answer.
For `Rose2`: the bounds are numbers and the tree has at least one level (`DepthAssumption`); nothing is assumed of powers of two,
whose laws are proved. For `Rose` and `FVSE`: the bounds are numbers (in `FVSE` of at least one thread).

| theorem | what it says |
|---|---|
| `TypeCorrect` | `FFVSE`: `Spec => []TypeOK` |
| `Invariant` | `FFVSE`: `Spec => []IInv`, the inductive invariant below |
| `NoStaleReads` | `FFVSE`: no turn of the server's search misses a lookup |
| `AlwaysSearchable` | `FFVSE`: between commands the index is the chain the saved counters name |
| `Implements` | `FFVSE`: `Spec => IndexSpec`, the client and the server implement `SSEIndex` |
| `LossesHideOnly` | `FFVSELost`: `LostSpec => []AcceptedIsLive`, a lost message hides updates and no more, whatever earlier epochs left |
| `TypeCorrect` | `Rose2`: `Spec => []TypeOK` |
| `RangesAreSubtrees`, `SearchesStartLowest`, `AncestorsGetTheirChildren` | `Rose2`: `Spec => []RangeIsSubtree`, `[]SnIsLowest`, `[]FreshChildren`: client and server number one tree, of any depth |
| `LinksDescend` | `Rose2`: `Spec => []Descends`, no search runs in circles |
| `ExactSearch` | `Rose2`: `Spec => []ExactWithoutDeletes` |
| `NoLiveDocumentLost` | `Rose2`: `Spec => []LiveReturned`, at every shape earlier deletions leave |
| `FewDeletesTakeEffect` | `Rose2`: `Spec => []FewDeletesHold`, the first two deletions hide what they delete and nothing else |
| `OMAPTypeOK` | `OMAP`: `Spec => []TypeOK`, with it that no bucket exceeds `Z` blocks |
| `BlocksAreNeverDropped` | `OMAP`: `Spec => NothingDropped` |
| `OMAPIsAMap` | `OMAP`: `Spec => MapSpec`, the AVL tree over the Path ORAM implements `PlainMap` |
| `OMAPNeverLost` | `OMAP`: `Spec => [](HeightFits(geo) => NeverLost)`, no operation meets a node it cannot read |
| `OMAPPlaced` | `OMAP`: `Spec => [](HeightFits(geo) => Placed)`, one copy of each block, where its only parent says |
| `OMAPBalanced` | `OMAP`: `Spec => [](HeightFits(geo) => Balanced)`, the heights are right and the tree is balanced |
| `NodesLeadBack` | `Rose`: `Spec => []TypeOK`, with it that every link leads to an older node |
| `TokensAreUnderTheKeyRead` | `Rose`: `Spec => []TokensFollowKeys` |
| `AstrayOnlyForACause` | `Rose`: `Spec => []AstrayHasACause`, what a walk relinks breaks no chain |
| `AnswersAreExact` | `Rose`: `Spec => []AnswersLive` |
| `TypeCorrect` | `FVSE`: `Spec => []TypeOK` |
| `StoredCountsHaveNoGap` | `FVSE`: `Spec => []NoGap` |
| `CoveredEntriesAreFinal` | `FVSE`: `Spec => SavedIsFinal` |
| `EveryUpdateIsStored` | `FVSE`: `Spec => []NothingLost` |
| `ChecksumsMatch` | `FVSE`: `Spec => []ProofMatches` |

### FFVSE

*Types.* `TypeOK` is not inductive. Whether the client dereferences an empty proof, or a
ReProof exceeds the epochs, depends on what was checked before, so `TypeInv` adds `Guarded`: a
search has an epoch left; a handler that runs belongs to the client's search, which has read
nothing yet; and the client is past the count of the proofs only if it holds all of them.

*Safety.* None of the three properties is inductive either: whether the next lookup hits
depends on what the entry just read links to, and whether an answer is right on the whole
chain. `IInv` says that for every keyword there exist the messages `M[1], M[2], ...` of
its epoch and the sets `L[0], L[1], ...` of documents they lead to (`Explains`: entry `i` takes
`L[i - 1]` to `L[i]`, entry 1 of a later epoch is a snapshot of `L[1]`, and the last set is what is
attached), and that everything that exists of the keyword agrees with them:

- the entries stored are a prefix of `M`, at their labels and nothing else (`StoreHolds`), unless the
  server has deleted them and the client has not yet replaced them (`Deleted`), and the entries on
  their way are the rest of `M` (`NetHolds`);
- at entry `i` of the walk the documents attached are `R \cup (L[i] \ Del)` (`WalkHolds`): the server
  reads the chain from its newest end, and this is what its two sets stand for;
- the reply is exactly what is attached, and after `vi` proofs `R_prime` is `L[vi]` (`ReplyHolds`):
  the client reads the same chain from its oldest end.

`M` and `L` are not variables, they are chosen anew in each state; most actions keep them, an update
adds an entry to both, and a compaction replaces them by the snapshot. That server and client
decide on a compaction separately, and agree, is the lemmas `Answered` (the server's answer) and
`Agreed` (the client's): both compare the same counter with the size of the same set. A label of an
earlier epoch that is used again does no harm because `DOMAIN es[w]` is exactly the chain of the current
epoch, and the "p" entries, which are never deleted, are only read at labels written in it. `Phase`
holds what is known of the commands themselves (where the counters differ from those saved, that at
most one call is under way).

`IInv` was checked with TLC on the instance of run `ffvse` (all its states, with the witnesses
computed from the entries) before it was proved.

*Losses.* `LostInit` is every state in which each keyword has any epoch, any chain of updates, any
subset of their entries at the server, and any leftovers of earlier epochs. `M` and `L` are again the messages and the sets of documents they led
to, but `LostInv` claims less of them: under the label of an entry that was sent is that entry, a cell that
was made in an earlier epoch, or nothing (`StoreKeeps`), and
the last set of `L` is a subset of what is attached, for after a chain with gaps is compacted the snapshot may lack documents. The
walk (`WalkKeeps`) is on the chain, and then all that `R` and the rest of the chain can give is attached (`OnChain`); or
it has left it (`OffChain`). It leaves it at a gap, and then stands at no label and adds nothing more: the `e` that the handler keeps from the
turn before was made for another label (`LeftOver`), so a lookup that misses never takes it for the entry it looked for. Or it leaves
it through a leftover under the same label. `LabelOrder` is what makes this harmless: an earlier epoch's shift is no longer than
this one's, so an entry of the earlier epoch with the label of entry `i` of this one is further up in its own, and what it links to is above what
entry `i` links to. The walk thus stays above the labels of the chain turn by turn, is still at a link when the
counter says that the oldest entry is reached, and the answer is junk, which is not accepted. (In the first epoch nothing is
older; a walk that has met a gap there keeps what it has, all of it attached.) Neither the proofs
nor what the client computes from them is needed: the client accepts only what the server sent, and that is never too much.

### Rose²

*The numbering.* `Pow2` is a recursive function, so that it exists, and that it doubles, has to be proved: by induction on
the natural numbers, in the form "a set of numbers with 0 and its successors is all of them" (`Induction`, from the library's theorem
that proper inclusion of finite sets is well-founded). From `Offset(j) = 2N - 2^(Depth + 1 - j)` follow the range of a node (`RangeOf`), its
children (`Kids`), the ancestors of a leaf (`Path`, `OnPath`) and that ranges are nested or apart (`Laminar`), and from
these the three theorems about the numbers.

*Descent* (`DInv`). What a deletion writes is computed from the ancestors it has read, while other sessions' leftovers are in
`OD_tree`: the invariant says of each record read or still to be written that its children are below it and its counters below the
number of deletions, and `RelinkIs`, `BumpIs`, `WrittenIs` that the three parts of `Ins` keep this.

*Exact searches* (`EInv`). Without deletions a search starts at `sn`, finds no entry of a node, and follows the leaves. The
invariant names the key `ks[i]` each leaf is under: leaf `i` links to leaf `i - 1` under `ks[i - 1]`, and this holds from
the entry in memory and from the one saved, which a killed process leaves behind its own leaves. Labels tell the
two apart, since leaves of a killed process are under a key that is used again, at numbers above the saved count.

*No live document lost* (`LInv`). A tree of links `F` with the leaves `gone` is a `Tree` if each node that is not removed is
`Sound`: every leaf under it is gone or under one of its children, a child is not removed, and everything between
the node and its child is (`Hung`). The last part is why a relinking is right: the grandparent of
the leaf that is removed really links to the node taken out. A deletion in progress is a tree too, with what is still on its way laid over what has
arrived (`Overlay`), since its nodes travel from the root down on a stream of their own. `Whole` says the weaker thing
of entries: an entry of a node, under whatever key and however old, leads to all that is left under it, and remains right while
more is removed. The search carries `Answering`: every update that is left has been returned, is under a node in the queue, or
lies ahead on the walk under way. All of it is claimed only of histories that are `Sane`; the rest of the
invariant holds of every history.

*The first two deletions take effect* (`FInv`). That what is left is found is `LInv`; that what was deleted is not found depends on the
counters, for a search reads a child under the counter its parent keeps for it, and where no entry has that label the server walks all leaves
of the child, deleted ones too. `Precise` says what the counters are worth. After one deletion each is the child's own, and at most one child
of a node has been written, whose sibling is an inner node above the first level (`Thin`). After two they are right wherever the child has
been written (`Match`). Later they need not be: `Relink` puts the sibling's counter into `lNum` whichever side the sibling is
on, which overwrites the counter of the left child. After one deletion that child has not been written, for `Thin` would make
the child on the right too high to be the parent of the deleted leaf. That
no child of a node is a deleted leaf, and that every node over a deleted leaf has been written, is kept by all deletions. With `Top` (each
deletion counts every node over all updates, and so the node a search starts from has the token's counter), `NodesOf` and `Entered` (a node has an entry under
its present counter, and that entry is the node) this makes `Sums`, kept by the deletion that is worked out, for the tree as it will be when what
is on its way has arrived, and by each entry and node that arrives. During a search `Exacting` follows: a node in the queue
carries its present counter, so the leaves under it are walked only if nothing under it was deleted, and every result is a node, the empty
string or a document that is left. All of this is
claimed while nothing is added after a deletion, no document is deleted twice and no process is killed (`Full`); that these three
and the number of deletions fit together is `Books`, which holds of every history.

### Oblivious map

`NothingDropped` is about a bucket that is overwritten: what it held must be in the cache or elsewhere. The
invariant (`Kept`): the buckets read in this operation have all their blocks in the cache or in a bucket already written
back, and every path to be written back was read before. Before the write-back this is `Good`, which every
operator on the ORAM keeps (`Grown`: the cache only gains blocks); the proof follows the operators
from `FetchPath` over the rotations to the four cases of `Rebalance`.

*It is a map.* `OMAPIsAMap` shows every step of `OMAP` to be a step of `PlainMap` or none: a find answers where it finds its
key or the end of the tree (`FindHit`, `FindMiss`), an insert takes effect where the block is made or changed (`InsertNew`,
`InsertSame`), and nothing else changes what the map holds, although it moves blocks, links and the root. The invariant `MInv` has four parts.

- *Copies.* A block may be in the cache and in a bucket that was read before. `Apart`: of the copies in the cache, in buckets not read yet and in
  buckets already written back only one is of a given key, so there is one newest copy (`NewestIs`); `Keeps(m, n, C)` says of the operators
  that values stay as they are, and links except those of `C`; `Listed` that what is read will be written back.
- *The tree.* That links lead to a key is a statement about a path of any length, for which a definition by recursion would need an
  induction over data. Instead there is a function `span` that says which keys belong at or below each node; `IsTree` says that the root has all keys in its
  span, that the child of a node on a side has exactly what the node has on that side, and that two spans are
  nested or apart. An empty link then means that no such key is stored, in one step. Rotations (`Hung`, `Swung`, `Turned`) change the spans of two nodes.
- *The way of an insert.* `Chain` says that the nodes remembered in `path` are each a child of the next, on the side of the key,
  up to the root. On the way back the nodes below are already relinked and the one above still links to the old child; `Shows` says that the tree
  is the links of the newest copies except for that one, and the cases of `Rebalance` that this
  moves up by one level (`Risen`), also when the node that turns is the root.
- *Write-back.* New positions (`Refresh`) and the write-back change no link, and a block that stays in the cache is as good as one in a
  bucket.

The theorem needs no balance and no bound on the height. An operation that meets a node it cannot read stops in the
model without an answer (`pc` is "lost" or "broken"); the theorem says that whatever is answered is right. That nothing is lost does
not hold of every geometry (`omap_tall`), and is the next part.

*Nothing is lost.* `NeverLost`, `Placed` and `Balanced` are proved together, for each needs the others: a node is found because its parent knows
its leaf; the parent knows it because the loop of `finilize` goes over the heights, so a child has moved before its parent looks; the heights are right, and
within the bound of that loop, because the tree is balanced; and the balance is restored by rotations that need all nodes around
them to be found. The three theorems have one hypothesis, `HeightFits(geo)`: a balanced tree of no more nodes than there are keys is
no higher than `maxHeightOfAVLTree` (or the tree of buckets is a single one, which is every block's place). It is a condition on the keys that are ever inserted and on
`maxSize`, and what the code takes for granted at `ORAM.cpp:308`; with `OMAP_SIZE` = 1000000 it
holds of up to 28655 keys. Without it a node can be lost, which is what `omap_tall` shows. The
invariant `NInv`, on top of `MInv`, says of the newest copies `f` of the nodes:

- *Each can be found* (`Sound`): it is in the cache, or in a bucket on the path to its leaf that was not read yet or is written back already
  (`FoundIn`). Every operator on the ORAM keeps this (`Holds`, from `ReadNodeHolds` to `RotateHolds`); when a bucket is written back, the blocks chosen for it are those whose path it
  is on (`WriteIsSettled`).
- *Its parent knows where* (`Tells`, `Rooted`). What `finilize` moves are the nodes modified in the operation, so the parent of each of these must be in the
  cache by then (`Told`), or it would not be corrected. A search reads a node after its parent (`Followed`), and a rotation modifies
  nodes whose parents it changes too.
- *It is balanced* (`EvenAt`: its height is one more than the greater of its children's, which differ by one at most), except on the way up of an insert. There
  the invariant is `Climbs`: the nodes remembered in `path` were balanced when the subtree below them had its old height `h` (`Climbing`); that
  subtree now has height `h` or `h + 1`; and if it is `h + 1`, it leans towards the new key (`Leaning`), which is why
  the side that `Rebalance` picks by comparing keys is the side that is too high, and why the grandchild that a double rotation needs
  exists and is in the cache. `BalancedClimbs`, `SingleClimbs` and `DoubleClimbs` are one return of the recursion without rotation, with one
  and with two.
- *The loop reaches it.* `HeightNeeds`: a balanced tree of height `h` has at least `MinKeys[h]` nodes, where `MinKeys` is the recursive
  function `0, 1, 2, 4, 7, 12, ...`. That this function satisfies its equation is itself proved (`MinKeysDef`), and the count goes by induction on
  the height, in the form "a set of numbers with 0 and its successors is all of them" (`Counting`); the two subtrees of a node have no node in common because their spans
  do not (`UnderKids`).

`Placed` follows between operations: with no bucket read, `FoundIn` and `Apart` leave one copy; `OneParent` leaves at most one parent, and `HasParent` gives one, going
down towards the node from the root, by induction on the height. `Placed` and `Balanced` speak of the newest copy of each stored key, and `Placed` of how many copies there are.

### ROSE

*Types and tokens.* Neither property is inductive, because a walk knows of a node it has not reached only what the node
before promised. `KeyIs(n, k)` says that node `n`, wherever it is (stored, in the stream, in a search's
request), is under key `k`; `IInv` says that every link leads to a node under the key the linking node
implies (`Older`: its own, for a search node the one it steps from new to old), that this holds of the client's `LastNode` and of what is saved,
and that a walk's tokens are under the key of the node it is about to read. A killed client
falls back to a saved node, so two nodes may link to one; that is no harm, since nothing is
said of who links to a node. A relinking (`DropKeeps`) keeps `Older` of the last node kept: for a node under
the same key trivially, for two merged search nodes because `Mul` composes their steps.

*Astray* (`FInv`, on top of `AInv` below). Where a link of the client's line of nodes leads must be stored, on its way ahead of
the node that links to it, or `Excused` (`Links`); the same of the last node of the session (`Newest`) and of the saved one
(`FoundSaved`). Excused is a node that was lost or swept, or was dropped by a search that is not on the line. That a drop on the way needs no
excuse is `DropFInv`: by `Jumps` no node of the line but the last one kept linked to what is dropped, and that one is linked past it in
the same step. When a client is killed its line becomes the saved one: what searches of the lost session dropped is excused from then on, for
these searches have numbers above every saved node. A cut node is the one case in which
`GoAstray` finds the node stored.

*Exact answers.* The nodes the client remembers are a line (`Lined`), though an earlier process may have made others. A link jumps only
over nodes that are no longer stored, and over an addition only if it is cancelled (`Jumps`). It may also jump over a deletion
whose addition is still stored, which would make the answer wrong, in two cases only: the addition lies in what the walk under way has ahead (`Inside`),
and the walk carries the token (`Carrying`); or the walk that removed the deletion went astray before it reached the addition. The second
is `Doomed`: the node it went astray at (`Lost`) is between the two, no link from above leads past it, and so
no later walk reaches the addition either. An answer is then exact: `Returning` names the nodes whose
documents have been returned, in their order, and nothing of the line is ahead when a walk ends.

### FVSE

*No gap.* As long as no call or stream of a living client failed, a label is `Covered` when it is stored, on its way in a stream, or about to be sent by a thread that has
set the count; the invariant is that every label up to every count in memory, and up to every count
a thread has read, is covered. Setting back a count to an old one only makes the claim weaker,
which is why the race does no harm here. A command closes when all streams are stored, so what it
saves is stored and not only covered. *Final.* As long as there was no fault, all counts in memory, all counts that
were read and all labels on their way lie above the stored counts (`Calm`), so no store reaches below.

*Nothing lost, checksums match.* With one thread and no fault the labels stored and on their way are all different and below the counts, and
there are as many as updates were made (`Apart`, `Number`); a checksum is that of the identifiers at these labels at every step of an update (`Summed`).
Since a checksum is put before its entry is sent, "at these labels" includes the streams, and what is saved at the end is compared when they are empty (`Storing`).

### What is only model-checked

- Liveness: `SearchEnds` and `CompactionCompletes` of FFVSE.
- FFVSE with one fault at any moment (`AcceptedIsAttached` and `AcceptedIsClaimed` in run `ffvse_faults`). After a kill the labels above the saved
  count hold entries the counters do not know of, and which of them are used again, by whose handler and when, depends on the fault. That the
  first fails with two faults shows that no invariant of one keyword's chain carries over from one to the next.
- That the instances of `omap` satisfy `HeightFits`. How many keys that is for a given `maxSize` is a matter of two recursive functions, and is
  evaluated and not proved.
- The disagreements the four violated properties show, which are false.

## 5. What is not modelled

- Encryption, key derivation and elliptic curves: symbolic, as described above. What an
  attacker learns is not a subject of this development.
- Formats: hex and decimal conversion, padding and concatenation, except the
  concatenation of the two counters in a label of FFVSE and the truncation of binary data
  in C strings in ROSE. `delta_k` in Rose² (its only reader is commented out).
- Several generator threads over one client in FFVSE and Rose², where every documented command passes
  one. The code has no lock; the same race is modelled in FVSE. What unsynchronised inserts do to the
  inside of a `std::map` is not modelled anywhere.
- In FVSE: `parse`, which keeps 7 of the 8 bytes of an identifier, and the double hex conversion; `verify` compares
  the checksum with nothing, so no property is about an answer it accepts; a search that a failing call cuts short.
- In the oblivious map: `batchInsert`, `batchSearch`, `setupInsert` and `printTree`, which no handler
  calls, the encryption of buckets, and two handlers at work on one map at a time.
- Several keywords in Rose² and ROSE: their maps are keyed by the keyword first.
- The server of Rose² crashing in the middle of a handler, or restarting (its oblivious maps are in memory only);
  in ROSE what a walk over garbage
  does to the index, nodes of a broken or killed stream that the server stores late, and a server that dies in the middle of a walk. The last one would
  matter: a walk removes a deletion before it comes to the addition, and with a step that ends the server between the two
  TLC finds `AnswersLive` violated, the deleted document is returned by the next search.
- More additions to a keyword of Rose² than the tree has leaves (`N` = 16384), where
  `getSn_Rose_2` leaves the tree.

Of the lines of source most are not the schemes: about 22000 are generated by `protoc`
(`DistSSE.pb.*`, `DistSSE.grpc.pb.*`), others are loggers, thread pools, benchmarks, and older
versions of the schemes that are commented out or no longer called. The map covers the code that
remains.

Liveness and `ENABLED` are outside the proof system and stay with TLC, and so are theorems that take an operator as a parameter, the usual form of
induction over sequences and trees. Induction over the natural numbers is possible as a statement about sets of
them, which is how the powers of two and the sizes of balanced trees are dealt with; invariants about paths through a tree are stated without recursion (the spans above).

## 6. Plan

1. *Done*: FFVSE with its abstract specification, faults and losses; Rose² with its tree; ROSE; the first
   theorems.
2. *Done*: the oblivious map, and that it implements the plain map `Rose2` uses; FVSE with threads, kills and late
   streams; the numbering of Rose² on a deeper tree.
3. *Done*: every invariant and action property of Rose², ROSE, FVSE and FFVSE without faults as a theorem (section 4);
   `NothingDropped`, and that `OMAP` implements `PlainMap`.
4. *Done*: `NeverLost`, `Placed` and `Balanced` of the oblivious map, for instances whose height bound no AVL tree exceeds.
5. *Done*: `AcceptedIsLive` for any lost subset of the chain over any leftovers (`FFVSELost`); `FewDeletesHold` of Rose²; handlers of their
   own for the streams of FFVSE, broken streams and failing calls in ROSE and FVSE.
6. *Left*: the two properties of FFVSE with one fault at any moment (`FFVSEFaults`), which need an invariant about the labels a killed
   client left behind; in ROSE the death of the server in the middle of a walk, and late nodes.
