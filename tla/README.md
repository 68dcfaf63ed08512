# Verification of redis_study

The repository is a study of Redis: its data structures rewritten as C++ classes (`cpp_src`),
exported to Python as the module `pydis`, and an epoll server in Python (`py_src`). This directory
holds TLA+ modules of that code, TLC configurations that check them, and TLAPS proofs about the
dictionary and its scans, hashes, lists, sets, sorted sets, the keyspace, eviction, the strings and
the event loop.
`PROJECT.json` lists components, runs, mutants, findings, hazards and theorems, and maps each
definition to the lines it models.

## The system

| Part | State | Operations | What is hard | Here |
|---|---|---|---|---|
| `dict` (dict.h, dict.cpp) | two hash tables, `rehashidx`, `iterators`, static `dict_can_resize` | add, replace, delete, find, random key, expand, resize, rehash, empty, safe iterators | every call may move one more bucket; pairs are in two tables for many calls; counters decide when to grow, stop, clear | `DictTables`, `Dict`, `KeyValueMap`, `DictTablesProofs`, `DictProofs` |
| `dictScan` | a cursor held by the caller | one call per step | tables are replaced between the steps | `DictScan`, `DictProofs` |
| `HashObject`, `dictIterator` | a dict; two unsafe iterators, kept between commands | hset, hget, hdel, hkeys, hvals | the dictionary changes under an iterator, and a mere lookup moves buckets | `HashObject`, `HashObjectProofs` |
| keyspace `db` (db.cpp, object.cpp) | dictionaries `val` and `expires`, reference counts | get, set, delete, expire, exists, type | lazy expiry deletes what was just looked up; one key object in two dictionaries; shared values | `Db`, `DbProofs` |
| `pydis` commands | `temp_str1`.. and their references | one function per command | early returns that skip a release | `Db`, `Containers`, `HashObject` |
| LRU eviction (db.cpp) | pool of candidates, memory in use, a clock of seconds that wraps | sample, evict | off by default; loops until enough is free; deletes through the key it frees | `Eviction`, `EvictionProofs` |
| skiplist, `ZsetObject` | nodes with several levels and spans; a dictionary of rendered scores | zadd, zrem, ranks, ranges | spans of levels that come and go; two structures in step | `Skiplist`, `ZsetObject`, `Containers`, `ContainersProofs` |
| intset, `SetObject` | a sorted array in one of three widths, or a dictionary | sadd, srem, spop | two upgrades, the first width unsigned | `Intset`, `SetObject`, `Containers`, `ContainersProofs` |
| `ListObject`, adlist | a list | pushes, pops, lset, lrem, lindex, lrange | negative positions and counts, erasing while iterating | `ListObject`, `Containers`, `ContainersProofs` |
| sds, `StringObject`, base | text, `len`, `free`, the room allocated | every call of sds.h; numbers as texts | what `len` and `free` claim against what was allocated; the terminator | `SdsTools`, `Sds`, `SdsProofs` |
| event loop (event_driven.py) | `events`, `readys`, epoll's interest | poll, dispatch, accept, read, reply, delete | peers act between poll and handler; three records of one interest | `EventLoop`, `EventLoopProofs` |
| client (Client.py) | `query`, parser, `reply` | `processInputBuff` | requests split or batched | `EventLoop`, `EventLoopProofs` |
| config, log, build, tests | | | no behaviour of their own | not modelled |

How they interact. A command of `pydis` creates a `StringObject` for its key, calls `db`, works on the
object it gets, and releases the key. `db` keeps values in one `dict` and deadlines in another, both
keyed by the same key object. Containers hold a `dict`, an `intset`, a skiplist or a list. The event
loop hands requests to the client's parser and sends back replies. In the present code it answers
`str(req)` and calls no command, so commands and connections are separate systems here too.
Everything is single-threaded: commands run to completion; only peers run beside the loop.

## Modules

What is above uses what is below by its promise: `Db` takes a dictionary for the function `Dict` is
proved to implement, `HashObject` is proved to implement `Dict`, `Containers` and `Eviction` describe
one value, and the memory, of a key that `Db` stores.

**KeyValueMap** is the promise of `dict.h`: a partial function, one action per call, the value each
call returns. It knows no tables.

**DictTables** has the two tables and what the functions of `dict.cpp` do to them, as operators on a
dict object, the record `[ht, rehashidx, iterators]`; it has constants and no state, and `Dict` and
`HashObject` both build on it. A chain is a set, since none of these operations depends on its order.
`hash() & sizemask` is a remainder, sizes being powers of two. `dictRehash(n)` is written without its
loops: `Batch` is the set of buckets its rounds move, `NextIndex` where `rehashidx` stops.

**Dict** is the object in use: a handler is the composition of the functions it calls (`AddRaw` is
`_dictRehashStep`, then `_dictExpandIfNeeded`, then the search, then `Insert`), so an action is a whole
call, its rehash step included. Two obligations of callers are guards: `dictReplace` finds
a value to release, and `dictEmpty` is not called while a safe iterator lives. `dictFetchValue` is
`dictFind` with a read; `dictRehashMillliseconds` a sequence of `dictRehash(100)`.

**DictScan** extends Dict with a caller that scans. The reversed-bit cursor is arithmetic: set the
highest clear bit, clear the bits above it; `CursorBits` bounds its width, and table sizes are powers
of two. `unseen` and `strayed` are history variables. A scan strays when it meets a rehash by more than
a doubling or a halving with a cursor that has bits beyond the smaller of the two tables (`Straying`),
which it can only have from a time when the table was larger.

**HashObject** has chains that are sequences, because what an iterator returns depends on their
order; sizes and indices are those of DictTables. A rehash moves a chain one entry at a time, each
to the front of its new one (`Relinked`). `SetOfChains` forgets the order, and under it `HashObject`
implements `Dict!Spec`. An iterator points to an entry by its key, or to one that has been deleted.
`failed` says that the process has ended in the destructor's assertion or has used a deleted entry.
Hashes only grow in the program, and so do they here. `steady` and `seen` are history.

**Db** models `db.cpp` and the commands. A dictionary is a function on names; keys and values are
numbered objects with a reference count, a count of 0 being a freed object. An action is a command,
from the creation of its key object to its release. The containers' contents are left out: a container
is its type, and a set also whether srem or spop have emptied it (`emptied`), because that decides what
`get` and `getset` do. Both delete the text a container's `get_value` makes of it (pydis.cpp:38, 122),
and that of an emptied set is the text of `shared.none` itself (SetObject.cpp:22); `none` says whether
it is still there, and a command that answers with it when it is freed (`Answers`) reads freed memory.
`undefined` becomes true when a command uses freed memory (the reply then is either
outcome), and nothing is claimed, or done, after that. Absolute milliseconds are a small clock that
only moves forward. Eviction is off.

**Containers** is one key and what it holds, under the commands that change a list, a set or a sorted
set; it extends **ListObject**, **ZsetObject** (which extends **Skiplist**) and **SetObject** (which
extends **Intset**). Those five are the functions of the classes as operators. A skiplist is its nodes
by address; one descent (`Descent`) serves insertion, deletion and rank, as the loop over `update[]`
does in each: on every level a walk, a recursive function from where one stands (the node, and the
spans crossed so far), the levels from the highest down. The text of a score is `ReadBack`: six digits
do not always give the score back. An intset has the widths of its encodings as a constant (`Reach`,
half the numbers of each), and stores in the first one unsigned numbers; its binary search goes from
one part of the array to the half it chooses. `lrem` is its loop, one round per element it meets,
with the list, the iterator's position and the number of removals. No operator of these modules is
`RECURSIVE`, so that they can be proved about.
The commands that only read (ranks, ranges, lindex, lrange, zcount) are operators that the invariants
evaluate in every state for every argument. Of `lrange` and `zrangebyscore` the elements are modelled,
not the wire format they are joined to.

**SdsTools** has the functions that build no string: numbers to texts and back (`sdsll2str`,
`string2ll`, with the overflow tests of the code), comparing (`match`), splitting, joining; `sdsjoin` takes C strings, so each token and the separator end at their first
null byte (`CString`). **Sds** is
one string under every call of sds.h that changes one, with the bytes, the byte that follows them, what
`free` says, and the room the allocator gave. A number has digits of a small base and a small `long
long`, so that each border of the arithmetic is met by short texts.

**Eviction** takes `lru_eliminated` apart into its steps (sample, drain, delete), with the flag on.
A key and its value measure one unit; the rest of the memory (`other`) may grow and shrink between
commands. The loop over a sample is a recursive function (`Filled`), one insertion at each argument.
The clocks are those of the code: milliseconds in a stamp that a lookup refreshed, seconds in one
made at creation, an idle time that takes both for seconds and wraps.

**EventLoop** models `event_driven.py` and `Client.py`. One action is a poll, or one iteration of
the loop in `process_event`, in any order of the reports; `Connect`, `Send`, `HangUp` and `Reset` of
the peers interleave with both. Handlers are functions on a record of what they change, in the order
of the code (`event_del` before `processInputBuff` at the end of a stream). A request is two pieces,
so that it can be split between reads; `empty` is one whose parsed form is false in Python, at which
the parser loop stops. Accepting needs a free descriptor: there are at least as many as connections,
so the limit on open files is not reached. `running` becomes false when an exception leaves the
loop. External: the kernel's flags (`Flags`), the descriptor table, hiredis. Not modelled: a full
send buffer, on which `sendall` raises.

## Runs

| Run | Instance | Shows |
|---|---|---|
| `dict` | 2 keys, 2 values, tables of 1, 2, 4, batches 1 and 3, one safe iterator; 11,756 states | tables consistent, loops end, iterators pause rehashing, the map is implemented, each call does and returns what dict.h says |
| `dict_scan` | 2 keys, tables of 1, 2, 4, 8, requests for 1, 2 and 8; 58,166 states | a scan ends and misses nothing unless it strays |
| `hash` | 3 keys in 2 chains, tables of 1 to 8 at 2 addresses, one walk; 12,240 states | chains implement `Dict`; a walk nothing disturbs returns every key in table order; walks end |
| `hash_walk` | as `hash` | **violated**: hdel between two hkeys fails the destructor's assertion |
| `db` | 2 names, a shared integer and a string, 2 container types, clock 0..1, one lost reference; 201,804 states | counts, deadlines, isolation of keys, leaks only on known paths, nothing goes early |
| `db_set` | as `db`, 3 texts | **violated**: `set` on an expired key |
| `containers` | lists of 4; widths of 3, 4, 5 bits and intsets of 3; 3 members, 3 levels, 3 addresses; 35,115 states | lists are cut where they are told; sets take in what they are told across their upgrades, negative numbers in the first width apart; levels, spans, ranks and the dictionary of a sorted set agree but for rounding |
| `sds` | texts of up to 4 bytes, base 2, a 3-bit `long long`, preallocation 2; 19,400 states | `len`, `free` and the terminator but for the calls named; numbers, ranges, splits and comparisons; trims and joins of texts without a null byte |
| `eviction` | 3 keys, a pool of 2, room for 2, a clock that wraps every 2 seconds of 2 ms; 387,311 states | in which order keys that were never looked up go, that enough goes, when a freed key is used, that it ends |
| `event_loop` | 2 connections, 2 descriptors, 4 pieces each, empty requests and resets, symmetric; 876,017 states | requests conserved, interest kept, the loop stops for two reasons only |
| `event_loop_live` | 4 pieces, neither empty requests nor resets; 21,410 states | every request answered, every hang-up between requests noticed |
| `event_loop_flags` | 2 pieces | **violated**: combined flags have no handler |

Why the bounds are enough.

- Dictionaries: the initial size is a parameter. With 1 instead of 4, two keys make a table overflow,
  grow twice, and shrink; they share a bucket in tables of 1 and 2 and part in one of 4; a rehash
  needs several steps, and starts again before earlier entries have settled. A batch of 3 crosses
  empty buckets and finishes in one call, one of 1 never does. In `dict_scan` the keys part in every
  table of more than one bucket, and tables of 1, 2 and 8 can be asked for, so that a scan meets
  rehashes in both directions by one, two and three doublings, with cursors from larger and from
  smaller tables. In `hash` a third key makes a chain of
  two next to another bucket, and two addresses let a new table lie where an old one was.
- Keyspace: two names are what a command can take; the four key objects are one per name, the
  command's own and a lost one; time has a before and an after of each deadline; one of
  the two container types is the set, which srem and spop can empty. A command that found
  no object to allocate would be an error of the run, so the bounds on objects do not bind; the names
  are symmetric.
- Containers: three members give a level of a skiplist that vanishes and returns, and a node in front,
  between and behind; of the numbers 7 needs the second width, 9 the third, and 100
  is a text; 0, 1 and 2 with -1 are more than an intset holds, and turn into a dictionary; counts and positions reach beyond both ends. Score 11 is read back as 10,
  which is also a score.
- Strings: `len + free` of one, several and no spare bytes, each side of the preallocation's border;
  -4 and 3 are the ends of the `long long`, and texts one digit longer overflow it.
- Eviction: more keys than the pool, than the memory, and fewer; two wraps of the clock; stamps that
  lose their high bits.
- Connections: two give batches in which one is closed while the other is accepted; four pieces give
  two requests in one read.

Deadlock is checked for the dictionary. It is not for Db and Eviction, which stop once `undefined`; for
HashObject and Containers, which stop when the process has failed; for Sds, which stops at a string
that is overrun; nor for the event loop, which waits in `poll` when no peer acts.

Fairness. `WF(dictScan)`: a scanning caller goes on until the cursor is 0, as dict.h asks.
`WF(_HashIter)`: a client that has begun a walk asks for the next element. `WF(Running)` in Eviction:
a command that has begun runs. `WF(Loop)`: `while True: el.process_event()`. Peers are not fair, and
need not send, end or reset anything. `event_loop_live` has no resets and no empty requests, since the
first stop the loop (or make it spin, `event_loop_flags`) and the second hold up later requests until
more input comes.

Each property of a passing run has a mutant: a definition with a plausible bug (the operator with a
suffix, just above it) that makes TLC find the property violated under the same configuration.

## Proofs

Each theorem assumes what its module names in an `ASSUME`, and TLC evaluates those on every instance.
Every theorem about a `Spec` follows the same line: an inductive invariant, one lemma for each
function of the code, one for each action.

**DictTablesProofs** has a lemma for each function on the tables, and **DictProofs** the theorems, for
every `Dict`: any finite set of keys, any hash function, any table sizes that cover the requests, any
batches, any number of iterators.

The invariants the run checks are not inductive one by one. `used = 0` ends a rehash, so dropping
`ht[0]` is safe only if the counters are exact; they stay exact only if a moved entry is not already
in the other table; that needs unique keys; and uniqueness after an add needs the search to be
complete, which needs entries in their buckets and none below `rehashidx` or in an idle `ht[1]`. The
inductive invariant `IInv` is their conjunction, stated of a dict object rather than of the state
(`Consistent(d)`), so that each function of the code gets one lemma - it takes a consistent object to
a consistent one and changes its entries thus - and an action's proof is the composition of the lemmas
of the functions it calls, as the action is. `IteratorsArePaused` needs another such chain of lemmas:
what each function leaves in `ht[0]` while an iterator lives.

**DbProofs** proves for every `Db` - any finite set of names, any texts, any number of shared values
and of objects, any deadlines, any number of lost references - as long as no command lacks an object
to allocate (`ObjectsLeft`), the objects being a bound of the model. Half way through a command the
counts are off by what the command itself holds or has still to take, so the inductive invariant has a
parameter: `Sound(s, h)` says that every count is the number of pointers in both dictionaries and the
shared table plus `h` of the object. Taking a reference raises `h`, storing it in a dictionary lowers
it, and deleting an entry raises it again; between two commands `h` is what has been lost so far
(`Lost`), which is never negative. `rename` is the one that needs an `h` below that: it stores a value
before it takes the reference. The counting itself rests on the library's theorems about cardinalities.

The second half of DbProofs builds the three action properties on that invariant.
`LeaksOnlyWhereKnown` is what the exact `h` gives: every function of db.cpp is proved to end with
the `h` it began with, so the only commands that change `Lost`, of any object, are those that keep a
reference they took. The other two say what a command leaves alone. Of the contents it is enough to
know, function by function, that a command frees them or writes into objects that were free
(`Mild(s, t)`); an entry that stays still points to its object, which by the invariant before and
after cannot be free, so its content is the old one (`PointedStays`). The text of `shared.none` has no count
of its own that a command changes, and no theorem says that it is not freed.

The last part of DictProofs is about **DictScan**: the promise of dict.h:197-198, with its one
exception, for any keys, hash function and number of bits: `Ahead(h, v)` is the order of reversed
bits, written without reversing (at the lowest bit in which they differ, `v` has a 0 and `h` a 1),
and the invariant is that every key that is there since the scan began and was not handed over is
ahead of the cursor. The order does not depend on the table, so adding, deleting, resizing and
rehashing do not disturb the invariant; a call passes the keys of one residue modulo the (smaller)
table, and the cursor moves to the next in the order (`NextAhead`); the loop over the larger table
begins at the cursor, and skips nothing that is ahead unless the scan strays (`NoneSkipped`). The
proof needs that the sizes are powers of two (`CursorAssumption`), an invariant of its own
(`Sized`), and `IInv` of the dictionary, whence an entry is in the bucket its hash selects.
Attempting it showed that an earlier form of the property, which excepted shrinking rehashes only,
was false: TLC found the counterexample once two hashes differed in the lowest bit, and `Straying`
is what the proof left.

**HashObjectProofs** proves for every `HashObject` that it implements `Dict`, its type, that the
entry an unsafe iterator is to return next is in the hash unless it was deleted, and that a walk over
an unchanged hash returns all of it. `Good(d)` says that
no chain holds a key twice, and that the object with its chains as sets, `Abs(d)`, is `Consistent`
in the sense of Dict; each function gets a lemma that it keeps `Good` and that, seen through `Abs`,
it is the function of DictTables (`StepIs`, `ExpandedIs`, `UnlinkedIs`, `AssignedIs`, `InsertedIs`),
so that the refinement follows from Dict's own lemmas. What needs work is where the two are written
differently. Moving a chain, a recursive function here, is one set operation (`Fill`) there:
`Linking(f, n, h, chain)` follows the recursion, and that it reaches the end of any chain is shown
with the least counterexample (`LinkingExists`). The rounds of `dictRehash(1)` are a `Batch` of one,
the first bucket that is not empty. And the search of a table takes the first entry of a chain with
its key, which is the only one because of `Good`. For the iterators the invariant adds that
`nextentry` is nullptr, a key of the hash, or freed - a fact about the whole chain, and one that a
rehash step under the iterator must keep.

Its last part is about the walks. `SteadyWalksReturnAll` compares the keys a walk has returned with
`InOrder`, all chains of both tables joined, and is not inductive: that the next step returns the next
key depends on where the iterator is. `WInv` adds it. The iterator of a walk under an unchanged layout
is `OnWay`: in bucket `i` of table `t`, which is in use, having returned all keys of the buckets before
(`Passed`) and the first `p` of this one, with entry `p + 1` next, or nullptr after the last; and its
fingerprint is that of the dictionary. Since the fingerprint holds the addresses of the tables, `WInv`
also has them, with the type of the whole iterator. Within a call, a new iterator and one that has done
its bucket are `Behind` a bucket: the search for the next that is not empty skips buckets that add
nothing to `Passed` (`NonEmptyIs`), through both tables, to an entry or to the end. A command that
leaves the layout as it is leaves `Passed`, `KeysAt` and the fingerprint (`LayoutIs`), and one that
changes it makes every walk unsteady. Joining the chains of a table is a fold: that it is a sequence
of keys, what one more bucket adds, and that what has been passed is the beginning of the whole, are
again shown with the least bucket at which they fail. The proof assumes of pointers
(`PointerAssumption`) that none to an entry, alive or deleted, or to an iterator is nullptr.

**EventLoopProofs** proves for every `EventLoop`: any finite sets of connections and descriptors, any
number of pieces. A connection that has a descriptor is in one of three situations: read from with
nothing to send (`Reading`), written to (`Writing`), or neither closed nor watched (`Forgotten`); all
others are `Away`. With that go the link between `events` and connections (`Linked`), where the pieces
of a stream are (`Stream`), the books of requests (`Balanced`), and that no pending report is about a
closed descriptor (`Reported`) - which is what an order of events nobody tested could break. Handlers
are functions on a record, so each has one lemma; `Elsewhere` says of all of them that they leave other
connections and descriptors alone. `RequestsConserved` is not inductive without `Stream`: how many
requests a read completes depends on the parity of what was read before.

**EvictionProofs** proves for every `Eviction`: any keys, pool size, memory limit, clock and
resolution. The pool is filled from empty, one key of the sample at a time (`Filled`), and after each
it is sound: entries are of stored keys with their idle times (`Truthful`), ascending, once each.
`Account` says what has been freed at each step, in whole samples until the database is empty; the
idle time of a key never looked up is `(Second - Seeming) * Resolution`, so that ascending idle times
are descending ages, across a wrap of the clock also.

**ContainersProofs** proves for every `Containers`: any values, members, scores and counts, any number
of levels and addresses, any widths each of which has at least twice the numbers of the one before.
`ObjInv` says that the key holds nothing, a list, a sound set or a sound sorted set.

- A skiplist is sound (`Ordered(sl, pos)`) when there is one order of its nodes, given by a place
  `pos` for each, such that every level links the nodes it has in that order, a span is the difference
  of two places, and `backward` leads one place back. The properties of the run speak of the chain of
  level 1; that the two agree is a lemma each. Of the descent it is proved, for any set of nodes that
  is a beginning of the order, that it stops on every level at the last node before the set ends, and
  has crossed as many spans as its place says (`DescentIs`). Inserting moves the places behind the new
  node up by one (`PosWith`), deleting down (`PosWithout`), and each link and span is compared with
  the new places: the links replaced, the spans over the new node, and the levels that come into use
  or go out of it. It is in this last case that the code's `RawLevels` is needed: the header's span on
  an unused level is stale, and no invariant speaks of it.
- The dictionary of a sorted set follows (`InStepButForRounding`), since a deletion by the rendered
  score finds the node of the member that has this score, if there is one, and never another member's.
- Ranks and ranges are read off the places: while all scores survive their texts the nodes in their
  order list the dictionary once each (`Lists`), so that the rank of a member is its place, and the
  members of a range are those between two places (`Between`), which the two descents find; the loop
  that writes them out follows the lowest level from the one to the other (`UptoIs`).
- `lrem` is a loop that erases under its iterator. Its rounds have an invariant each (`HeadAfter`,
  `TailAfter`): what is left is the list without those occurrences among the positions passed that
  are to go, and the iterator stands behind them; from the tail, erasing moves it on by itself.
- The binary search of an intset ends because its part of the array halves (`Bisecting`), at the place
  where the value is or belongs. An upgrade copies the values one by one into the wider encoding, and
  keeps their order because all were in range of the narrower one. `Clean` says that no negative
  number was stored in the first encoding; without it nothing is claimed but the type.

Proving `SetsDoAsTold` showed that an earlier form was false in a case the instance did not have: when
a full intset of the first encoding is given a negative number it becomes a dictionary, which holds the
number as the intset had stored it, as a large positive one. The instance has the case now, and the
property leaves open what becomes of such a number (`Misstored`).

A few facts on numbers and sequences that a module's proofs rest on stand at its beginning.

**SdsProofs** proves for every `Sds` (any texts, bytes and preallocation) what single calls keep, and
for `ProgramSpec`, the calls the program makes, that every string keeps to the room it was given.
`StringsAsPromised` is about one string at a time, but for strings of every length; it is proved in
four parts, each from what its recursive functions return:

- Numbers: `DigitsOf` and `ReadNumber` are shown to satisfy their equations, and to undo each other
  digit by digit, since the digits of a number are those of its tenth and a rest. That `string2ll`
  refuses nothing `sdsll2str` has written is a matter of its bounds before each digit.
- The order of texts: `match` compares at the first place where two texts differ, or by their lengths;
  so it is 0 for the same text only, turns its sign when the texts change places, and is transitive.
- Trims, ranges and room: the text left is a section of the text before, at the places the clamped
  indexes name; a trim of a text without a null byte strips bytes of `cset` only.
- Splitting and joining: the tokens found from a place on, joined whole by the separator (`JoinOf`), are the text from
  there on, and every byte of a token is one of the text; so when neither the text nor the separator has
  a null byte, `sdsjoin` joins them whole as well. The recursion ends because a separator is not empty (assumed in Sds: the code returns
  nothing for an empty one).

| Theorem | Statement |
|---|---|
| `DictProofs!Inductive` | `Spec => []IInv` |
| `TypeCorrect`, `TablesStayConsistent`, `LoopsTerminate` | the invariants of run `dict` |
| `CallsAreMapCalls` | `CallsKeepTheirPromise` |
| `Refinement` | `ImplementsMap`: `Spec` implements `KeyValueMap!Spec` |
| `IteratorsArePaused` | `IteratorsPauseRehash` |
| `RehashDrains` | no key is added to `ht[0]` during a rehash |
| `DbProofs!Inductive`, `TypeCorrect`, `DeadlinesAreKeys`, `NothingDangles` | the invariants of run `db` |
| `DbProofs!OthersAreUntouched`, `LossesAreKnown`, `NothingGoesBeforeItsTime` | the action properties `OthersUntouched`, `LeaksOnlyWhereKnown`, `NothingGoesEarly` of run `db` |
| `DictProofs!UnseenIsAhead` | `ScanSpec => []ScanIInv` |
| `DictProofs!ScanIsComplete` | the invariant `ScanVisitsAllUnlessStrayed` of run `dict_scan` |
| `HashObjectProofs!HashIsDictionary` | `ImplementsDict` of run `hash`: `Spec` implements `Dict!Spec` |
| `HashObjectProofs!TypeCorrect`, `NextStaysThere` | the invariant `TypeOK` of run `hash`; an iterator's next entry is in the hash, or known to be gone |
| `HashObjectProofs!SteadyWalksAreComplete` | the action property `SteadyWalksReturnAll` of run `hash` |
| `EventLoopProofs!TypeCorrect`, `StopsForAReason`, `InterestIsKept`, `NoRequestIsLost` | the invariants `TypeOK`, `LoopStopsForAReason`, `InterestKept`, `RequestsConserved` of run `event_loop` |
| `EvictionProofs!TypeCorrect`, `PoolStaysSound`, `OldestIsEvictedFirst`, `EvictionFreesEnough`, `DeadlinesGoWithKeys` | the invariants of run `eviction` |
| `ContainersProofs!Inductive` | `Spec => []ObjInv` |
| `ContainersProofs!TypeCorrect`, `ListsAreSound`, `ZsetsAreSound`, `QueriesAreAnswered` | the invariants `TypeOK`, `ListsDoAsTold`, `ZsetSound`, `ZsetQueries` of run `containers` |
| `ContainersProofs!SetsAreSound` | the action property `SetsDoAsTold` of run `containers` |
| `SdsProofs!TypeCorrect`, `SpaceIsKept`, `TerminatorStays`, `TwoCallsOverrun` | the invariant `TypeOK` and the action properties of run `sds` |
| `SdsProofs!StringsAreAsPromised` | the invariant `StringsAsPromised` of run `sds` |
| `SdsProofs!ProgramKeepsStringsSound` | the program's own calls never overrun a string |

Only model-checked is liveness, which with fairness and `ENABLED` is beyond the prover: that scans,
walks and evictions end, that requests are answered and hang-ups noticed. Every safety property of
the passing runs is stated by a theorem.

Where what a recursive function returns could be bounded by the least argument at which it fails, it
has been proved (`Relinked` and the joined chains of HashObject, `Filled` of Eviction, the walks of a skiplist, the rounds
of `lrem`, the search and the upgrade of an intset, the digits of a number, the tokens of a split).

## Findings

Three places where the code does not do what its own comments say; each is a run expected to be
violated, and is quoted in `PROJECT.json`: `set` on an expired key writes to a deleted entry; a walk by
hkeys or hvals ends the process when the hash has changed; combined epoll flags are handled by nobody.

Behaviour that is modelled as it is; a property names it where it is the exception to what holds.

- Dictionary: `dictEmpty` at the start of a rehash leaves an empty second table (dict.cpp:233),
  with `rehashidx` at -1: nothing looks into it, and the next rehash puts its own table in its place
  without releasing it; a scan whose cursor comes from a larger table can miss a key
  when it meets a rehash by more than a doubling or a halving (dict.cpp:390), though dict.h:197
  promises otherwise without exception.
- Keyspace: a second `expire` on a key reports success, keeps the old deadline, where db.h:34-36 and
  pydis.cpp:725 say that it sets one, and loses a reference; `NothingGoesEarly` claims nothing of which
  deadline a second `expire` leaves, and `LeaksOnlyWhereKnown` names the reference. `get` of a set that
  srem or spop have emptied frees the text of `shared.none` (and `getset` does), so that every later
  answer "none" reads freed memory and a second `get` frees it again; `NoDangling` speaks of the
  objects that counts free, and does not claim that this cannot happen. `rename k k` loses the value; `getset` on an expired key returns the old value and keeps the
  deadline; `strlen` and type errors of `hset`, `lpush`, `rpush`, `zadd` keep a key object
  (`LeaksOnlyWhereKnown` says that nothing else does).
- Eviction: the pool is drained although enough is free, so that a small database is emptied; on an
  empty one the loop does not end; the key of an entry is used after `delete_key` freed it, when `expires` has a table
  (`DeadlinesFollowKeys` says when this happens, and is about the evictions in which it does not);
  stamps mix milliseconds and seconds, so that the idle time of a key that was looked up means nothing
  (`OldestGoesFirst` is about the others); a wrap of the clock is off by one second. A full pool is never met,
  since a sample is no larger than the pool.
- Lists: `lrange` counts a start before the first element from the end once more (`ListsDoAsTold` leaves such starts out); `lrem` with a
  negative count steps before the beginning of an emptied list.
- Sets: the first encoding of an intset stores negative numbers as large ones, which are not found
  again; `sadd` of a duplicate answers ok for an intset, where pydis.cpp:727 says exists.
  `SetsDoAsTold` claims neither: of an intset only that exists is not answered for a new value, and
  of a negative number in the first encoding only that what was there stays. `get` of a set kept in an
  intset answers with the positions 0, 1, ... instead of the members (SetObject.cpp:30).
- Sorted sets: a score whose text is another score leaves its node in the skiplist for ever.
- Strings: `sdscpylen` asks for room by `len + free` of a function that goes by `free`; `sdstrim`
  leaves the terminator at the old end; `sdsrange` of a whole full string with an end of `len`
  writes one byte too far; `sdstrim` strips null bytes from both ends though `cset` does not hold them
  (sds.h:138), and `sdsjoin` cuts its tokens at a null byte where `sdssplitlen` is binary safe
  (sds.h:224): `StringsAsPromised` claims trims and joins for texts without one; an assignment copies `free` and not the room. `StringObject(long double)`
  keeps a pointer into a temporary (object.h:83-87) and is outside the model.
- Event loop: `event_add` replaces the read interest of a connection while a reply waits, so that it
  is read again only after the reply has gone; a peer that hangs up in the middle of a request
  leaves its descriptor neither closed nor watched (`InterestKept` says when).

## Not modelled

- The text that `get_value` makes of a container, which `get` and `getset` answer with: it only reads,
  but for an emptied set, which Db has.
- `intsetSet`, `intsetResize`, `adlistInsertNode`, `adlistSearch`, and the `hash` and `match` of
  containers: nothing calls them. `sdsull2str` and `is_hex_digit`: likewise, or they share
  their code with what is modelled.
- `StringObject::hash`: a constant function of Dict, which holds for every one.
- The text of replies, and the wire format that `lrange` and `zrangebyscore` build.
- `sendall` on a full socket buffer: the kernel's buffers are not modelled.
- The build script, the eleven test programs (`test*.cpp`) and `test_py.py`.

## Plan

Done, in the order of what depends on what: KeyValueMap, Dict, DictScan, Db, EventLoop; HashObject;
Skiplist, ZsetObject, Intset, SetObject, ListObject under Containers; SdsTools, Sds; Eviction; the
proofs of Dict, DictScan, HashObject, Db, Sds, EventLoop, Eviction and Containers. What is left:

1. Eviction composed with Db, once something switches it on.
2. The event loop composed with the commands, once it calls them.
