# Formal model of pyredis

pyredis is a small Redis-like server: one asyncio event loop, an in-memory
keyspace with deadlines and a memory limit, and an append-only file (AOF) it is
rebuilt from.  This directory holds TLA+ modules for its logic, TLC
configurations that check them, and TLAPS proofs about them.  Line numbers refer
to `src/pyredis/*.py`.

## Inventory

| Component | State | Operations | What is hard | What makes it correct |
| --- | --- | --- | --- | --- |
| `store.py` data | `_data`, `_expires`, `_access`, `_tick`, `_memory` | `_write`, `_remove`, `_touch`, `_projected` | three dictionaries and a running total kept in step by increments | no deadline or access mark without its key; total = sum of costs; marks unique |
| `store.py` methods | the data, two cursors, the list of victims, a clock | `set get incr delete exists expire ttl persist dbsize flushdb sweep_expired take_evicted`, recovery primitives | lazy expiry, a clock that moves inside a call, eviction by sampling from a stale cursor, writes at the limit | answers as a map that forgets keys at their deadlines; no write ends above the limit; a victim always exists; an increment keeps its deadline; expired keys are reclaimed |
| `commands.py` | none of its own | one handler per command, `dispatch` | memory changes before the journal is written; eviction DELs before the SET | the log replays to what memory holds; after a failure no mutation reaches memory |
| `aof.py` | file, user-space buffer, page cache, `_failed` | `append sync close`, `load scan _apply _truncate` | crash between two appends or inside one, failed fsync, power loss; a file damaged anywhere | an acknowledged write survives what its policy says it survives, and is on disk eventually; only a torn tail is cut |
| `server.py` | store, journal, tasks, set of writers | `serve`, `_expire_cycle`, `_fsync_cycle`, shutdown | tasks interleave between commands; connections and tasks in every stage of their life when the teardown starts | nothing is acknowledged that no file records; no task outlives the journal; `serve` ends whatever clients do, and the program if they take their replies |
| `connection.py`, `resp.py` | bytes read so far | `read_command`, `handle_connection` | any split of the stream, end of stream or reset anywhere, clients that do not read | the requests dispatched are those sent, in order; a bad frame is answered before the hang-up, but for a number `int()` refuses; replies do not pile up |
| `config.py`, `log.py`, `scripts/demo.py` | none | parsing, output | - | not modelled |

Interaction: a connection task reads a request, calls `dispatch`, which runs one
handler against the store and journals what it did, all without yielding; the
reply is then written.  The sweeper and the `everysec` syncer are tasks of the
same loop and run between commands.  The store and the journal are shared by all
of them; nothing else is.

## Modules

* `Keyspace` - the data of a store as a value, and its private helpers as
  operators on that value.  Dictionaries are total functions on `Key` with `None`
  (or 0 for `_access`) for "absent"; dictionary order is left out.  A value is an
  integer of the (small) 64-bit range or a text `parse_int` refuses.  The cost of
  a set of entries is the cardinality of a set with one element per byte: it is
  the sum `memory_used` should equal, in a form TLAPS can reason about without
  induction.
* `KeyValueStore` - the methods as actions.  A call is one action, because no
  method yields; but a method that reads the clock more than once may get two
  answers, and the later readings are chosen with `\E t \in now .. MaxTime`.
  Only the loop of `_admit` takes several actions, one per victim; `call` holds
  the locals of that write and nothing else runs meanwhile.  A cursor is the set
  of the keys left in the list, popped in any order, which includes the order the
  code pops them in.
* `TtlMap` - the abstract specification: a map in which a key is gone the instant
  its deadline arrives.  `KeyValueStore` implements it with
  `map <- LiveEntries`.
* `MCKeyValueStore` - lengths, argument lists and symmetry for TLC.
* `AppendOnlyFile` - the journal and the file under it: the complete records,
  how many of them are on disk, what follows them (nothing, a torn record, or
  damage), the record a failed flush left in the user-space buffer, and whether
  the journal is open, failed or closed.  Appends, flushes and syncs may fail; the
  process may be killed and the power may go at any moment.
* `Durability` - the command table over `KeyValueStore` and `AppendOnlyFile`, the
  sweeper, the `everysec` task, shutdown, crashes and recovery.  A command is the
  store's action and then one action per record it appends, so a failure or a
  crash may fall between any two; nothing else is enabled until the last one,
  because `dispatch` never yields.  `settled` and `doubtful` observe what clients
  were told: the keyspace at the last acknowledgement, and the keys whose later
  fate was never promised.  Recovery is one action: replay, repair, open.
  Each start may choose another policy.
* `MCDurability` - lengths, argument lists and symmetry for it.
* `Wire` - RESP2 arrays of bulk strings as sequences of bytes, and the conversions
  both readers share: where a line ends, which digits are a length, what number they
  are, and when `int()` refuses.  A frame is the line of a request, its bulk strings
  and, where it is bad, the bytes that are not accepted instead of the next.  A byte is a marker (`*`, `$`, `-`), a digit, CR, LF, or one of
  the bytes in `Other`; a payload may hold any of them.
* `LogScan` - `load`, `scan`, `_read_record`, the checks of `_apply` and
  `_truncate`, one action per header and part, on a file the journal wrote that was
  cut at any byte or has any one byte replaced (and then perhaps lost its last
  byte as well).  What a record does to the store is in `Durability`.
* `Connection` - `handle_connection` and `read_command` on one client's stream: the client sends a sequence of frames, good or bad (`ScriptAssumption`: any stream is
  one, cut somewhere), whose bytes arrive in pieces of any size; it may end or reset its stream
  anywhere and reads replies when it likes.  One action per wait of the coroutine,
  so `Close`, `EndOfStream` and the errors are as in the code; the transport's
  high-water mark is what `drain` waits for, after a reply (`"drain"`) and after the
  error reply that ends a session (`"refused"`, `RefusalDrained`).  A number of more
  than `MaxIntDigits` digits, on a line that is not too long, raises out of both
  functions (`Crash`).
* `Server` - `serve`, its connections, handlers and background tasks on the queue
  of asyncio's event loop, in the order in which callbacks run.  `todo` is the
  current iteration and `next` what is scheduled for the one after it; what
  happens outside (a connection, bytes, a timer) is seen between two.  A
  connection comes up in three callbacks, a cancelled task ends one or two
  callbacks later depending on whether it was asleep or woken, and `close` cancels
  callbacks where they are in the queue, to be passed over (`PassedOver`): these
  orders decide what a teardown sees.  A transport may hold replies its client does not
  take (`unread`); then `drain` may pause its handler, and a `close` does not lose the
  connection before they are taken (`Take`, `Flush`).  When `serve` has ended,
  `asyncio.run` cancels every handler that is left (`CancelAll`) at the await it is in,
  each goes through the `finally` of `_handle_client` (`Abort`, then `Finish` when
  `wait_closed` returns), and only then does the program end (`Exit`).  The event
  loop, its transports and `asyncio.run` are external to the repository and are
  modelled from how `server.py` uses them.
* `MCLogScan`, `MCConnection`, `MCServer` - logs, streams and clients for TLC.
* `KeyValueStore_proofs` (with the lemmas about `Keyspace`), `TtlMap_proofs`,
  `AppendOnlyFile_proofs`, `Durability_proofs`, `Wire_proofs`, `LogScan_proofs`,
  `Connection_proofs`, `Server_proofs` - the proofs.  Those of a composition extend
  those of its parts: `TtlMap_proofs` builds on `KeyValueStore_proofs`,
  `Durability_proofs` on the latter and, with the records of the command table, on
  `AppendOnlyFile_proofs`.  `Wire_proofs` holds what the proofs about both readers
  rest on.

Definitions marked *Faulty* are variants of the definition below them with a
plausible mistake.  No specification uses them; putting one in place of its
original must make TLC find the property that guards against the mistake
violated.

## Runs

| Run | Question | Bounds |
| --- | --- | --- |
| `noeviction` | With deadlines, a moving clock, recovery and refusals: is every answer that of `TtlMap`, do the tables stay consistent, are values and deadlines in range, and is every expired key reclaimed by the sweep alone? | 2 keys, values 0..3 and a text, ttl 0, 1 and 3, clock 0..1, 2 touching calls, one key examined per sweep |
| `lru` | Under `allkeys-lru` with deadlines: is memory exact, is there always a victim, does a write ever end above the limit? | 3 keys, limit of two or three entries, clock 0..2, 3 touching calls |
| `eviction` | Which keys may eviction take, over all states of the cursor, and do clients see a map that loses entries only to make room? | 5 keys, four of which fit, sample of 3, no deadlines, 4 touching calls |
| `incr_deadline` | (violated) Does an increment that has to make room keep its deadline? | 2 keys |
| `journal` | Through failures, kills, power failures and restarts under any policy: does the file stay records and a torn one at most, does a committed record stay, and is every record committed eventually under `everysec`? | 2 records, at most 4 in the file |
| `durable` | With deadlines, eviction, and restarts that change the policy: does the log rebuild what clients see, do victims and reclaimed entries stay away, does what was acknowledged survive what its policy says, does a failed journal stop every change, does every restart come up within the limit? | 3 keys, entries of 3 or 6 bytes, a limit of 6, ttl 0 and 1, clock 0..1, 3 touching calls per start, `always` and `everysec` |
| `log_scan` | Is a cut log loaded up to its last complete record and left there, is damaged framing refused, and is a refused file left alone? | all logs of one or two of 7 records, cut at every byte or with any byte replaced by any other |
| `damaged_length` | (violated) Is a file whose last record is whole ever truncated? | as `log_scan` |
| `connection` | Are the requests dispatched those sent, when is a client hung up on in silence, is the backlog bounded, is what arrived whole served? | streams of two frames of 15 kinds, good and bad, or three good ones; every split |
| `long_length` | (violated) Is a client that is still there told why it is hung up on? | as `connection` |
| `server` | Cancelled at any moment: is every acknowledged write recorded, has every task ended when the journal closes, does `serve` end, and does the program, if clients take their replies? | a client of two requests and one that only connects, both tasks |
| `unread_shutdown` | (violated) Does the program end whatever its clients do? | as `server`, without the syncer |

In `durable` no mutation starts with more than two records in the log
(`MaxLog` is 3); what it then appends may exceed that.  That is room for a record
of each of two keys, one more that changes it, and the two deletions of a write that
evicts two entries.  The number of crashes and restarts is not bounded.  The
policy `no` is left to `journal`: for clients it is `everysec` whose task never
gets its turn.

`lru` and `durable` use `VIEW MCView`, which leaves out `result`: no
action and no property of theirs reads the last answer, except through `op` in the
step that gave it, so states that differ in nothing else have the same future.
They and `eviction` use symmetry in the keys; the runs that check liveness use neither
(`noeviction`, `journal`, `connection`, `server`).

A log of two records is enough for `LogScan` because `scan` keeps nothing between
records but an offset.  Its records hold a payload that is a line end, one that
looks like a header, one of two digits' length and an empty one, and one of them has ten
parts, so that a damaged count may have two digits.  The
streams of `connection` hold every kind of frame the parser refuses, first or after
another, and replies to three requests exceed its high-water mark.  `int()` there
refuses more than 3 digits and a line holds 6 bytes, in the order of the program's 4300
and 64 KiB: a number may be too long to convert (`Crash`) or its line too long to read.
In `server` one client may have a second request buffered when the first is run, and its
handler may pause between them or have both replies unread; the other client is
accepted, and hung up on, in every order with the first.

The bounds are small but put every case in reach.  Lengths make an increment at 2
longer (3 is the longest integer), a text longer still, and the limits
leave room for two entries, or three short ones, so that a write fits, evicts one
or two keys, or is refused.  `INT64_MAX` is 2 or 3, within two steps of every counter
and one of every deadline.  `MaxTick` bounds how many calls may touch a key, the
only unbounded counter besides the clock.

The largest runs, `server` (1.6 million distinct states), `durable` (0.7 million) and
`noeviction` (47 thousand, with liveness), take two to three minutes each on two workers.

**Fairness** (`FairSpec`): recovery and a command that has started end (weak
fairness: nothing else can run, so they are continuously enabled), and the
sweeper keeps getting its turn between commands (strong fairness: `Sweep` is
disabled while a write is evicting, and the event loop serves its ready tasks in
turn, so commands cannot keep a woken task from running).  Commands need no
fairness.  `FileFairSpec`: the `everysec` task keeps getting its turn while there is
something to commit; a sync that fails also counts as its turn.  `Server!FairSpec`:
the event loop runs what is scheduled; clients, timers and the cancellation owe
nothing, and `ServeEnds` holds whatever they do.  `ShutdownEnds` has a hypothesis of its
own, that every client takes the replies it is sent, again and again; without it it is
false (`unread_shutdown`).  `Connection!FairSpec`: the coroutine goes on when what it waits for is
there, and a client that was not reset takes its replies in the end (else `drain`
may wait for ever, which is what it is for); it owes no bytes.

`ImplementsMap` is checked without deadlines when the policy evicts.  With them it
does not hold, because of the first finding below.

## Findings

* `incr_deadline`: `incr` reads the clock in `_drop_if_expired` and, if the longer
  value needs room, again in `drop_expired`.  A deadline between the two readings
  removes the key, and the old count plus one is written back without a deadline
  (and journalled so), against store.py:238 and the README.
* `damaged_length`: a bulk length of an earlier record that is damaged upwards
  reaches past the end of the file.  `_read_record` reports an incomplete record
  (aof.py:254-255), and `load` truncates the file there, with every whole record
  that follows, against README.md:199 ("Corruption anywhere earlier: Refuses to
  start").
* `long_length`: `int()` raises `ValueError` for more than 4300
  digits, which a header line has room for; neither `read_command` nor
  `handle_connection` catches it, and the client is hung up on without the reply
  that resp.py:39-40 asks for.  `SilentOnlyOnLongNumber` says that this is the only case.
* `unread_shutdown`: `asyncio.run` cancels the handlers that are left when `serve` has
  ended, and waits for them.  Each closes its transport and awaits
  `writer.wait_closed()` (server.py:146-147), which returns when the connection is
  lost: with replies in its buffer that the client does not take, never.  The journal
  is closed by then (`ServeEnds`), but the program stays, against README.md:358
  ("Ctrl-C (SIGINT) shuts down cleanly").

### Other disagreements

Each of these can be seen with one of the modules, and the configuration named,
which is kept beside the others (`tlc -config <name>.cfg <module>`).  They check one
property each, and TLC finds it violated.

* `shrink_refused` (`MCKeyValueStore`): recovery ignores `maxmemory`; above a
  `noeviction` limit a shrinking overwrite is refused, against README.md:269-270.
* `partly_applied` (`MCLogScan`): `_apply` raises `AofCorruptError` for a record
  that is framed well and malformed, and by then earlier ones have been applied;
  aof.py:194-195 says nothing is, and aof.py:293-294 that replay is total.  `serve`
  lets the exception end the start, so only another caller of `load` would notice.
* `teardown_write` (`MCServer`): a handler woken by a request just before `serve` is
  cancelled runs it while `serve` awaits the sweeper; server.py:107-108 says nothing
  mutates the keyspace during teardown.  The write is recorded, so no promise to a
  client breaks.
* `missed_client` (`MCServer`, embedded): a connection whose handler has not taken its
  first step is not in `_clients` and is not hung up on, against server.py:108-109.
  `asyncio.run` ends it soon after; a loop that outlives `serve` does not.
* `embedded_shutdown` (`MCServer`, embedded): such a connection may take its first step
  after server.py:126 and is given `NO_JOURNAL`: in a loop that outlives `serve`, as
  in the tests, its writes are answered OK and recorded nowhere.

## Proofs

Every theorem is about a specification with any number of keys, records, clients and
steps.  For every finite set of keys, every lengths, limits, sample and sweep sizes:

* `TypeCorrect`, `NoOrphanMetadata`, `RecencyCorrect`, `MemoryCorrect`,
  `VictimAlwaysExists`: the invariants of the runs of `KeyValueStore`;
* `LimitHolds` and `RecentKeysSurvive`: the action properties `HardLimit` and
  `RecentSurvive`;
* `StoreImplementsMap`: the refinement `ImplementsMap`, when the policy does not evict
  or no key is given a deadline.

For every set of records and of policies (each start may choose another), and every
length of the file:

* `FileTypeCorrect`, `RecoveryNeverRefused`: the invariants of `journal`;
* `CommittedStays`: the action property `SyncedStays`.

For the store and the file together, with logs of any length and any number of
failures, crashes and restarts:

* `DurableTypes`, `LogIsTheKeyspace`: the invariants `DurableTypeOK` and
  `LogMatchesMemory`;
* `FailedJournalIsReadOnly`, `AcknowledgedSurvives`, `RestartFits`: the action
  properties `FailedIsReadOnly`, `AckedSurvives` and `RecoveredFits`.

For every set of logs, streams and clients, and every limit, with payloads of any
length and any bytes:

* `RefusalLeavesFile`, `TornTailsRepaired`, `FramingDamageIsRefused`: `RefusalKeepsFile`,
  `TornTailRepaired` and `FramingDamageRefused` of `LogScan`;
* `BacklogStaysBounded`, `EveryRequestExact`: `BacklogBounded` and `RequestsExact` of
  `Connection`;
* `SilenceIsALongNumber`: `SilentOnlyOnLongNumber` of `Connection`, for every stream: a
  client that is still there is hung up on without a reply for one reason only, a number
  `int()` refuses, and after everything before that number was served;
* `NoTaskOutlivesJournal`: `NoTaskLeft` of `Server`, embedded or not;
* `AckedWritesRecorded`: `AckedIsRecorded` of `Server`, when the program ends with
  `serve`.

Assumptions: `KeyspaceAssumption` (keys finite, lengths natural, 0 and 1 in the
integer range), `StoreAssumption` and `ServerAssumption` (the types of the
parameters), `ConnectionAssumption` (the low-water mark is not above the high one),
`ScriptAssumption` (what a client sends, in frames), `LogsAssumption` (the journal writes
records that `_apply` accepts) and
`DurabilityAssumption` (the policies are those of aof.py).  Some of their conjuncts say
what typed code has for nothing: that `None` is not an integer, a text, a record or an
entry, and that an error is not an answer.

### The store

All but two follow from one inductive invariant, `StoreInv`: the type invariant, a well
formed keyspace, and that a write in its eviction loop has passed both refusals
(`CallAdmissible`).  Types alone are not inductive: `_remove` refunds the cost of
an expired key, which is a number only if the key is stored, which is
`MetadataHasKey`.  `VictimExists` needs memory to be exact: if the written key
were the only one left, the projection would be its own cost, which was found
admissible before the loop began.  The first part of
`KeyValueStore_proofs` shows that each update keeps a keyspace well formed, from the
cardinality of disjoint unions; the second has one lemma per action.

`RecentSurvive` is about one eviction: the victim is the oldest of a sample without the
written key, so the other members of the sample are at least as recent, and their
number is that of the sample or of all the keys there are.  The recency marks are
distinct (`RecencyIsExact`), so this is a count of marks.

`StoreImplementsMap` maps the store to its live entries.  Two more invariants are needed:
the clock stands still while the log is loaded (`LoadingIsQuiet`), and the locals of a
write in its eviction loop are what the map would answer with (`WriteInv`).  Each
operation is then an operation of the map, and reclaiming an expired key is a stutter.
The hypothesis, `NoRoomAcrossDeadlines`, excludes every `allkeys-lru` configuration in
which a key may have a deadline, since any write of it might make room across one: the
first finding shows that an increment then does not implement the map.

### The journal

The three about the journal alone follow from `FileInv`: an open journal writes after a complete
record (`CleanWhileOpen`).  Without it an append could meet a torn tail.  A step
appends at most one record, or keeps a prefix that contains what is committed;
three lemmas on `SubSeq` say that either way the committed prefix is the same.

### The store and the journal

`BaseInv` holds the two invariants above together with `Phases`: what a command leaves to be
journalled finds the journal as `dispatch` found it, and no victim is the key being
written.  On it rest, one for each property and each checked by TLC before it was proved:

* `MatchInv`: replaying the log, then the victims and the record still owed (`Owed`), gives
  the keyspace as clients see it.  It is what `LogMatchesMemory` says between commands,
  extended to every point within one.
* `AckInv`: in every log a stop may leave (`Found`: the present one; the present one and what a
  failed write left in the buffer; under `always`, any prefix with all that is
  committed) a key that is not in doubt is as acknowledged last, or, once a record of
  the command in progress is being written, as that command left it.
* `FitInv`: what is alive in the replay of any prefix of the log (`Prefixes`, `LiveCost`)
  takes no more than the limit.  That the full log does is not inductive, since a stop
  may cut it anywhere: it is because a write journals its victims first that no prefix
  holds both.

Keyspaces are compared key by key at a time (`Same`, `Agree`): two that agree may differ in
expired entries that only one of them has reclaimed, and agree at every later time.

### Reading a file and a stream

Both readers meet, at any position, bytes that somebody wrote, cut where the file or the
stream ends for now.  `Shows(t, from, b)` says that `t` shows `b` from a position on, as far as
`t` goes.  `Wire_proofs` says what a reader makes of that: the line found is that of `b`, or
none as long as its end is missing (`LineShown`), and a string of `Len(b)` bytes taken there is
`b` (`SubSeqShown`), whatever it contains; a stream of pieces shows each piece where
those before it end (`ShowsPiece`), a frame each of its parts (`FrameShown`); and the digits
`str` writes are read as the number they were written for (`DecimalReads`).

* `ScanInv`, for a log that is cut: `scan` stands at the end of its first n records
  (`Ends`), or after some parts of the next (`Inside`), and stops only where that one is cut.
  Records that were written are accepted by `_apply`, so that nothing refuses them.
* `RefuseInv`, for a log with one damaged byte in the framing of a record that is not the last
  (`Harmed`; `FramingIsHarmed` shows that `FramingBytes` is no more than that).  Before the
  damaged place, `scan` is where the log says it is (`Between`, `Reading`).  A header with one
  byte changed is no header, and refused at once, or one with another number (`HeaderHarmed`,
  `NumberDiffers`).  Another count makes `scan` look for a part where a record begins
  (`Miscounted`), or for a record where a part begins (`Misled`), and either is refused.  So
  is a part whose marker or one of whose line ends is damaged (`HarmedPartRefused`).  None of
  this passes for a torn tail, since a whole header follows (`NextHeader`).  The digits of
  a part's length are not framing here: `damaged_length` shows what they can do.
* `SessionInv`: what was read is the frames so far and a part of the next (`Reached`),
  what was dispatched is what those ask for, and a session that ended did so at a place where
  no complete frame was left.  A frame that is bad is refused where its bad bytes begin.

`SilentOnlyOnLongNumber` follows from `SessionInv` too: a line whose number `int()` refuses is
no line of a frame that is good (`LongNumberIsBad`), so the session stands at the first bad
one and has served those before it (`SilenceShown`).

`RefusalKeepsFile`: the file is what was read until it is loaded.  `BacklogBounded`: a reader
that is neither draining nor closed has at most the high-water mark unsent.

### The event loop

`NoTaskLeft`: a closed file means that `serve` has ended, so that nothing can send a
finished task back to sleep.

`AckedIsRecorded` needs to know what the queue may hold, and in which order.  Its
invariant, `AckInv` of `Server_proofs`, has five parts: no callback is queued twice and
the parts of a connection's arrival are in order (`Shaped`, `ComingUp`), where `serve` is
(`ServeInv`), what the last iteration of the loop may still run (`LastInv`), and for each
client, where its connection, its handler and its end are (`ArrivalInv`, `HandlerInv`,
`EndInv`).  A handler that is given no journal takes its first step in that last
iteration, when nothing is left that could give it a request; the loop runs again only
to end handlers, and then it is cancelled and runs none.  One that still had the journal
finds the file closed, and answers an error.  In a loop that goes on after `serve`, the
first would get a request: `embedded_shutdown` shows why the theorem has the hypothesis
`~Embedded`.

### Induction

The induction theorems of the library take a predicate, which the provers here cannot
instantiate.  `InductionFrom` (in `KeyValueStore_proofs` and in `Wire_proofs`, which have no
module in common) says the same of a set of numbers, from a least element of its complement; a
proof names the set of the numbers for which the claim holds.  So
`Replay`, `Decimal` and `Number` are recursive functions: `ReplayExists`, `DecimalExists`
and `NumberExists` show that they are defined; `ReplayAppend` and `ReplayPrefix`, what the first
makes of a longer and of a shorter log, and `DecimalFacts`, that the last reads what the
second wrote.  `FlattenExists` and `JoinedSteps` do as much for `FlattenSeq`.

### Only model-checked

* `SweepReclaims`, `CommittedEventually`, `EveryRequestServed`, `ServeEnds` and
  `ShutdownEnds`: liveness under fairness is out of TLAPS's reach.

## Not modelled

* A clock that is set back: a deadline then means nothing definite.  The code
  documents this as a limitation.
* `config.py` (environment parsing; what it yields are CONSTANTS here), `log.py`
  (output), `scripts/demo.py` (a client of a server process).  They keep no state.
* Byte values beyond the handful `Wire` tells apart, and `LogScan` with numbers of
  more than 4300 digits: one damaged byte cannot make one.
* A log with more than one damaged place, or damage that changes a payload: the
  format has no checksum, and no property could hold.
* A page cache that a power failure keeps out of order: what is left of the file
  is taken to be a prefix of it.  Failures while recovering: the server does not
  start, and the file is as a crash would have left it.
* `PING`, option syntax, arity and reply encoding: no state of the store or the
  journal depends on them.
* In `Server`, what a request reads or writes, bad frames, how much of a reply is unread,
  and resets: the first is in `Durability`, the others in `Connection`.  A reset would
  only lose a transport earlier.  Nor a second Ctrl-C, which ends the loop where it stands.
* Dictionary order: a victim among equally old keys, and the order a cursor is
  popped in, are left open.
