# RocketFS in TLA+

A verification project for RocketFS: TLA+ modules for the parts of the NameNode
and of the FUSE client that have state, TLC configurations that check them on
small instances, and theorems that TLAPS proves for every value of the
constants. `PROJECT.json` lists the components, the runs, the source lines of
every definition, the findings, the hazards and the theorems.

## The system and its parts

```
 kernel --FUSE--> session loop --RPC--> NameNode handlers --> KVDirTable / KVDEntView
                  completion thread     (one thread)             serdes, 4 column families
                                        IDGen <-- IDGenMgr       RocksDBKVStore -> RocksDB
                                                  (own thread)
```

| part | source | module |
|---|---|---|
| transactional interface | `table/kv/kv_store_base.h` | `SnapshotStore` (abstract) |
| store, transactions, conflict detector | `table/kv/rocksdb_kv_store.{h,cc}` | `KVStore` |
| inode ids | `common/id_gen.{h,cc}`, `namenode_ctx.cc` | `IDGen` |
| permissions | `table/dir_table_base.h`, `mkdirs_op.cc`, `list_dir_op.cc` | `Acl`, `AclCheck` |
| serdes, point reads, the table's write | `table/kv/serde.{h,cc}`, `kv_dir_table.cc`, `kv_dent_view.cc` | `Serde` |
| the directory table under all row changes | `kv_dir_table.cc`, `dir_table_base.h` | `DirTable` |
| the bytes of the entries' keys, and listings | `table/kv/serde.cc`, `kv_dent_view.cc` | `DEntKeys` |
| what the NameNode promises | `service/operation/*.cc` | `DirTree` (abstract) |
| handlers, server | `service/operation/*.cc`, `client_namenode_service_main.cc` | `NameNode` |
| FUSE operations, proxy | `client/fuse/fuse_ops_proxy.*`, `operation/fuse_async_op_base.h`, ... | `FuseClient` |
| client and NameNode together | the above, `operation/fuse_{lookup,get_attr,mkdir,open_dir}_op.cc` | `FuseSystem` |
| an open directory | `operation/fuse_{open,read,rel}_dir_op.cc` | `DirStream` |

`XProofs` holds the proofs about `X`, `MCX` what TLC needs for it;
`FuseSystemProofs` is about `FuseClient` as well.

Not modelled: `PingPongOp` (no state), the attributes in the client's replies (a
copy of fields), the File and HardLink tables with their serde variants and
`Mutation` (no implementation or no caller), logging, generated code, and the client-DataNode protocol, which
is a design document without code. `IDGenMgr::Stop` and with it the orderly
stop of the server join a thread that has no exit; they are not modelled.

### How the modules correspond to the code

**KVStore.** One action per step of a transaction that other threads can see:
`StartTxn` (the version) and `TakeSnapshot` (the constructor), `Get`, `GetRange`,
`Put` (with `Del` as `c = NoValue`), `Release`, and `CommitTxn` in three:
`AssignCommitVersion`, `CheckConflicts` (the critical section), `WriteBatch`.
The code's maps are total functions with `Untouched` for a missing key. RocksDB
is `history`, the states it went through; a restart keeps a prefix, because
writes use `sync = false`. `MaxOpen` says how many handlers run at a time: the
server's single thread with the inline scheduler is `MaxOpen = 1`, larger values
are the store on its own terms, since `version_`, the mutex and the conflict
detector are written for concurrent transactions.

**IDGen.** `id_` is the record of its bit fields, `timestamp` being the lowest,
so `FetchAdd` increments that one and carries upwards. `Next` is one atomic
step; `Update` is two, `UpdateLoad` and `UpdateStore`. The clock counts
milliseconds, as `IDGenMgr` computes them, and `StampOf` truncates to the
field. Nothing is assumed of the environment: requests come at any rate and
before the first `Update`, which nothing in the server waits for; `NowNs` reads
the system clock, so `ClockMoves` takes it anywhere; the server restarts. The
history variables record with every id how it came about: by which server,
before or after its first `Update` (`settled`), ahead of the clock or not
(`ahead`), in which turn of the clock (`turn`), and whether an `Update` stored
its stamp below a counter that `Next` had moved past it (`behind`).

**Serde, DirTable.** A column family is a function on the keys present; a
big-endian id sorts like the id, an entry's key like the pair of parent and
name. `SerdeWrite` is `GetWriteOps` and `Write`, given a serde's keys, value
and comparisons. `DirTable` runs any sequence of creations, modifications and
removals and keeps the rows that were written as a history variable.
`DEntKeys` adds the bytes: an entry's key is the big-endian id followed by the
name, `GetRange` compares byte strings, and `List` ends its range at the parent's
id and the byte 0xFF. It justifies the pairs that `Serde`, `DirTable` and
`NameNode` take for keys. `OrderAssumption` says that an id fits into its bytes and
that names are numbered in the order of theirs; TLC evaluates it for the run's
ids and names.

**NameNode** composes `Serde` and `Acl`: a handler is one step, which is
sound because one thread runs it to its end (what it has read from the store stays
so meanwhile: `ReadsAreCurrent` of `KVStore`). `NextID` returns any id of the range
that `PlainIDs` of `IDGen` shows, ids returned before and the root's included, since
the order of ids is what `OrderKept` says and no more; `unordered` collects the
ids that were not above all earlier ones when they were given. Every handler may
answer `kSystemError` (a failed read). In `MkdirsWrite` a `CHECK` can fail in
`Next`, before anything is written, or on the batch, after an id was drawn; `Stop`
is any other `CHECK`. `Restart(n)` keeps the first `n` states of RocksDB.

**DirTree** is what a client may rely on: directories are created one at a time
below existing ones, answers are true of the state they are given in, and a crash
loses the latest creations. A new directory has whatever id the generator gives
(`Give`), and one that is given again takes the place of the directory that had
it. It has no column families, times, Acls or clock. `NameNode` implements it
(`ImplementsDirTree`): `TreeOf` reads the name space off the inode and dent column
families of a state, and `used` and `unordered` are the same. That a second `Mkdirs`
takes a name over is part of it, because the code does so.

**FuseClient.** `pc` is the session loop's progress with an operation:
`StartCall`, `RegisterFinish`, from which on the completion thread may run and
delete it, and `StartReturns`. `Respond` is gRPC, and `Complete` the completion
thread. The operations that send an RPC every time are modelled by their error
tables; a response has any code of the `StatusCode` enumeration, and an RPC may
fail or, having no deadline, never end.

**FuseSystem** puts `DirTree` in the place of the arbitrary responses of
`FuseClient`: `Call` fills in the request as the operation's constructor does,
`Serve` is the NameNode handling it and `ServeStops` the NameNode stopping in a
`Mkdirs` with an id drawn; `Deliver` takes the response to the client or loses it,
`Fail` is an RPC that ends without one while the NameNode may still handle the
request, `ServeOther` a creation by another client, `Crash` the NameNode's. The
kernel names the root or an inode number it was told and caches nothing (both
timeouts are 0.0). The history variables say what the kernel asked, which
operations were answered when one started, and what was created for it. The server
in `FuseSystem` is `DirTree` (`SystemServesDirTree`), which the NameNode implements
(`RefinesDirTree`), both without conditions; so what is shown of the system holds
of the NameNode.

**DirStream** is one open directory: `opendir` fills the cache, `readdir` moves
`start_off` and `end_off` as `PopulateDirEntriesBuffer` does, the kernel keeps
`off`, and `Seek` moves it back without telling the client. Other clients create
entries while the directory is open. The ListDir that a readdir sends fails
(`ReadDirFails`) or stays without a response, which leaves the reader waiting
(`ReadDirLost`). `got` is what the caller has, `at_open` what
was in the directory when it was opened.

## Runs

Passing:

| run | what it checks |
|---|---|
| `kv_store` | two overlapping transactions: snapshot reads, unique versions, refinement of `SnapshotStore` |
| `kv_server` | one handler at a time, one restart: serial commits, what was read stays so, refinement |
| `idgen` | `Next` against `Update` at any rate, a clock that jumps and wraps, a restart: ids are plain timestamps, their order breaks only in four named ways, the generator follows the clock |
| `dir_table` | all sequences of row changes: reads, index and no left-over keys; byte ranges of listings are exact |
| `namenode` | all handlers with failures, any ids and restarts: foreign key, tree, resolvable entries, `..`, inodes stay, refinement of `DirTree` |
| `fuse_system` | answers and shutdown in every interleaving of the client's threads and the NameNode; lookups and listings see earlier answers, inode numbers stay valid and mean one directory, errors are final; refinement of `FuseClient` |
| `dir_stream` | order, offsets, completeness and termination of readdir while others create entries |

Runs that show the code and its own documentation disagree (each is a finding in
`PROJECT.json`, with the line it quotes):

| run | what happens |
|---|---|
| `kv_conflict` | commits are never recorded, so overlapping transactions never conflict |
| `idgen_update_race` | two `Next` inside one `Update`: an id is issued twice |
| `namenode_names` | a second `Mkdirs` of a name takes the entry over |
| `fuse_timeout` | a failed RPC is never answered, even if every RPC ended |
| `acl_execute` | `MkdirsOp` asks for the write bit and not for execute |

Further behaviours that the modules have, and that limit what the passing runs
say; most of them are hazards in `PROJECT.json`:

- `IDGen`: `OrderKept` names the four ways in which ids come out of order or again:
  an `Update` that stores its stamp below ids issued since its load (the run
  `idgen_update_race`); a `Next` before the first `Update` of a server, which starts
  from 1, the root's id; ids ahead of the clock, taken faster than one per
  millisecond, followed by a restart; and a clock that is set back or whose stamp
  wraps (the field counts milliseconds where its comment says seconds, so it wraps
  after 49.7 days), followed by a restart. At the top of the field an increment
  carries into `node_id` and its CHECK stops the server.
- `NameNode`, `DirTree`, `FuseSystem`: an id that was given out of order may be
  another directory's, whose inode the `Mkdirs` then writes over. The properties
  say what holds of the others, and what holds of all: `ParentIsOlder`,
  `DEntsResolve`, `InodesStay` and `InoMeansOne` leave out exactly the ids in
  `unordered`.
- `Serde`: the Acl of a directory is not stored, so `ReadsBack` leaves it out.
- `Acl`: `MayList` asks for `S_IRUSR`, a bit that `CheckPermission` shifts out of the
  class (theorem `ListShiftsTwice`).
- `FuseClient`: `kParentNotFoundError`, which `ListDirOp` returns for a missing
  directory, is EIO for opendir.
- `FuseSystem`: `SeesThePast` says that a later lookup finds the same number or one
  that took the name over, because of `namenode_names`; the old number stays valid
  (`InoStaysValid`). `OpenDirSeesThePast` allows for a listing that is cut off before
  the name. An RPC that never ends leaves its request unanswered and `Destroy`
  waiting; `Answered` and `DestroyEnds` are about RPCs that have ended.
- `DirStream`: with more entries than the default limit the listing is cut off,
  which `EndIsComplete` says; a readdir on a directory that was empty when opened
  ends with EIO (`ReadDirFails`) or not at all (`ReadDirLost`), and one from an
  earlier offset fails a CHECK (`ReadDirChecks`). `ReadEnds` says that a reader of
  any other directory comes to its end from the cache, without any RPC.

### Bounds, and why they are enough

- `kv_*`: two transactions, two keys, one or two values, and a footprint of two
  reads or writes each: a read and a write of one transaction can straddle the
  commit of the other, which is the shape of every anomaly the properties
  exclude. Transactions and values are symmetric; no property names one.
- `idgen`: a timestamp field of 4 values, 3 ids, times up to 6 with one turn, one
  restart: `Next` before, inside and after an `Update`, a wrap, a carry and its CHECK,
  two servers; `OrderKept` is about a pair of ids. `idgen_update_race` has no restart
  and a field that does not wrap, so the race is the only cause.
- `acl_execute`: three users, two groups and every permission word over eight bits,
  among them the write and execute bits of the classes.
- `dir_table`: two ids, two names, two times, two Acls: renames, moves and swaps
  of names. Parent ids come from the same set, so a row may be its own parent;
  the table does not look. The root's id is not used, its Read being a constant.
  Keys have bytes of 3 values and ids of 2 bytes; one name is a prefix of the
  other, and the last byte of one id is the byte that ends a range.
- `namenode`: two names, a superuser and a user, ids 1 to 3 (1 is the root's), three
  creations, one restart and a default limit of 1: nested directories, siblings, a
  listing that is cut off, ids given twice, and a child of a directory that a
  restart has lost. Requests name every id, present or not.
- `fuse_system`: two operations of any kinds, ids 1 to 3, one name, and one event
  from outside (`MaxOutside`): a mkdir or lookup followed or overlapped by another
  operation, with a creation of another client or a crash in between. Each property
  is about one operation or a pair. The invariants were also checked with two such
  events. Listings hold one entry; one that is full before the name that is looked
  for takes a second name, which is left to the theorem `OpenDirSeesPast`.
- `dir_stream`: up to 4 names with a limit of 3, so directories below, at and above
  it, buffers for 1 to 3 entries, two opens.

Deadlock checking is on, except in `idgen`, `idgen_update_race`, `namenode` and
`namenode_names`, where a server that has failed a CHECK has stopped for good once
the restarts are used up.

### Fairness

- `IDGen!FairSpec`: weak fairness of the manager's thread, an endless loop with a
  sleep. `Next`, the clock and restarts are not fair.
- `FuseClient!Spec`: weak fairness of the two threads' steps. Nothing makes an RPC
  end, because the code sets no deadline; the kernel is not obliged to send
  anything, nor the session to end. `TimeoutSpec` adds that every RPC ends, one way
  or another; only the violation run `fuse_timeout` uses it, which is the stronger
  for it.
- `FuseSystem!SysSpec`: the same of the client's threads, and that a handler which
  has its response returns it, to be delivered or lost. The NameNode is not obliged
  to serve a request, nor an RPC to end.
- `DirStream!Spec`: weak fairness of the caller's readdirs, for `ReadEnds` only: a
  caller that keeps the directory open reads on. RPCs, seeking, creating and closing
  are not fair.

## Proofs

`KVStoreProofs`, for any finite sets of transactions and keys, any values and
bounds (`KVAssumption`):
- `TypeCorrect`, then `VersionsUnique`: every version in use is below `version_`.
- `ReadsAreSnapshots`. `ReadsFromOneState` is not inductive: that the pairs seen
  agree with some past state says nothing about the next read. The
  strengthening says that the snapshot *is* a state of `history`, at a position
  not before `began`, and that every pair seen agrees with the snapshot.
- `StoreImplementsSnapshots`: each step maps to a step of `SnapshotStore` or to a
  stutter (drawing versions, passing the check).
- `ServerSerial` and `ServerReadsCurrent` assume `MaxOpen = 1`. The
  invariant is that at most one transaction is open and that nothing was committed
  since it began, hence its snapshot is the current state; with the invariant of
  `ReadsAreSnapshots`, what it has read is the current state's. They say precisely how far the
  server depends on its single thread.

`IDGenProofs`, for any field width, bounds and number of calls
(`IDGenAssumption`):
- `IDGenTypeCorrect` and `IDsArePlain`: while the server is up, the counter and what
  an `Update` has loaded have a timestamp only, because a carry out of it fails a
  CHECK; therefore `NameNode` may take the timestamp of an issued id for the id.
- `OrderHolds`. `OrderKept` speaks of issued ids and is not inductive: the next id
  comes from the counter. The invariant relates both to every id issued before. The
  counter of one server is not below an id of that server unless a store fell
  behind it (`overtaken`). An id that was not ahead of the clock is not above its
  stamp in the same turn; so the stamp that `IDGenMgr` reads has passed all such ids
  of earlier servers (`Passed`), and so has the counter once an `Update` is
  completed, whether it returned early or stored.

`DirTableProofs`, for any ids, names, Acls and times (`DirTableAssumption`,
`NoDirAssumption`): `TypeCorrect`, `WritesReadBack`, `IndexIsExact`,
`NothingLeftBehind`. The inductive invariant says what each column family holds as
a function of the rows; the three properties read it off. Without it the index
says nothing about a row that is about to move. The lemmas treat
creation, removal and modification apart, and a modification by whether the key
of a column family changes.

`DEntKeysProofs`, on top of `DirTableProofs!TypeCorrect` and from
`OrderAssumption`: `Store64Sorts`, `ListsExactly` and `KeysAreSorted`, for any width,
base and names. Big-endian ids compare like the ids: take the least number of last
bytes without which two ids are the same (there is one, since without all bytes
both are 0); the byte before them is the first in which they differ, and division
is monotone. The provers know nothing of powers, so `PowersAssumption` states what
they are, `Base ^ 0 = 1` and `Base ^ (n + 1) = Base * Base ^ n`. A key before another at a byte of the id stays before it whatever follows
(`Before` is decided at the first difference), and behind equal ids the names
decide; no name has the byte of the range's end.

`AclProofs`, for any users, groups and permission words, bits as sets and a case for
each class: `ClassDecides` says that a check for bits of the others class is decided
by the class that applies, and `ListShiftsTwice` what the check of `ListDirOp` comes
to, whose bit is already the owner's.

`NameNodeProofs`, for any names, users, modes, limits, ids and bounds
(`NameNodeAssumption`), with nothing assumed of the generator: `NameNodeTypeCorrect`,
`ForeignKeyHolds`, `ListingsHaveParent`, `EntriesAreStored`, `TreeBelowRoot`,
`EntriesResolve`, `DirectoriesStay` and `RefinesDirTree`. The invariant `NNInv` speaks
of every state in `log`, not of the latest one, since a restart can bring any of
them back. `ClosedOK` says that such a state is closed: each inode has its times and a
parent that is stored or the root, and each entry names a stored inode. Writing over
an inode keeps that, because it removes no key and the new parent was read in the
same handler. `TreeOK` says that every inode's id was given, and that for ids not in
`unordered` the parent is older and an entry agrees with its inode: an id that is
given in order is above all given before, so it is in no state of `log`, and one
that is given again enters `unordered` in the same step. The refinement maps each
handler to its counterpart and a `Mkdirs` whose batch is not written to `Waste`. TLC
checked `NNInv` on the instance of `namenode` first.

`FuseSystemProofs`, for any set of operations:
- About `FuseClient` alone: `ClientTypeCorrect` and `RepliesOnce`. The invariant
  `FCInv` ties `replies` and `freed` of an operation to `done`, and `done` to an
  operation whose tag is registered.
- About the two sides together, for any ids, names and number of crashes
  (`FuseSystemAssumption`: operations, ids, names and the default limit are natural
  numbers, the root is one of the ids, and a listing may have no limit).
  `SystemRunsClient` proves `ImplementsFuseClient`: a response reaches an operation
  only while its RPC is under way and has a code of `StatusCode`, so each step is
  one of `FuseClient`; hence `SystemKeepsPromises`. `SystemServesDirTree` is the other
  half: each step is one of `DirTree` or leaves the name space alone.
- `LookupSeesThePast`, `InodeNumbersKeepMeaning` and `ErrorsAreFinal`. None of the
  three is inductive: they speak of replies, and a reply is decided when the
  NameNode handles the request, steps before the kernel has it. `SysInv` therefore
  speaks of `Given(o)`, the response from the moment the handler ends. It says that
  a request is handled at most once (an operation in `waiting` has no response and
  has made nothing); that an id given in order belongs to one parent and name in
  every state a crash may return to, and stays in `used` when the directory is lost
  (`Belongs`); that until the next crash the name of a told entry leads to that
  directory or one that took it over (`FoundOK`); and it relates pairs of responses
  (`OneMeaning`, `FindsAgain`). A new id is above `used`, so it belongs to nothing
  yet, or it enters `unordered`, about which `OneMeaning` says nothing; `Grows`, that
  but for a crash a name leads on to the same directory, to a newer one or to one
  with an id out of order, keeps `FoundOK`.
- `OpenDirSeesPast` and `InodeNumbersStayValid`. `ReachInv` extends `SysInv`: every name
  leads to a directory that is there (`DirsInv`), a directory whose number was told
  is there until the next crash (`StaysDir`), and of two responses the later one does
  not deny the directory (`NotGone`) and lists the name (`ListsAgain`). All of it is
  about `Given(o)` again. That a listing has the name or is full with earlier ones is
  `FirstFew`: the first `n` of a finite set of numbers hold a member, or are `n`
  smaller ones. The library's induction is out of reach, so `FirstFew` argues by the
  least and greatest elements of sets (`LeastNatural`, `GreatestNatural`). TLC checked
  `SysInv` and `ReachInv` on the instance of `fuse_system` first.

`DirStreamProofs`, for any names, limit, buffers and number of opens:
`DirStreamTypeCorrect`, `ReadsInOrder`, `OffsetsCount` and `EndsComplete`. The invariant says what the cache
holds relative to what was read: while it holds entries, they are a listing of
the directory as it was opened and what the caller has is a prefix of them;
once it is used up, the caller has all of them unless it went back.

Every invariant and action property of the passing runs is proved. The types of
`KVStore`, `IDGen`, `DirTable` and `FuseClient` are only proved, for all constants,
and not checked by the runs as well. Model-checked only: liveness (`CatchesUp`,
`Answered`, `DestroyEnds`, `ReadEnds`) and the deadlock checks, which are out of the
prover's reach.

## Limits

- Handlers that overlap (`NameNode` over `KVStore` with `MaxOpen > 1`) are not
  modelled: the server has one thread. `kv_conflict` shows what it would meet.
- No client sends `start_after`, so pagination is modelled in the handler
  (`ListDir`) and not in the client.
- The pointer `file_info`, which `FuseOpenDirOp` writes to after its handler has
  returned, belongs to libfuse, and its lifetime is not modelled.
