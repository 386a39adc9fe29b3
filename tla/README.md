# Verification of the OSD target

TLA+ models, TLC runs and TLAPS proofs for the object-based storage target in
`src/osd-target`: a T10 OSD-2 device emulator that keeps its metadata in SQLite
and object data in plain files.  All line numbers refer to `src/osd-target/`
unless a path says otherwise.

## 1. The system

An initiator sends a CDB.  `osdemu_cmd_submit` (cdb.c) unpacks it and runs one
service action: one or more `osd_*` handlers of osd.c, each made of statements
on three tables (obj.c, attr.c, coll.c over db.c) and of calls on data files
(io.c, osd.c).  Commands are served one at a time: osd.c:3102-3106 and
3171-3175 say that behaviour with a multithreaded server is undefined.

| Part | State | Operations | What makes it correct |
|---|---|---|---|
| Object namespace (osd.c, obj.c) | table `obj`, id cache `osd->ic` | CREATE, CREATE COLLECTION, CREATE USER TRACKING COLLECTION, COPY USER OBJECTS, CREATE PARTITION, CREATE AND WRITE, REMOVE, REMOVE COLLECTION, REMOVE PARTITION | ids given out are free; every object lies in a partition; a failed command leaves nothing |
| Attributes (attr.c, osd.c) | table `attr` with its values | set, delete, get as list or page, lazy initialisation | attributes belong to an existing object; a reused id inherits none; each behaves as a register |
| Collections (coll.c, osd.c) | table `coll` | set or clear a pointer, copy members, remove | memberships join existing objects; many-to-many |
| Data files (io.c, osd.c) | one file per user object, its bytes | create, unlink, READ, WRITE, APPEND, CLEAR, PUNCH, FLUSH, READ MAP, logical length | files are exactly those of the user objects; a read returns what the writes since creation left |
| Device (io.c, osd.c) | database file, `osd->root`, `osd->ccap` | open, close, FORMAT | a restart keeps what was completed |
| Command layer (cdb.c) | the command in service, an open transaction | dispatch, embedded attributes, clean-up | a refused command has no effect; a reported success is complete; errors carry sense data |
| Atomics (osd.c, cdb.c) | the command in service | CAS, FA, GEN CAS, COND SETATTR | the value returned is the one the write replaced; no effect after the reply |
| Listing and queries (osd.c, mtq.c, db.c) | none; the initiator holds the continuation id | LIST, LIST COLLECTION, both in pages, LIST with attributes, QUERY, SET MEMBER ATTRIBUTES | the pages of a walk cover everything that stays; a query answers with what satisfies it; only members are set |
| Packing, sense data, utilities, Panasas backend | none, or a different backend | formatting; stubs | lengths and padding |

Hard behaviours: commands are made of several statements without a transaction
around them, so each can fail half way; file operations are never covered by the
transaction; the process can die between any two; ids are reused; a cached id is
trusted without a look at the table; one CDB runs several handlers whose effects
must be undone together; the atomic commands read and write in separate
statements; a transfer of many pieces can stop at any of them; and a list is
read in pages while objects come and go.  PROJECT.json lists these hazards with the line
where each bites and the properties that watch it.

## 2. The modules

| Module | Models |
|---|---|
| `OsdStore` | the three tables, data files and `struct osd_device`; one action per `osd_*` handler call |
| `OsdStoreProofs` | theorems about `OsdStore`, with or without faults |
| `OsdFaultFreeProofs` | theorems about `OsdStore` as long as nothing fails by itself |
| `MCOsdStore` | instances of `OsdStore` for TLC |
| `OsdTarget` | the command layer, extending `OsdStore`: one action per handler call of a CDB, process death between and inside calls |
| `OsdTargetProofs`, `OsdCreateProofs` | theorems about `OsdTarget`: crashes and loops; creating commands |
| `MCOsdTarget` | instances of `OsdTarget` for TLC |
| `ByteStore` | abstract: what the data commands promise, an array of bytes with a size per object |
| `OsdData` | the contents of data files and the data commands, extending `OsdStore`; refines `ByteStore` |
| `OsdDataProofs` | theorems about `OsdData`: the refinement of `ByteStore`, undone creations |
| `Iteration` | induction and iteration over numbers, for proofs about loops |
| `MCOsdData` | an instance of `OsdData` for TLC |
| `AttrRegisters` | abstract: what the atomic commands promise, a register per attribute |
| `OsdAttrs` | attribute values and the atomic commands statement by statement, extending `OsdStore`; refines `AttrRegisters` |
| `OsdMulti` | lists, queries and member attributes, extending `OsdAttrs` |
| `OsdMultiProofs`, `OsdRegisterProofs` | theorems about `OsdMulti`: values, walks, queries; the refinement of `AttrRegisters` |
| `MCOsdMulti` | instances of `OsdMulti` for TLC |

### OsdStore

* `obj[pid][oid]` is the row's type or `ILLEGAL_OBJ`.  `attr` is the set of keys
  that have a row (values do not matter to the properties).  `coll` holds the
  rows `<<pid, cid, oid, number>>`.  `dfile` is the set of data files.
* `dbfile` says whether the database is still linked under `md/` and `root`
  whether the path in `osd->root` is valid: FORMAT empties `md/` first and frees
  the path last (osd.c:1755), so both can go wrong separately.
* `ic`, `ccap` and `sense` are the id cache, the current command attributes page
  and the outcome of the last command.
* Operators carry the names of the C functions.  `proposed_id`, `alloc_id`,
  `chosen_id`, `ic_after` and `bad_target` are the allocation code that
  `osd_create`, `osd_create_collection`, `osd_create_user_tracking_collection`
  and `osd_copy_user_objects` repeat.
* The UNIQUE constraint of `coll` replaces rows and its PRIMARY KEY aborts; both
  are in `coll_insert` and `coll_conflict`.
* A statement may fail when `Faults` is TRUE, or once the database has been
  unlinked under the running process (`DbMayFail`); a system call may fail when
  `Faults` is TRUE or the root path dangles (`IoMayFail`).  A handler stops at
  the first failure, and the action keeps what the earlier statements did
  (`Completed`).  The clean-up of a failed creation can fail in its turn,
  statement by statement and file by file (`osd_remove_tmp_objects`).
* A value comes to `osd_set_attributes` as a pointer and a length (`ValueForms`).
  A pointer with length 0 is refused (osd.c:2893), and every CDB passes a
  pointer: a deletion by length 0, which the comment at osd.c:2944-2948 speaks of,
  is only reached by callers of the handler with a NULL pointer.
* A failed presence check is reported like an absent object, because the code
  does not tell the two apart.
* `TypedSpec` restricts the initiator, not the target: commands go to objects of
  the type they are for, and the device is not formatted while in use.

### OsdTarget

A CDB carries attributes to set and pages to get in one of three formats
(`Requests`).  `cmd` holds the command in service: the stage (`set`, `get`,
`remove`, `undo`, `finish`), the object and list element the loop has reached,
and what the tables held before it, for the properties.  `txn` holds the tables
at BEGIN TRANSACTION.  `set_attr_list`, `get_attr_list` and `get_attr_page` are
single handler calls; `advance` moves the nested loops.  END TRANSACTION commits
on the error path as well, as the code does.  A malformed list is refused before
the transaction begins (`refuse_list`).

`crash` is the death of the process between two calls: SQLite rolls the open
transaction back, the files stay.  `crash_in_create` and `crash_in_remove` are
deaths inside the two handlers that also touch files.  Only the process dies,
not the machine: the database runs with `PRAGMA synchronous = OFF` (db.c:268),
which promises nothing after a power failure.  A failing BEGIN or END is an
assertion failure in the code, the same as a crash.

Left out of this module: FORMAT, the Collections page and tracking collections
(they are in `OsdStore`); COPY USER OBJECTS, because `cdb_copy_user_objects`
falls through to its error label whatever the handler did (cdb.c:616-623); data,
list, query and atomic commands (the modules below); the continuation segment.

### OsdData and ByteStore

`data[<<pid, oid>>]` is the file as a sequence of bytes, `call` the last request
with its reply.  `Namespace` is any command of `OsdStore`, which makes and removes
files.  `pread`, `pwrite` and `truncate` are the system calls; the file
system is full at `MaxLen` bytes, where a `pwrite` is short.  All three formats
are lists of `[off, len]` pairs: one pair, the pairs of a scatter/gather list, or
the pieces of a strided transfer (`vec_pairs`), read by `gathered` and written by
`scattered`, which stops at the first short piece.

* A contiguous read past the end is padded with zeros; a gathered one puts the
  next piece right behind the bytes it got (io.c:137); a strided one fails.
* The list of a gathered read may ask for fewer bytes than the length in the CDB,
  with which the result is compared (io.c:153).
* Once the file is open, any further call may fail (`read_failed`, HARDWARE_ERROR
  and OSD_ERROR).  `begun` is what a write, an append or a clear that breaks off
  leaves: the pieces before some piece, and the first bytes of that one.
* PUNCH moves the tail and then cuts the file, in two system calls; `punch_leaves`
  is what is left when any of them fails or the process dies.  The end of the
  range is a sum modulo 2^64 (`ULong`), and a range that wraps moves the tail up.
* `died` is the death of the process with the start that follows.
  `die_in_transfer` is one inside WRITE, CLEAR and APPEND, `die_in_punch` inside
  PUNCH, `die_in_set_length` behind the truncation, and
  `die_in_create_and_write` inside CREATE AND WRITE, which has no transaction:
  behind the row, behind the file, between two pieces, or in the removal that
  follows a failed write.
* `set_uiap` narrows the length to 16 bits, here modulo `ULen`.
* CREATE AND WRITE is creation, write and, on failure, removal.  The last two
  name the requested id, so a request with id 0 leaves its new object behind.

`ByteStore` has one action per command.  A command that succeeds has its whole
effect; one that fails, or dies, has an initial part of it; no other object
changes; new objects are empty.  The refinement mapping takes `live` to the data
files, `size` to the length of the file and `byte` to its contents continued
with zeros.  Where the code promises less, `ByteStore` does: lengths are exact
below 2^16; a read past the end may leave out the missing bytes; a PUNCH that
breaks off may have moved a first part of the tail without cutting the file
(`Moved`); a PUNCH whose range wraps keeps what lies before it and the other
objects (`BeforeKept`), and nothing is said of the rest; a CREATE AND WRITE that
breaks off may leave a new object, empty or, under the id that was asked for,
with the first part of its data.

### OsdAttrs and AttrRegisters

`val` is the value column of `attr`, `op` the atomic command in service with the
statement it has reached, `reply` the last answer.  The steps of CAS and FA are
read, initialise the counter if it has no row, write, set the attributes that
came along one by one, retrieve; GEN CAS and COND SETATTR have no initialisation.
Any statement may fail and the process may `die` before any of them.  Only the
attributes that come with a CAS or FA are set in a transaction (`set_attr_list`):
dying there rolls them back (`rolled_back`), and an attribute that is refused
leaves those before it.  Values are numbers below `Word` (2^64 in the code), `Long` for
a value of more than eight bytes, and `NoVal`.

`AttrRegisters` reads and writes a register in one step (`Apply`), at most once
between request and reply; a command that reports an error may have taken the
step or not, and may have set a first part of its attributes.  The mapping
(`present`, `registers`, `in_service`, `outcome`) shows registers as they have
been committed.  It takes a counter without a row to 0, which is what makes
the initialisation a stuttering step, and `live` to the objects there are, so
that a new object starts from initial values.

### OsdMulti

`page_of` is a page of ids: those from the initial id on that fit, and the first
that does not.  `mtq_list_oids_attr` packs objects and their attributes, any
number of them, row by row; the continuation is the first object for which there
is less room than the smallest entry afterwards, also if it has just been
reported in full (mtq.c:372-377).  A list with allocation length 0 either answers
nothing or ends in the assertion on its buffer, which comes first (`unbuffered`,
osd.c:2083).  A walk (`first_page`, `next_page`) is an initiator that continues where the
last page ended while other commands run; `walk` records what had to be reported
(`must`, the objects there from the start and not removed since), what was, and
whether anything came twice.  `mtq_run_query` joins one selection per criterion
by union or intersection, and `stored` is the comparison that decides whether a
row fits, with its unsigned difference.  `mtq_set_member_attrs` is the single
INSERT ... SELECT.

## 3. The runs

| Run | Instance | Checks | Result |
|---|---|---|---|
| `store_alloc` | 2 partitions, 2 object ids, CREATE of up to 2, no faults | `TypeOK`, `AllocationFresh`, `Contained`, `UserObjectHasFile`, `ErrorHasNoEffect` | holds, 5742 states |
| `store_faults` | 1 partition, 2 object ids, 2 lazily made attributes, faults | `AllocationFresh`, `Contained`, `AttrsOwned`, `IdCacheSound` | holds, 30416 states |
| `store_members` | `TypedSpec`, 4 object ids, 2 pointers | `MembershipSound`, `FilesMatchObjects` | holds, 3209 states |
| `target_create` | 2 object ids, 8 requests, crashes | `Contained`, `AttrsOwned`, `FailedCreateUndone`, `CreateDelivers`, `CompletedWorkSurvives` | holds, 383446 states |
| `target_faults` | 2 object ids, CREATE of up to 2, list requests, faults and crashes | `CreateDelivers`, `CompletedWorkSurvives` | holds, about 134500 states |
| `data_bytes` | 1 object id, 2 byte values, files of up to 3 bytes, failing calls, deaths | `DataTypeOK`, `ImplementsByteStore`, `FailedCreateAndWriteUndone` | holds, 571 states |
| `multi_commands` | 2 partitions, 3 object ids, faults and deaths | `AttrTypeOK`, `WalkComplete`, `ImplementsRegisters`, `PagesAdvance`, `AttrListSound`, `QueryAnswers` | holds, 64115 states |
| `store_tracking` | `TypedSpec`, 4 object ids, 1 pointer | `CreationKeepsMembers` | violated |
| `store_rmcoll` | 1 object id | `CollectionRemovalSparesObjects` | violated |
| `target_partition` | 1 partition | `FailedPartitionUndone` | violated |
| `target_sense` | 1 partition | `ErrorHasSense` | violated |
| `multi_members` | objects in 2 partitions, 2 object ids | `MemberAttrsOnly` | violated |

Every id below `IdLB` = 2 is as good as 1, so 1 stands for all of them; 0 asks
the target to choose.  Two objects are enough for a CREATE that fails in the
middle, for a removed id that is used again, and for the gap between a requested
id and the next automatic one; two partitions for the cache to miss.  Four
object ids hold two user objects and two collections, and moving a member
between them.  `MaxOid`, `MaxPid` and `MaxNumOid` are the only bounds; the
theorems remove them.  The views leave out `ccap` and `sense`, which no action
reads (the command layer reads `ccap` only while a command runs, and the view
keeps it then).

In `data_bytes` three bytes are enough for pieces that are in order, out of
order, overlapping or beyond the end, for a hole, for a disk that fills up in the
middle of a transfer and for a tail that is moved; 2^16 is 3 (`ULen`), so that
the lengths 3 and 4 are narrowed, and 2^64 is 16 (`ULong`), with lengths just
below it (`Lengths`), so that the end of a punched range wraps to each place in
the file.  Strides and pieces of up to 2 bytes
(`MaxStride`) make pieces that touch and pieces with gaps, whole and cut.  Few
states have many steps: each offers every command with every buffer, offset and
format.  The instance has one object, so that other objects are left alone is shown
by the proof, not by the run.

In `multi_commands` the initiators of a behaviour are of one kind, chosen at its
start: registers, lists, lists with attributes, or members.  The four do not
interact through anything but the namespace commands they share, and this way
the state counts add up.  2^64 is 3 (`Word`), so that sums wrap.  The allocation
lengths are the boundaries of the code: nothing, less than a header, room for
one id or two, a room for entries that is not a multiple of 8, one from which on
`PagesAdvance` speaks; for QUERY no match, one that does not quite fit, and one
that does.  The steps of the list workloads that would leave a
file without its object, or the reverse, are left to the others: lists do not
look at files.  The view leaves out replies, which no action reads.

Deadlock is checked in every run.

No run assumes fairness and no liveness is claimed: a command is a straight line
of calls in one thread.  Where the code can go on for ever, in a walk whose pages
do not get further, the step property `PagesAdvance` says when they do.

### What the violated properties show

* `CreationKeepsMembers`: `coll_copyoids` inserts every member as pointer number
  0 (coll.c:132), and the table replaces on a conflict of (pid, oid, number).
  The second tracking collection over a member takes it out of the first, while
  osd.schema:38-39 calls the mapping many-to-many.
* `CollectionRemovalSparesObjects`: `osd_remove_collection` checks that some
  object has the id, not that it is a collection as osd.c:2730 says.  A user
  object loses its row and attributes; its file stays and blocks the id.
* `FailedPartitionUndone`: the clean-up of CREATE PARTITION calls `osd_remove`
  with object id 0, which that handler rejects, against cdb.c:724.
* `MemberAttrsOnly`: the statement of SET MEMBER ATTRIBUTES selects by collection
  id and not by partition (mtq.c:471-473), so the object ids of the members of a
  collection with the same id elsewhere get rows in the addressed partition,
  whether it has such objects or not, against mtq.c:429.
* `ErrorHasSense`: `cdb_create_collection` drops the sense bytes of the handler,
  against cdb.c:2059-2060.

## 4. The proofs

All theorems hold for every `IdLB` > 1, every `MaxPid`, `MaxOid` and
`MaxNumOid`, every set of attributes and pointers (`IdAssumption`,
`InputAssumption`), and where nothing else is said with or without faults.  What
further assumptions there are describe requests, not the target:
`RequestAssumption` and `ListAssumption` say that requests and lists are of their
types.  `InitiatorAssumption` is a restriction: it leaves the counters to CAS and
FA, while `osd_gen_cas` takes any attribute (osd.c:3265-3286).  GEN CAS tells a
counter without a row from one that is 0, so the mapping of the registers, where
both are 0, would not hold for it.  `AttrAssumption` says that the
counters are not the lazily made attributes,
`DataAssumption` that buffers, lists of pieces and lengths are of their types, that
a list of pieces is not empty, and that 2^64 exceeds the size of the file system.
TLC evaluates all of them.

| Module | Theorem | States |
|---|---|---|
| `OsdStoreProofs` | `TypeCorrect` | `Spec => []TypeOK` |
| | `StoreSafe` | `Spec => []StoreInv` |
| | `IdCacheAlwaysSound`, `ContainedAlways`, `AttrsOwnedAlways` | `Spec => []IdCacheSound`, `Contained`, `AttrsOwned` |
| | `AllocationAlwaysFresh` | `Spec => []AllocationFresh` |
| `OsdFaultFreeProofs`, with `~Faults` | `UserObjectsHaveFiles` | `Spec => []UserObjectHasFile` |
| | `ErrorsHaveNoEffect` | `Spec => ErrorHasNoEffect` |
| | `MembershipsSound`, `FilesAlwaysMatch` | `TypedSpec => []MembershipSound`, `FilesMatchObjects` |
| `OsdTargetProofs` | `TargetSafe` | `TSpec => []TargetInv` |
| | `TargetContained`, `TargetAttrsOwned` | `TSpec => []Contained`, `AttrsOwned` |
| | `WorkSurvives` | `TSpec => CompletedWorkSurvives` |
| `OsdCreateProofs` | `CreationsDeliver` | `TSpec => CreateDelivers` |
| | `FailedCreationsUndone`, with `~Faults` | `TSpec => FailedCreateUndone` |
| `OsdMultiProofs` | `MultiSafe`, `ValuesSafe` | `MSpec => []MultiInv`, `AttrTypeOK` |
| | `WalksComplete` | `MSpec => []WalkComplete` |
| | `WalksAdvance` | `ListSpec => PagesAdvance` |
| | `AttrListsSound` | `ListSpec => AttrListSound` |
| | `QueriesAnswer` | `MemberSpec => QueryAnswers` |
| `OsdRegisterProofs` | `RegistersImplemented` | `RegisterSpec => ImplementsRegisters` |
| `OsdDataProofs` | `DataTyped` | `DSpec => []DataTypeOK` |
| | `BytesImplemented` | `DSpec => ImplementsByteStore` |
| | `StoreSafeUnderData` | `DSpec => [](TypeOK /\ StoreInv)` |
| | `FailedWritesUndone`, with `~Faults` | `DSpec => FailedCreateAndWriteUndone` |

**The store.**  `AllocationFresh` is about the next command and is not inductive:
a stale cache entry for a partition whose turn comes later breaks it.  What the
handlers preserve is `IdCacheSound`, that the cached id lies above every object
of the cached partition.  `StoreInv` is `IdCacheSound /\ Contained /\
AttrsOwned`, and is inductive next to `TypeOK`: `Contained` is needed because
`bad_target` looks at the partition's row only, `AttrsOwned` because lazy
initialisation and SET ATTRIBUTES insert rows after a look at the object.
`AllocAbove` carries `IdCacheSound` over to the id the target would choose, on a
cache hit and on a miss; each handler has one lemma for its types (`CreateType`,
...) and one for `StoreInv` (`CreateKeeps`, ...).

**Without faults.**  `ServedInv` adds that the database file stays linked, which
takes failing statements away also after a FORMAT.  A dangling root still makes
file operations fail, so for any initiator only one inclusion holds, user
objects have files; `ErrorHasNoEffect` needs it because an undo unlinks.
`TypedInv` has both inclusions, the root path set, and no collection or user
object in the row of the partition itself (`ZeroRows`).

**The command layer.**  `TargetInv` relates the command in service to the tables:
the loop variables lie among the objects of the command, an open transaction
holds nothing but attribute rows over what it would be rolled back to, and what
was there before the command is still there unless it is a removal that names
it.  That is what makes `CompletedWorkSurvives` a step property: an undo names
only objects that `cmd.before` does not have.  `DeliverInv` says which objects
and attributes the two nested loops have passed.  `HealthInv` says that database
and root stay, and that an id the target gives out is one its own undo accepts;
`UndoOK` that whatever a creating command has changed belongs to the objects it
still has to remove.

**Values, walks and queries.**  `MultiInv` is about `MSpec`, where `AttrsOwned`
does not hold: SET MEMBER ATTRIBUTES breaks it (`multi_members`).  It keeps the
types of the tables, that rows and values go together, what the command in
service has read, and what a walk has done: everything in `must` has been seen
or lies at or behind the continuation, and without attributes what has been seen
lies before it.  That 0 can mean "no continuation" needs `ZeroFree`, that no user
object, collection or member has id 0.

A page with attributes is packed object by object, a recursive function like the
loops below.  `Covered` is what the rows up to object o leave: all initialised
objects from the initial id on are on the page with their values, up to the
continuation if there is one (`CoverMore` for one object, `PageCovers` for the
page).  The room may be anything, also less than an entry: the first object that
is cut becomes the continuation and is repeated whole.  `InPlace`, that values
follow their objects, rests on the header of an object and the smallest entry
having the same size: an object without room leaves none for its value.

`PagesAdvance` is about the first object of a page: with the room it asks for,
that object and its entries leave room for the smallest entry, so it is not the
continuation, and no earlier id can be.

`QueriesAnswer`, `AttrListsSound` and `WalksAdvance` are about the initiators that
work on members and those that list (`MemberSpec`, `ListSpec`): a register step
leaves the last reply in place while the tables move on.

**Registers.**  `RegistersImplemented` is about the initiators of registers, in
any interleaving with creations and removals, failures and deaths.  `RegisterInv`
adds `ServiceOK` to `MultiInv` and `StoreInv`: the value a command has read is
still in the row when it writes; the object it works on is still there; a
transaction is open only between the attributes of a list, where the table is
the committed one after the first n entries.  Each step of the detailed command
then is the abstract request, its `Apply`, its reply, or a stutter: the lazy
initialisation is one because a counter without a row is a register with 0.

**Data files.**  `DataInv`, that contents are bytes of at most `MaxLen` and that
only files have any, is all the refinement needs from the state: the work is in
the loops over pieces.  They are recursive functions on `0 .. n`, and `Iteration`
has the induction for them: its lemmas speak of sets and functions, as the
library's induction theorems take operators, which the provers cannot
instantiate.  `Ends` counts the bytes of the buffer that the first k pieces take,
so that byte `Ends[k - 1] + i` of the buffer is byte i of piece k (`PieceOf`,
`PositionsAre`).  With it

* `Wrote` says what a file is after the first m bytes of a transfer, the last one
  to a position counting.  `WroteMore` adds a piece, `ScatteredWrites` the whole
  loop, short pieces included, and `WroteIsPut` is the abstract `Put`;
* `Present` collects the bytes below the end of the file, which is what a gathered
  read returns (`GatheredIsPresent`) and the abstract `There` (`ThereIs`);
* `VecIsPairs` says that a strided transfer is a list of pieces that together take
  the whole buffer, `DscptrsCover` that the stretches of READ MAP add up.

`BegunWrites` says that every file of `begun` is what the first m bytes of the
transfer make it, for some m (`FullPieces` for the pieces that are whole,
`FirstPart` for the last one): the abstract commands that break off have their
initial part from there.  Each command then has one lemma for its step
(`WriteStep`, ..., `DieStep`), for success, failure and death.
`StoreSafeUnderData` sorts the steps of `DSpec` by what they do to the tables
(`StepShapes`): only reply, open again, a command of `OsdStore`, CREATE AND WRITE
with its undoing, or CREATE AND WRITE that the process does not survive
(`HalfCreated`).  For `FailedWritesUndone` the undoing deletes attributes and
memberships of the id.  There are no attributes to lose, because attributes have
owners (`StoreInv`) and the id has none; memberships may be left from an object
that REMOVE COLLECTION took away, and these go.  The database stays linked
(`DataKeepsDatabase`), so no statement fails.

Model-checked only: `ImplementsRegisters` for the workloads that are not about
registers: SET MEMBER ATTRIBUTES writes without a look at the object, and
`RegisterInv` needs that attributes have owners.  Liveness under fairness, and
ENABLED, are out of the prover's reach; no property of the project needs them.

## 5. What is not modelled, and where the properties stop

Not modelled:

* generated attributes other than the logical length, the directory and
  wild-card retrievals, and the layout of retrieved pages;
* attributes embedded in data, list and query commands, and the parsing of the
  continuation segment; a WRITE that carries more than one segment descriptor;
* attribute lists whose last entry claims more bytes than the list has left: the
  unsigned `list_len` wraps and the loop reads on behind the list
  (cdb.c:352-354);
* gathered reads whose list asks for more bytes than the CDB length, which overrun
  the buffer; READ MAP gets a buffer from the command layer only if attributes are retrieved
  with it (cdb.c:2070-2110): the model has its answer and the assertion it ends in
  otherwise, without the condition that decides;
* deaths inside CREATE, REMOVE and the other namespace commands in `OsdData`: they
  are in `OsdTarget`, with files that exist or not but no bytes;
* strided transfers with a length of 0 or above the number of bytes: the loops
  of io.c do not end on them;
* the byte order of counters in the database and values of 1 to 7 bytes in them
  (SET ATTRIBUTES gives counters in `OsdMulti` a value that is absent or too long);
* the root object's own attribute rows; ids of 2^63 and above, which SQLite
  stores as negative numbers, and the wrap of requested id 2^64-1;
* the cryptographic fields, which the target ignores; SET KEY, SET MASTER KEY and
  the pass-through commands, which report that they are not implemented, as do
  the clone, snapshot and GET or REMOVE MEMBER commands;
* the Panasas backend, the D-Bus statistics, the iSCSI front end, utilities and
  test drivers; power failures.

In the model as the code has it, and outside what the properties say:

* a LIST with a list id starts over instead of at the continuation
  (osd.c:2099-2104); `WalkComplete` is about continuing by the initial id;
* in a LIST with attributes, the entries of an object that was never initialised
  go to the object before it, or end in the assertion of mtq.c:411;
  `AttrListSound` excludes them;
* a list id lies in the bytes in which `exec_service_action` expects the length of
  a continuation (cdb.c:947, 1536): one that is not 0 is refused unless a proper
  continuation of that length follows.  The model has both outcomes
  (`list_refused`, `osd_list` with a list id);
* a page of LIST with attributes that one object fills up to less than 16 bytes
  has that object as its continuation again; `PagesAdvance` excludes pages with
  so little room;
* in what order SQLite gives equal rows: `put_rows` takes an object's own row
  first, as the SELECTs of a UNION ALL are merged (mtq.c:290 orders by object id
  only), and `listed` takes members in the order of their ids (coll.c:127 has no
  ORDER BY; the indexes of the table give it);
* QUERY joins the attributes of any partition (`coll.pid = coll.pid`, mtq.c:95).
  It compares the bytes left, alloc - 5 - 8r for row r, with 8 as unsigned
  numbers (mtq.c:169): an id is stored if the room begins to have a place for it,
  so that it may reach 7 bytes beyond the allocation length, and the
  difference wraps for row r with 8r > alloc - 5.  `QueryAnswers` says which ids
  are stored for every allocation length; it excludes queries without criteria,
  collections whose member ids have attributes in another partition, and more than
  (alloc + 3) / 8 matches, where the wrap begins;
* GEN CAS puts a value where there is none whatever the comparison says, and
  COND SETATTR then skips the other attributes as after a failed comparison
  (cdb.c:1303-1355); `AttrRegisters` says the same;
* GEN CAS without a proper list frees a pointer that was never set (cdb.c): the
  command answers or the process dies;
* an attribute that is refused after a CAS makes the command an error although
  the swap is done: `AttrRegisters` lets a failed command have its effect.

## 6. Plan

Done: the object store, the command layer, object data, attribute values and the
atomics, lists, queries and member attributes; two abstract specifications; the
theorems above.  Left, in this order:

1. `RegistersImplemented` for all initiators, with an invariant that does without
   `AttrsOwned`.
2. Embedded attributes of data commands in `OsdTarget`; the generated attributes.
