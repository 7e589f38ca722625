# fb-cpp in TLA+

fb-cpp is a C++ wrapper of the Firebird client library. This project models its
concurrent parts, the life of a transaction and of what is used under it, the
conversions between C++ values and a message's columns, and the loop that waits
for a service. TLC checks the models on small instances; TLAPS proves most of the safety
properties for every instance. Source paths below are relative to `src/fb-cpp/`.

Contents: the system (1), the modules and how they were built up (2), the modules
and how they follow the code (3 to 8), the runs (9), the proofs (10), what is left
out (11), disagreements between code and documentation (12), how to run it (13).

## 1. The system

Every object wraps one interface of the client library and is used by one thread
at a time, with two exceptions: `AttachmentPool` is shared by threads, and
`EventListener` is called back by a thread of the client library and owns another.

| Component | State | Operations | Interacts with | Hard behaviours | What makes it correct |
|---|---|---|---|---|---|
| `AttachmentPool`, `PooledAttachment` | `entries`, `available`, `inUse`, `pending`, `closed`, mutex, condition variable; the lease's pointer | `acquire`, `tryAcquire`, lease `release`/move/destruction, `close`, destructor, eviction | creates, pings, resets, destroys `Attachment` | every connect, ping, reset and disconnect happens outside the lock; timeouts; failing connects, pings and resets; `close` under load | one owner per connection, exact counters, never above `maxSize`, nothing put back after `close`, no dirty session pooled, no lost wakeup, every call returns |
| `EventListener` | flags `listening`, `running`, `first`; queue; handle; event buffers; dispatcher thread | constructor, `stop`, `handleEvent`, `dispatchLoop` | `Attachment::queEvents`, the client's event thread, the user's callback | callback before the constructor is done, callback during `stop`, `stop` from the callback, failing renewals | each posted event reported once, nothing queued is dropped, no registration left behind, `stop` returns |
| `Attachment` | handle | connect, `ping`, `resetSession`, `disconnect`, `dropDatabase`, one-shot queries | used by all others | `detach` that throws | a handle is set exactly while attached |
| `Transaction` | handle, `TransactionState`, `isMultiDatabase` | start, `commit`, `rollback`, retaining forms, `prepare`, move, destructor | `Attachment`, `IDtc` | a request refused half-way, lost connections, prepared but unresolved | each branch ends alike once prepared; a destroyed object leaves nothing active |
| `Statement` | statement and result-set handles, input and output message, descriptors | prepare, `execute`, fetches, `set*`/`get*`, `free`, move | `Attachment`, `Transaction`, `RowSet`, `Batch` | failing close before free, re-execution with an open cursor, a refused setter | a row read is the row fetched; a value read is the value bound |
| `RowSet`, `Row` | buffer, count | fetch up to n rows, access | `Statement` | boundary between two row sets | every row once, in order |
| `Blob` | handle, id | `read`, `write`, segments, `seek`, `cancel`, `close` | `Transaction` | chunks of 65535 bytes, partial and empty segments | what is written is read back, whole |
| `NumericConverter` | none | scaled integer and floating conversions, text | `Statement`, `Row` | limits of each width, rounding | the nearest value, or an error |
| `CalendarConverter` | none | date, time, time zone conversions, text | `Statement`, `Row` | limits, fractions, midnight in UTC | inverse of each other |
| `Exception`, `StatusWrapper` | copied status vector and strings; a flag and a status | copy, patch, parse; clear, set, check | every call | string arguments by position, errors left over | the copy means what the original meant, and belongs to its call |
| `ServiceManager`, `BackupManager`, `DatabaseManager` | handle | attach, start, `waitForCompletion`, disconnect | the service manager | order of response items, empty answers | all output delivered, the wait ends when the service does |
| `Batch` | handle, completion state | `add*`, `execute`, `cancel`, `close` | `Statement` | errors per row, inside the server | no call on a closed handle |
| `SmartPtrs`, `Client`, option classes, `StructBinding`, `types` | a pointer, configuration | getters, setters, compile-time traits | all | none | nothing a model would tell by itself |

## 2. The modules

| Module | Models | Uses | Proofs |
|---|---|---|---|
| `AttachmentPool`, `LeasePool` | the pool, and what it promises | | `AttachmentPoolProofs` |
| `EventListener` | the listener, its dispatcher, Firebird's thread | | `EventListenerProofs` |
| `Transaction` | a transaction over several databases | | `SessionProofs` |
| `Cursor` | a Statement's cursor, its RowSets | | `SessionProofs` |
| `Blob` | writing and reading a blob | | `SessionProofs` |
| `Session` | a Statement or a Blob under a Transaction | the three above | `SessionProofs` |
| `Numeric`, `Calendar`, `StatusVector` | the converters and the exception, as operators | `Powers` | `ConverterProofs`; of `StatusVector`, `ConversionsProofs` |
| `Conversions` | one call of a converter at a time | the three above | `ConversionsProofs`, on `ConverterProofs` |
| `Fields` | one column: what a setter stores, what a getter reads | `Numeric`, `Calendar` | `MessageProofs`, on `ConverterProofs` |
| `Message` | the parameters and the row of a Statement | `Fields` | `MessageProofs` |
| `ServiceManager` | an action of a service and its output | | `ServiceManagerProofs` |

`DataLemmas` has the lemmas about sequences and recursion that several proofs need. Each
`MC...` module gives the constants small values. What could come next: floating-point numbers whose powers of two the prover can reason about
(`FloatIsNearest`), and a model of `Batch` with the server it talks to.

## 3. `AttachmentPool`

A step is what one thread does between two points where the code locks, unlocks or
blocks. `pc[t]` says where the call of thread `t` is, `mutex` who holds the
`std::mutex`, `waiting` who sleeps in `availableCondition`.

| Code (`AttachmentPool.cpp`) | Actions |
|---|---|
| `acquireImpl`, 149-258 | `AcquireRefused`, `Acquire`, then per iteration the eviction, and one of `TakeAvailable` (`Ping`, `PingAccept` / `PingReject`, `PingRelock`), `Reserve` (`Connect`, `AddEntry` / `ConnectFailed`), `GiveUp`, `Wait` (`WakeUp` / `TimeOut`) |
| `evictLocked`, 260-293 | `EvictScan`, `EvictEnd`, `Disconnect`, `EvictRelock` |
| `PooledAttachment::release`, `release`, 295-339 | `Release`, `ReleaseCheck`, `ResetSession`, `ReleaseLocked`, `ReleaseNotify`, `Disconnect`, `ReleaseEnd` |
| `close`, destructor, 87-147 | `Close`, `Destroy`, `CloseOne`, `Disconnect`, `CloseRelock`, `CloseEnd` |
| moves of a lease (`AttachmentPool.h` 246-289), a holder that disconnects | `MoveLease`, `HolderDisconnects` |
| server and clocks | `Break`, `IdleTimePasses`, `LifetimePasses`, `DeadlinePasses` |

Data that is abstracted: a connection is an identity, reused once its object is
destroyed; `conn` says what its handle is worth. Time is three facts that become
true in any order: `late`, `idle`, `aged`. `closed` is read without the mutex in
`release`, so a racing thread may see either value (`SeesClosed`); so a reset may
run or be skipped after `close()`. `acquire` and `tryAcquire` differ only in how a
failure is reported.

`LeasePool` is what callers rely on: each connection idle, with one thread, or
absent; at most `Limit` present; none given back once shut. The refinement mapping
puts an entry where the code has it: in the deque, with the thread that leases it
or whose call works on it, or nowhere once extracted (`Place`).

## 4. `EventListener`

Threads `owner` (constructor, `stop`), `firebird` (delivers callbacks one at a
time), `dispatcher` (runs the user's callback, which may call `stop` too). Each
critical section is one step, each call between two of them another.

| Code | Actions |
|---|---|
| constructor, `EventListener.cpp` 52-113 | `Construct`, `ConstructFails`, `Assign`, `StartDispatcher` |
| `stop`, 121-153 | `Stop`, `StopAgain`, `CopyHandle`, `Cancel`, `Detach`, `NotifyAll`, `Join` (`JoinDispatcher`, `JoinThrows`, `JoinAborts`), `Clear`, `Reset` |
| `FirebirdCallback`, `handleEvent`, 180-304 | `Fire`, `FireEmpty`, `CheckOwner`, `DecodeEvent`, `IgnoreEvent`, `NotifyDispatcher`, `Requeue`, `RequeueFails`, `StopListening`, `Install` |
| `dispatchLoop`, 306-338 | `Sleep`, `SpuriousWakeup`, `Dispatch`, `CallbackReturns`, `EndDispatcher` |
| database | `Post`, `DisconnectAttachment` |

An event buffer is one count per event. External, from the way the code uses it: a
registration fires once, as soon as a count has reached the count it was given, and
reports each count plus one (hence the first callback fires at once and is the
baseline); `cancel()` ends a registration, and so does releasing an armed one when
`ReleaseCancels` is TRUE. The handler of the *first* callback may run before the
constructor has stored the handle: this is an interleaving the code allows, and
`Assign` releases whatever is there. A registration that goes with its attachment may be
reported with an empty block, which `handleEvent` ignores without renewing anything.

`stop()` from the user's callback joins its own thread, and the join throws. If the callback does not catch
the exception, `dispatchLoop` does, with `assert(false)`: a build without assertions goes on
(`JoinThrows`), one with them aborts (`JoinAborts`, the process ends). `Asserts` says which build
it is. The run has them, so that
both happen: the liveness properties say that `stop()` returns, unless the process has aborted.

## 5. `Session`: `Transaction`, `Cursor`, `Blob`

`Transaction` follows `Transaction.cpp`. `tx[o]` is the C++ object: `handle`, and the
`state` member. `branch[d]` is the transaction in database `d` as the server has it. A
call is `Ask` (its checks, and the request is made), one `Grant` per open branch in any
order, then `Return` (the assignments after the request), or `Refuse` at any point:
the exception passes through the method, which has assigned nothing yet. So a `commit`
over two databases may be refused when one has committed. `LoseConnection` rolls an
active branch back, unknown to the client, and puts a prepared one in limbo. `Destroy`
is the destructor, whose rollback is `Ask` again and whose refusal is swallowed. `Move`
is the move constructor. Preconditions that the code only asserts are kept by the callers.

| Code | Actions |
|---|---|
| `Transaction.cpp` 135-196; `Transaction.h` 377-418 | `Construct`; `Move`, `Destroy` |
| `commit`, `rollback`, `commitRetaining`, `rollbackRetaining`, `prepare`, 198-262 | the actions of these names, `Return`, `Refuse` |
| `Statement.cpp`: constructor 34-85, `execute` 258-290 | `PrepareStatement`, `Execute`, `ExecuteNotClosed` |
| `fetchNext` and the scrolling fetches, 297-340 | `fetchNext`, `FetchRefused`, `fetchElsewhere` |
| `RowSet.cpp` 35-84; `Attachment.cpp` 125-153 | `NewRowSet`, `RowSetThrown`; `queryPreparedRowSet` (execute, then a RowSet that includes the current row) |
| `free`, 230-242; destructor | `free`, `FreeRefused`, `DestroyStatement` |
| `Blob.cpp` 38-65, 154-250 | `CreateBlob`, `OpenBlob`, `read`, `readSegment`, `write`, `writeSegment`, `seek`, `closeBlob`, `cancelBlob`, and `ReadRefused`, `WriteRefused` |

In `Cursor` a row is the number of the execution it came from and its place in the
result; `seen` collects the rows handed out, by `execute`, `fetchNext` and RowSets
in any mixture. In `Blob` bytes are numbered in the order the program hands
them over; a stored blob is a sequence of segments, each a sequence of bytes.

`Session` composes the three. A statement and a blob are used under a transaction that
goes through its own calls; when its branch in `Main` ends, the server closes cursor and
blob (`Dependants`) while the C++ objects stay, and what they are asked for next is refused.
`Usable` says which calls pass a valid transaction on.

Facts the model shows, which a caller should know: a one-phase `commit` over several
databases that is refused half-way keeps the state `ACTIVE`, and the destructor rolls the
rest back, so only a prepared transaction is atomic; a RowSet whose constructor throws
has taken rows that nobody gets; the row of a Statement stays readable after `fetchNext`
has answered FALSE; an empty segment ends `Blob::read` before the buffer is full.

## 6. `Conversions`: `Numeric`, `Calendar`, `StatusVector`

The converters are operators that return an outcome: a value, or the error thrown.
Loops are recursive functions that follow the code's iterations (`adjustScale` divides
and rounds at the first digit dropped, or multiplies until a limit; `numberToString` places
sign, zeros and point). The limit of each width (2^15, 2^31 ... in the code), the day and the
calendar are constants, so that every value of a small instance can be tried. A floating-point number is a count of units that
fits the significand; arithmetic on it rounds to nearest even. Only the call that the
C++ standard leaves undefined, the cast of a number that rounds to the limit of a 64-bit
target, has several outcomes. `TextMeansItsDecimal`, `RescaleIsNearest` and the others
compare with definitions by arithmetic, not by the code's steps.

A float's text has six decimals in the code, `FloatDecimals` here, whatever its size: `1e-10` is
printed as zero. So a float that was read as text and bound again is another number, and `FloatTextSettles` says
how far away, and that it stays there from then on.

`StatusVector` has the two passes of `DatabaseException` over a status vector, copying and
patching, as well as `extractSqlState`, and a `StatusWrapper` through a sequence of requests.
A pointer names its buffer, so a copy that keeps the pointers of the original shows. `ServerErrorsKept` is about the
vectors a server writes. The converters and setters throw vectors of their own (`OwnVectors`), which start with
the error's code and have no `isc_arg_gds` in front of it: what the copier makes of those is `own_errors`, section 12.

Facts: a date before year 0 passes the test for years before 1, because the year is unsigned there, and what the client
library makes of the huge year is unknown (`DayBeyond`, `DateBeyond`): `CalendarKept` claims that year 0 is refused and
nothing of what is read back for an earlier one. `setTime` stores the magnitude of a negative duration and drops what is finer than
a tick, where the other setters refuse; a decimal point before the sign (`.-5`) is accepted and
read as -5; a text whose digits do not fit 64 bits is refused even if its value fits.

## 7. `Message`: `Fields`

`Fields` says, for a column's descriptor, what each typed setter of `Statement.h` stores
(`Written`) and what each typed getter of `Row.h` answers (`Read`, `ReadVariant`, `getStruct`).
`Message` is the state: `inMessage` after a sequence of setters, `outRow` after `execute`, with
`bound` for what the program thinks it has bound. The server echoes the parameters
(`RETURNING`, `SELECT ?, ?`) or refuses; the code makes every output column null
before it asks.

| Code | Actions |
|---|---|
| `prepare`, `processMetadata`, `clearParameters` | `Prepare`, `ClearParameters` |
| `setNull`, `setBool` ... `setString`, `set`, `Statement.h` | `SetParameter` |
| `set(struct)`, `set(tuple)` | `SetStruct` |
| `getBool` ... `getString`, `get`, `Row.h` | `GetNumber`, `GetOther` |
| `get` of a variant, of a struct or tuple | `GetVariant`, `GetStruct` |

`TextRebinds` is about data that a column of its type can have (`OfColumn`). The message may hold
others: an opaque value is stored unseen, and `setTime` takes a duration of more than a day, which
`getString` prints and `setString` refuses to read. The run binds such a time too. Of a `FLOAT` or `DOUBLE` column only
`NaN` and the infinities are claimed: its numbers lose digits as text, which is `FloatTextSettles` of `Conversions`.

A fact: `get` of a variant stops at the first of its alternatives the column could be
converted to, and throws if this conversion fails, though another might succeed.

## 8. `ServiceManager`

`Start` is `startAction` (`backup`, `restore`, `setProperties`, `repair`) and the entry of
`waitForCompletion`; `Query` one round of its loop: the answer is a sequence of items, `Scan`
the loop over them, `GoesOn` the test behind it. `StdinRequested`, `QueryRefused` and
`CallbackThrows` are the ways it ends by exception. The service prints (`PrintLine`), ends, or
waits for input between any two queries. `OutputComplete` counts lines: what a verbose caller
was handed is what the service printed, and of this action only.

## 9. Runs

Every run but `session` checks for deadlock: a state without successor is a program
that hangs. `Destroyed`, `StopAgain`, `ConstructionFailed` and `Aborted` are the only ways the first two
components are finished. In `session` a transaction may be over and its objects destroyed:
one transaction per behaviour, and then the model really stops.

| Run | Bounds | Shows |
|---|---|---|
| `pool_safety` | 3 threads, 3 connections, `minSize` 1, `maxSize` 2, all options on, one lease per thread, one broken connection | `IInv` (with `TypeOK`), `OneOwner`, `Accounting`, `Capacity`, `ClosedStaysDrained`, `PooledIsUsable`, `IdleEvictionKeepsMin` |
| `pool_progress` | 3 threads, up to two leases each, no timeout, no ping | `NoLostWakeup`, `ImplementsLeasePool` |
| `pool_liveness` | 2 threads compete for one connection, fairness | `CallsReturn`, `ClosedPoolDrains` |
| `events` | 2 events, 2 posts, 3 registrations, disconnection, assertions, fairness | `ELInv` (with `TypeOK`), `CountsConserved`, `NothingDropped`, `AllCancelled`, `StopReturns`, `NotificationsDelivered`, `DispatcherEnds` |
| `conversions` | integers of 5 to 10 bits, significands of 5 and 7, texts of up to 4 characters, a day of 12 seconds, years -1 to 3, vectors of up to 3 arguments | `RescaleIsNearest`, `FloatIsNearest`, `TextMeansItsDecimal`, `FloatTextSettles`, `CalendarKept`, `ServerErrorsKept` |
| `message` | two columns, every column type, every C++ type | `TypeOK`, `SetIsAtomic`, `StructStopsAtFailure`, `ReadsBack`, `TextRebinds`, `NullStaysNull`, `VariantKeepsValue` |
| `session` | 2 databases, 2 owners of one transaction, 2 rows, 2 executions, chunks of 2 bytes, blobs of up to 4 | `TypeOK`, `PreparedIsAtomic`, `NoneLeftActive`, `RowsInOrder`, `RowIsCurrent`, `BytesConserved` |
| `service` | actions of up to 3 lines, fairness | `TypeOK`, `OutputComplete`, `WaitReturns` |
| `pool_timeout`, `events_registered`, `events_stopwaits` | smallest instance that shows it | one violation each, section 12 |
| `own_errors` | as `conversions` | one violation, section 12 |

Why the bounds are enough.

* Pool and listener. Three threads are needed for "one pings, one releases,
  one is woken"; a third connection lets a new one be created while an extracted one
  is still attached. Three registrations are needed for the constructor's, the one
  the first callback installs and the one the next callback installs while the
  constructor still holds its own. `MaxHeld`, `MaxBreaks` and `MaxPosts` are the only
  bounds in guards; they limit how much happens in a behaviour, not in which order.
  No lost wakeup is checked without timeouts, because with them a sleeper rescues itself.
* Session. Two databases are the least that a request can be refused between. RowSets of 0, 1
  and 3 rows over results of 0 to 2 are too small, exact and too large, before and after
  a single fetch. Buffers of 0, 1 and 3 with chunks of 2 are empty, partial and more than
  one chunk; the foreign blobs have segments longer than a chunk, and an empty one in the
  middle. There is one Statement or one Blob at a time, and only in a
  transaction of `Main` alone, because what the other databases do reaches neither.
* Conversions. The widths keep the order of the real ones: a double holds every INT16 and
  INT32 and not every INT64, so that INT64's limit rounds up as it does with 53 bits. All
  integers and all doubles of the small formats are tried. The calendar has two of each unit, and
  zones east and west whose offset crosses midnight. The years tried are one before the client library's calendar, 0,
  the first and the last that text can write, and one after it. A float has two bits less than a double: then a text
  of the decimals printed, rounded to a double and again to a float, is not carried past a neighbour. With 24 bits, 53 and
  six decimals no double lies so near to the middle of two floats; with one bit between them it does.
* Message. `Offered`, `Structs`, `Variants` and `Members` bound the arguments: each C++ type with values
  that fit, that round and that do not fit. A second column is there because a struct
  fails in the middle. After one read the row is forgotten (`Forget`) before the parameters
  change: the two messages share no bytes.
* Service. Three lines are enough for one to be unread when the service pauses, ends, or
  has already printed the next.

Symmetry of threads and connections is used in safety runs and in `pool_progress`, symmetry of
the objects in `session`: their properties treat all of them alike. It is never used under
fairness.

Fairness. `AttachmentPool`: a thread inside a call keeps running and gets the mutex
in the end (`SF` on its steps: `std::mutex` makes no promise, schedulers do); a
notified waiter wakes; a lease is released in the end, which the pool requires of
its callers; the clock passes deadlines. Spurious wakeups, breaks and new calls are
possible and never required. `EventListener`: each thread keeps running, a due
callback is made, the user's callback returns or aborts the process. Nobody is obliged to post or to stop.
`ServiceManager`: the caller's thread goes on (`WF` on `Query`, `StdinRequested`), the service ends
unless it waits for input (`WF` on `End`), and a server that has output does not say
"not ready" for ever (`SF` on `Answered`, a query that brings output if there is some).
Without the last one `waitForCompletion` polls for ever, for it has no timeout.

Each property has a mutant of the code's model that violates it, defined next to
the definition it replaces under the comment "Mistaken": a missing reservation, a
reset forgotten, a notification skipped, a flag not looked at again, a row kept, a chunk cut.

## 10. Proofs

`AttachmentPoolProofs` proves, for any finite sets of threads and connections, any
sizes and options:

* `SpecIInv`: `Spec => []IInv`. `IInv` strengthens the properties with: who holds the
  mutex (`MutexOK`), at which points a call has an entry (`EntryOK`) or entries to
  destroy (`DyingOK`), that the entries outside the deque are partitioned among the
  threads (`Owners`), that entries being created or destroyed are known to one thread
  and do not come back under another owner (`Objects`), what the counters count
  (`Counters`). `TypeOK` and `Capacity` are
  not inductive: nothing in them says that `pending` is positive when a call gives its
  reservation back or `inUse` when a ping fails (`Counters`), nor that the entry a call
  adds or removes is the pool's exactly when the counters say so (`Owners`, `Objects`).
* `TypeCorrect`, `CapacityHolds`, `OneOwnerHolds`, `AccountingHolds` follow from `IInv`.
* `ClosedStaysDrainedHolds` is a second induction, relative to `IInv`: after `close`
  only a thread in `CloseOne`'s loop may see a non-empty deque.

Its second half goes on from `IInv` with three inductions more:

* `PooledIsUsable` says nothing of an entry that is on its way
  back; `Returnable` adds that a release about to put one back has seen it reset, unless
  the pool or the attachment is closed, in which case `MustDiscard` stops it. With it goes
  `IdleEvictionKeepsMinHolds`: while a thread is in `evictLocked` it has the mutex, so no other
  thread removes an entry.
* `NoLostWakeup` speaks of one helper and is not inductive: two
  connections may be free and one helper may leave with one of them. `EnoughHelp` counts: while a
  thread sleeps, `maxSize` is at most the connections in use, those being created and the threads in
  `Helping`, which will look at the pool again or are about to notify. Every step that frees a connection
  adds a helper, every step that removes a helper takes one. The theorem assumes
  that no deadline passes (`Timeouts = FALSE`), as its run does: a notified thread
  that times out leaves without taking anything, and a thread beside it sleeps on until its
  own deadline.
* The refinement mapping of `ImplementsLeasePoolHolds` is `Place`: the deque, the thread answerable, or
  nowhere. `Placed` makes it a function of `Owners`; each step that moves an entry is one action
  of `LeasePool`, every other step leaves `Place` and `closed` alone.

Each conjunct of `IInv` has a lemma that every step preserves it, with one step of the
proof per action.

`EventListenerProofs` proves `SpecELInv` (any sets of events and registrations, any
number of posts), and from it `TypeCorrect`, `NothingDroppedHolds` and
`AllCancelledHolds`. `Phases` relates where the three threads are to the flags: a
stopping owner has cleared `listening`, a stopped one has a dispatcher that ended.
`ArmedHeld` says that every armed registration is in one of three handles, which is
why releasing the handles leaves none; `AllCancelled` follows because at the end two
of them are out of scope and the third is empty. `CountsConservedHolds` is an induction relative
to `ELInv`: `CountsInv` relates what was delivered, what is queued and the count last decoded to
the baseline. Its lemmas say what appending to the queue, and taking its head, do to the sum
over it.

`SessionProofs` proves, for any set of databases, any number of objects, results, RowSets and
executions of any size:

* `SpecTxInv`: `Spec => []TxInv`. Neither property below is inductive: whether a commit that
  is refused half-way splits a prepared transaction depends on what its owner may still do.
  `TxInv` adds that one object at most owns the transaction and its state tells the truth
  about the requests that returned (`HandleMeansOpen`), that a call under way belongs to an
  owner in the right state and has been granted where the branches say so (`CallOK`), that a
  branch is rolled back only by `rollback()` or the destructor (`RolledBackOnPurpose`),
  that once `prepare()` has returned the owner knows it and no branch is left that a lost
  connection or a destructor could roll back (`PreparedForGood`), and that an object that gave its handle up has ended its
  branches or been refused (`EndedEverywhere`).
* `PreparedIsAtomicHolds` and `NoneLeftActiveHolds` follow from `TxInv`.
* `RowIsCurrentHolds` is an induction of its own on `RowInv`, which claims the same of a Statement
  that was destroyed. Its lemmas say what an execution, and a RowSet that is filled or throws, make
  of the statement.
* `RowsInOrderHolds`, by `CursorInv`. The rows handed out say nothing of the next ones; `CursorInv` adds
  that they end where the server's cursor stands, and that each row of a reply follows the one before.
  A RowSet of any size appends a block of consecutive rows (`RowSetGood`), one that throws
  takes rows away and says so (`RowSetThrownGood`).
* `BytesConservedHolds`, by `BlobInv`: what was given is in the segments, once and in order,
  and what was taken, followed by what is left behind the reader's place, is the blob from where
  it was opened or positioned. `ChunksJoined` puts the chunks of a `write` together again;
  `ReadHanded` is an induction over the loop of `Blob::read`, for any buffer, chunk and segments.
* `TypeCorrect`: the three invariants imply the type invariant of `Session`.

`MessageProofs` proves, for any columns, widths, scales, arguments, structs and variants:

* What the converters answer fits the type they answer for (`IntToIntFits`, `FromCharsFits`, ..., of
  `ConverterProofs`, each loop by an induction over its iterations). Hence what a setter stores fits
  its column (`WrittenMeans`) and what a getter reads fits the type asked for, and is null exactly when
  the column is (`ReadMeans`, `VariantMeans`, `StructMeans`).
* `LosslessFirst`: in every order of preference the code has, the alternatives before
  the first that is without loss are without loss too; so a variant that has one takes one, and
  `LosslessRead` says its value is the column's (`VariantKeeps`).
* `MessageStays`: `Spec => []MessageInv`. The properties describe the last answer and are not inductive;
  `MessageInv` adds that the message holds null exactly where null is bound, and data that fit
  (`Stored`), and that the row is the message the server echoed, or nothing but nulls (`RowSent`).
* `ReadsBackHolds`: a `get` of the type that was bound reads the very number, text, date or time that was bound,
  whenever the column keeps all its digits; only a number can be refused.
  Each setter's own account of what it stores (`BoundReadsBack`) goes back through the getter's conversion:
  `IntegerReadsBack` takes the two rescalings together, `FloatReadsBack` the rounding to a
  significand and back, `CalendarReadsBack` the calendar and the zones. A C++ time of day that is negative or has part of a tick
  is left out, as the setter refuses the one and drops the other; so is a date before year 0 (`BeforeYear0`), and an integer column
  whose scale is past a float's powers of ten, which the getter refuses (`OutOfPowers`).
* `TextRebindsHolds`: what `getString` prints of a column's data, `setString` stores as the same data
  (`ColumnRebinds`, type by type). An integer's text is its digits with sign, zeros and point, and goes back as in
  `PrintedIsItself`. For a time of day, `FieldsAreTime` is the way opposite to `TimeReadBack`:
  the digits of the fraction are read as what is left of the ticks behind the second. A day of the calendar has a year
  of one to four digits (`DaysAreOfYears`, `DaysHaveDates`), and a zone of whole minutes passes the test `stringToTimestampTz`
  makes of its offset (`WholeMinutes`). Of floats it says that what is not finite comes back (`NotFiniteRebinds`).
* `MessageTypeCorrect`, `NullStaysNullHolds`, `VariantKeepsValueHolds`, and of a step
  `SetIsAtomicHolds` and `StructStopsAtFailureHolds`.

`ServiceManagerProofs` proves `NoLineLost` (`OutputComplete`) and `TypeCorrect`, for any number of lines.
`OutputComplete` speaks of a wait that returned; `SMInv` adds, of one under way, that what was handed over
is what was read, that no more was read than printed, and that a wait is for a service
that was started. `SawEach` and `AnswerSeen` are inductions over the items of an answer.

`ConversionsProofs` proves four properties for any widths, scales, calendars, zones,
dates, times, texts and status vectors:

* `RescaleIsNearestHolds`. `IntToIntMeans` of `ConverterProofs` says what `numberToNumber` answers: the
  exact or nearest number if the target holds it, else the error. Down, `RoundedDigits` shows why the
  first digit dropped decides alone: it is the first digit of the remainder, and half of the divisor is five
  in its place. Up, the loop that multiplies by ten and gives up at a limit is compared, round by round,
  with the product (`ScalesUp`): once outside the limits, no further round comes back.
* `CalendarKeptHolds`. Dates and times of day are numbers in mixed radix (`DateReadBack`, `TimeReadBack`); the
  digits of a fraction, padded to full width, are those that are read out of the ticks again (`DigitsReadBack`, an
  induction from the last digit to the first). A zone goes around the day and back (`ThereAndBack`); with a date it may
  reach the year after the last that text can write (`YearInUtc`), or year 0, which is refused, and never a day before
  year 0, because a text of year 0 is left out there. A date of C++ may have any year of `std::chrono`: year 0 is refused,
  an earlier one accepted, and of that the property says no more.
* `TextMeansItsDecimalHolds`. The property weighs each digit by the number of digits behind it; the code takes the last dot out,
  reads the rest from left to right and counts the digits after the dot. `WeightCounted` is the induction
  that relates the two sums, `DecimalsTaken` says which texts `std::from_chars` takes once the dot is gone,
  `SignsAgree` and `PlacesAgree` that sign and scale are those of the text; then `StringToIntMeans` rescales. In
  the other direction `DigitsOfMeans` says what digits a number is printed in, `NumberToStringMeans` where sign, zeros and point
  go for each scale, and `PrintedIsItself` that the reader undoes it.
* `ServerErrorsKeptHolds`. The copy of a status vector and the search for its SQLSTATE walk over arguments of two and of
  three words; `WalkExists` gives such a walk for any step, `VectorCopied` and `StateFound` follow the
  two of them argument by argument. The copy says `string` where the server counted, so all its arguments have two words and
  every other word is a kind; hence the k-th word that names a text's kind is followed by the pointer
  to the k-th text (`TextsCounted`, `PointersSet`), in the exception, its copy and what a
  move leaves (`ExceptionSays`). Of a wrapper, `RequestMeans` says that its state before a request does not
  show after it, and `RequestsMean` is the induction over the requests.

`DataLemmas` makes such inductions possible. The library's induction theorems take an operator,
which the provers here cannot instantiate; `SetInduction` is stated of a set of numbers instead, and
`RecursionExists`, `RecursionAgrees` and `DescentExists` of functions, so that a recursive function of a model
is first shown to exist and then unfolded. The other lemmas say what `RemoveAt`, `Tail` and
`Append` do to injective sequences and their ranges, and what `FlattenSeq` does to a concatenation
and where it puts each piece (`FlattenPlaces`).

Assumptions are the named `ASSUME`s of the modules: finite sets, `NoConn` and the
like outside them, `minSize <= maxSize`, `maxSize >= 1`, Boolean options; `Main` is a database;
sizes are numbers and `MaxChunk` is not 0; the limits of the integer types are in the order of their widths;
the columns that `prepare()` answers have types the library knows, and a value offered fits its
C++ type (`Typed`), as the compiler sees to. Of the calendar: its units are not 0, a year of
`std::chrono` (`-MaxYear` to `MaxYear`) is less than half a word and may be greater than the last that text writes, no zone is more than a day from UTC, and a text's fraction has no more digits than the pattern in the
code lets through. The texts read are sequences of characters. Of a status vector in `ServerErrorsKept`: its arguments are as the server writes them, a kind of text before a text,
a counted text with its count, any other kind before a number.

Only model-checked: all liveness properties, which the prover does not reach, `FloatIsNearest` and `FloatTextSettles`. Rounding to a
significand needs powers of two, and no backend of the prover knows anything of `2 ^ n`, not even that it
is a number. Besides, the two are not true of every value of the constants: they need significands wide enough for the
integer types beside them, and a float narrower than a double, as the real ones are and the run's are.

## 11. Not modelled

* `Batch`: each method passes one request on and keeps a handle; what becomes of the messages
  happens in the server.
* `SmartPtrs`, `Client`, option classes and the building of parameter blocks; I/O only.
* Moves of `Attachment`, `Statement`, `RowSet`, `Blob`, `ServiceManager` and `StatusWrapper`,
  which hand a handle over as `Transaction`'s does; `dropDatabase`; `Blob::getLength`; the message
  text of an exception, which the client library formats; `emitVerboseChunk`, which no
  answer reaches, because a caller with a callback asks for single lines.
* Texts of floats with an exponent, the sign of a zero, and the difference between NaN and the infinities;
  what the client library answers for a date outside its calendar.
* DECFLOAT columns as numbers and Boost's decimal types, which are calls into libraries.
* Failed memory allocations, thread creation that fails, wrap-around of the 32-bit
  event counters, and two owners that call `stop()` at once.
* Destroying an `AttachmentPool` while calls or leases are outstanding: the class
  forbids it, `Destroy` waits.
* What a lease holder does on the connection, except that it makes the session dirty
  and may disconnect it.

## 12. Disagreements found

| Run | Documentation | Code |
|---|---|---|
| `pool_timeout` | `tryAcquire` fails "if none becomes available" | `wait_for` reports a timeout and the call fails without looking at the deque again |
| `events_registered` | `isListening` is true if "currently registered" | the constructor's unsynchronised assignment releases the registration the first callback renewed |
| `events_stopwaits` | the destructor "waits for any background work" | only the dispatcher is joined; a callback may be inside `handleEvent` |
| `own_errors` | an exception's vector "should start with isc_arg_gds" (`test/Exception.cpp:54`) | the library's own vectors start with the code: `getErrorCode()` answers 0, those of one word are read behind their end, and the text of a conversion error is kept as a pointer to a string that is gone |

Further facts of the pool and the listener, where a reader may expect otherwise: more than
`maxSize` connections may be attached for a moment, while an extracted one is being
disconnected; nothing refills the pool below `minSize` once connections were discarded; the first
callback is taken as the baseline, and an event posted before it is not reported; `stop()` called from the
user's callback throws, as it joins its own thread (`EventListener.cpp:145`), and unless the callback
catches this it reaches `assert(false)` (`EventListener.cpp:335`), which aborts a build with assertions.

## 13. Running

    tlc -workers 2 -config MCAttachmentPool.cfg MCAttachmentPool
    tlapm AttachmentPoolProofs.tla

`events` and `session` take two to three minutes each, every other run less. `PROJECT.json` lists every run with its
properties, the mutants, the source lines of every definition, the hazards and the theorems.
