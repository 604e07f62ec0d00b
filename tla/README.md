# cachebash in TLA+

cachebash is a load tester for memcached: one process, some worker threads, each
with one blocking TCP connection and one libevent loop. A worker sends get and set
requests without waiting for the responses, pairs the responses with the requests
in the order they come back, and keeps latencies and sizes in histograms. This
directory models the program in TLA+, model-checks it with TLC and proves the
properties that matter most with TLAPS.

Contents: [parts of the system](#the-parts-of-the-system),
[modules](#modules-and-how-they-correspond-to-the-code),
[runs](#runs), [proofs](#proofs), [what the code does wrong](#what-the-code-does-wrong),
[not modelled](#what-is-not-modelled), [plan](#plan).

## The parts of the system

| Part | Code | State it keeps | Operations |
|---|---|---|---|
| Main thread | `cachebash.cc`, `config.cc` | `Config` | `ParseArguments`, then the WorkerManager's calls, then `StatisticsLoop` |
| WorkerManager | `worker_manager.cc` | the list of workers | `CreateAndInitializeWorkerThreads`, `Warmup`, `StartWorkerThreads` |
| WorkerThread, WarmupWorkerThread | `worker_thread.cc` | `request_queue_`, `last_send_time_`, its statistics collection, the event base | `MainLoop`, `SendCallback`, `ReceiveCallback`, `SendRequest`, `ReceiveResponse` |
| Connection | `connection.cc` | the socket | `SendRequest`/`WriteBlock`, `ReceiveResponse`/`ReadBlock` |
| Request, Response, packet format | `request.cc`, `response.h` | kind, key, value, send time | `ConstructRequestPacket`, `CalculateRequestSize`, the header fields read by `ReceiveResponse` |
| Generator | `generator.cc` | random state, the distribution | `GenerateNextRequest` |
| SizeKeyDistribution, WarmupSequence | `size_key_distribution.cc`, `warmup_sequence.cc` | the array of entries; a queue of them | `LoadFile`, `GetRandomEntry`; `HasNext`, `Next` |
| Statistic, Histogram | `statistic.cc` | sums, minimum, maximum, three histograms | `AddSample`, `MergeWithStatistic`, `Copy`, `Reset`, `GetQuantile` |
| StatisticManager | `statistic_manager.cc` | the merged collection | `StatisticsLoop` |

How they interact. The main thread calls everything up to the start of the workers.
A worker thread then lives alone: its event loop calls `SendCallback` and
`ReceiveCallback`, these call the Generator, the Connection and the Statistics
collection of the thread. The Connection talks to the server through blocking system
calls, so a callback may stop in the middle of a packet for as long as the server
likes. The StatisticManager reads and resets the collections of the other threads
without a lock. Nothing else is shared but read-only data (the configuration, the
distribution).

What is hard to get right, and where:

* **Pairing by order.** `opaque` is always 0 and nobody looks at it: the n-th response
  belongs to the n-th request only if `request_queue_` and the two byte streams never
  get out of step, over partial reads and writes, any interleaving of the callbacks,
  and a server that closes in between.
* **Blocking calls in an event loop.** A write that blocks stops the thread from
  reading; a server that blocks on its answer does not read.
* **One poll, two callbacks.** Both may be active at once; the order is libevent's.
* **End conditions.** `ReadBlock` at end of file, the two callbacks that decide
  together when a warmup is over, the loops of the binary search.
* **Boundaries.** Ranks of a quantile between two histograms; targets beyond the last cdf;
  blank and malformed lines and empty files; samples out of range; sizes that carry into
  the next byte of a header, and header bytes read as signed.
* **Time.** Two clock readings and a blocking call between deciding to send and
  storing when it was sent, on a clock that can be set back.
* **Phases instead of locks.** Main thread and workers share the configuration and the
  collections; only the order in which the main thread does things keeps them apart, and
  any call on the way may fail with workers already running.

What makes each part correct:

* *Connection*: the reader stays aligned with the responses (`FramingHolds`); a packet
  that fits never blocks the writer (`WriteNeverBlocks`), and thread and server never wait
  for each other (`NeverBothWait`); a failed call is never taken
  for a finished one (`SamplesWereServed`).
* *WorkerThread*: every request is in exactly one place (`ExactlyOnce`), answered with its
  own response (`MatchedResponses`) and in the end (`EveryRequestAnswered`); a receive
  callback finds a request (`QueueHasRequestWhileOpen`); each response is one latency and
  one get or set (`SamplesWereServed`); in all, `LoadPipeline`.
* *WarmupWorkerThread*: it ends (`WarmupEnds`, which fails) with nothing in flight
  (`WarmupLeavesNothing`).
* *SizeKeyDistribution, WarmupSequence*: the array is the file (`EntriesInFileOrder`), the
  warmup has each of its entries once (`WarmupCoversEntries`); a search ends
  (`SearchTerminates`), in the array (`SearchStaysInArray`), at an entry that covers the
  target (`ReturnsCoveringEntry`), the first one that does (`ReturnsFirstCoveringEntry`,
  which fails).
* *Pacing*: a thread keeps its interval (`ThreadKeepsRate`, `SendTimesApart`), and all
  threads together the rate (`RateMeetsTarget`, which fails).
* *Statistic*: moments, histograms and quantiles are those of the samples, whatever was
  copied, merged and reset (`MomentsMatch`, `SubSecondHistogramsMatch`, `QuantilesMatch`).
* *StatisticManager*: each sample is printed once (`CountsKept`), and in one interval the
  count goes with the histograms (`CountMatchesHistogram`); both but for what a merge
  does to the seconds (`MergedQuantilesMatch` of Statistic, which fails).
* *Main thread*: no worker runs before the options are read, all workers are created and
  the warmup is over (`ThreadsApart`); once it is the load starts, whole, or the process
  ends (`LoadStarts`), and with a runtime limit it ends (`RuntimeEndsLoad`, which fails).
* *Generator and packet format*: whatever sizes are drawn, the server reads out of a
  request's header exactly the packet that was written (`RequestInStep`), and the client
  out of a response's header exactly the response, or the process ends before it has read
  any of it (`ResponseInStep`).

`PROJECT.json` lists each of these under "hazards", at its line, with the properties
that would catch it going wrong, or the reason why there is none yet.

## Modules, and how they correspond to the code

```
Connection          <- EventLoop <- WorkerThread,  WarmupThread,  EventLoopInvariant
WorkerThread        <- WorkerInvariant <- WorkerThreadProofs
WarmupThread        <- CacheBash <- MainProofs
EventLoopInvariant  <- WorkerInvariant,  EventLoopProofs
EventLoopProofs     <- WorkerThreadProofs,  MainProofs
Exchange            <- MCExchange,  GeneratorProofs
SizeKeyDistribution <- MCSizeKeyDistribution,  GeneratorProofs
Pacing              <- PacingProofs
Statistic           <- MCStatistic,  StatisticProofs
StatisticManager    <- StatisticManagerProofs
CollectionLemmas    <- the proofs about worker, main thread, distribution and statistics
```
(`A <- B`: B extends A. WorkerThread has an INSTANCE of LoadPipeline.)

**Connection.** `WriteBlock` and `ReadBlock` loop over `write()` and `read()`. Packets are
counted in units; one system call moves one unit. A longer transfer is several such steps
in a row, so every partial transfer the loops can meet is covered, at the granularity of a
unit. `pc` says where the thread is: `"loop"`, inside `WriteBlock` (`"write"`), after it
(`"sent"`), in the first `ReadBlock` (`"header"`), in those that follow (`"body"`: extras,
key and value together are `body_size` units), after them (`"received"`), or in one of the
`dead_*` places where the process has ended: by a `LOG_FATAL`, by undefined behaviour or
by a trap. The magic number is the first byte of a response, and the first byte read
decides (`Magic`). A unit carries the id of its request and how many units of its packet
follow. The ids are ghosts: no guard reads them. The socket and the server are external:
two bounded streams and a server that answers one request at a time and does not read on
before its answer is written (as memcached does for one connection), with an answer of any
size in `BodySizes`. It may close at any moment (`CanClose`): with nothing unread the
client sees end of file (`"fin"`), otherwise a reset, and what was still on its way may be
lost. `Writable` is true from `LowWater` free units on, as a socket's is.

**EventLoop.** `Poll` marks the ready events active; until all of them have run there is
no new poll. `BeginSendRequest` .. `PushRequest` is `WorkerThread::SendRequest`: the
packet is written first, the request joins `request_queue_` afterwards.
`BeginReceiveResponse` is the first half of `ReceiveResponse`: the oldest request is
popped before its response is read; on an empty queue `front()` and `pop()` are
undefined, so the process dies or goes on with a request that is none (`Dangling`).
`Faults` says what may go wrong besides: the poll fails (`PollFails`), an entry of size 1
makes `GenerateRandomString` divide by zero in a send callback (`SizeTraps`), an answer
comes after 1000 seconds or more (`LateAnswers` of WorkerThread).

**WorkerThread.** The two callbacks in the steady state, with the samples they take. A
response is sampled as a latency first and as a get or set with its sizes then; a sample
that no histogram has a range for ends the process, after it was counted: a size of
`SampleLimit` or more after all of them, a late latency before the get or set
(`Counted`, `Unhandled`).
With a rate limit (`Paced`) a send callback may return at once after the first request;
how long it does is Pacing's subject. `MaxRequests` bounds the run: from then on a send
callback only returns. **LoadPipeline** is what a worker promises: requests 1, 2, 3, ...
go in, and leave first in first out, each with its own response. The refinement mapping
puts a request in the pipeline when it is pushed and takes it out when its response is
sampled.

**WarmupThread.** The same event loop with the callbacks of `WarmupWorkerThread`: the
sequence of entries is a counter `left`. Both callbacks test `HasNext` as the code does,
the wrong way round. `config_.warmup_sequence_` is set only with `-f`: `left = Undefined`
lets `HasNext` return either value, `Next` return any entry, or the process die.

**CacheBash.** The main thread around it. `phase` says where it is: `ParseArguments` takes
one option after the other from any command line of up to `MaxArgs` options, loading a
file, setting the number of workers or the runtime limit, resolving a name or ending the
program on the way; `CreateWorker` is one turn of
the loop that creates and connects workers; `RunWarmup` is the whole of `WarmupThread`'s
thread, run by the main thread; `StartWorker` is one `pthread_create`; `SleepForever` the
loop at the end of `StartWorkerThreads`. A `LOG_FATAL` on any thread ends the process
with all of its threads (`MainFails`, `WorkerFails`), at any point where the code has
one. What a running worker does is WorkerThread's subject; here it may end the process
at any time.

**Exchange.** One request from `GenerateNextRequest` into a packet, and one response out of
its header. A key, a value and extras are their sizes; header fields are bytes, put
together and taken apart as the code does: the request's by masks and shifts, the
response's from signed `char`s of which only those of the body size are masked. A
negative size ends the process in `new char[n]`. `Lengths` is
`rand() % (max_length - 1) + 1` for every argument, negative ones included; for 1 it has
no value and the process ends (`DivideByZero`). The response is any that a server may
send. Connection takes the packets from there, as units of a stream.

**SizeKeyDistribution.** The two passes of `LoadFile` (one counts all lines, the other
fills slots from lines that are not blank, and crashes on one that lacks a field), the
`WarmupSequence` constructor and `Next`, and the loop of `GetRandomEntry`. `Garbage`
stands for a slot nothing was stored in and for memory past the array; reading through it
may crash. A cdf is an integer in units of `1 / Scale`: targets are multiples of that
unit, so the comparisons come out the same for the integer part.

**Pacing.** The clock readings of `SendCallback` and `SendRequest` of several threads,
with time that moves between any two steps. `now` is the wall clock the code reads, which
`ClockSetBack` may set to any earlier time, any number of times; `uptime` is the time
that has really gone by, and the properties are about that. `IntersendExceeded` compares
`elapsed * n < Period`, which is `elapsed < (1 / rps) / n` without rounding.

**Statistic.** `AddSample`, `MergeWithStatistic`, `Copy`, `Reset` and `GetQuantile` of
single statistics, in whole ticks and integer counts. `Merge` gives the second histogram
the microsecond histogram of the other side, as the code does. `contents` is a history
of the samples a statistic stands for.

**StatisticManager.** `StatisticsLoop` against the workers' `AddSample`. Nothing locks the
collections, so each addition to a word of a statistic is a load and a store, and the
loop merges and resets the words one by one. The statistics of a collection do not touch
each other, so one stands for all of them: work on another is a pause. Four words of it
are kept: the count `s0_` and `n_samples_` of each histogram; the other sums and the bins
are more words of the same kind. A sample adds to the count and then to the histogram of
its value, if it has one (`After`). What a merge adds to a word is `MergedFrom`: to the
seconds the microseconds, as `MergeWithStatistic` does. The properties are therefore
about the words that are merged from their own kind (`MergedWords`), and the one that
compares the count with the histograms also supposes that no sample of a second or more,
and no negative one, was added (`subsecond`).
`owed` is what was added to a word and not printed yet, `raced` the words at which an
addition overlapped a merge and reset. The program as it is does not reach `StatisticsLoop`
(`StartWorkerThreads` sleeps for ever), so this is a model of the class and its contract:
it starts where the loop is called, with the workers running.

"map" in `PROJECT.json` names the lines of each definition.

## Runs

Deadlock is checked in every run but `pacing`: there the bound on time stops the model,
not the program. Where a process has ended, an explicit `Ended` step keeps the model going.

| Run | What it asks | Bounds |
|---|---|---|
| `worker` | A worker against a server that may close at any point, with latencies and sizes that end the process, a poll that fails, entries of size 1 and a rate limit. Pairing and accounting (`MatchedResponses`, `ExactlyOnce`, `QueueHasRequestWhileOpen`, `FramingHolds`, `SamplesWereServed`) hold in every state up to the end of the process. A write of at most `LowWater` units never blocks (`WriteNeverBlocks`), and but for larger ones thread and server never wait for each other (`NeverBothWait`). Every request is answered in the end and sampled with its own response, unless the connection or the process ends or a larger write blocks for good (`EveryRequestAnswered`); the thread implements `LoadPipeline` (`ImplementsPipeline`). The inductive invariant of the proofs (`IInv`) holds. | 4 requests; headers of 2 units, bodies of 0 or 1; gets of 1 unit, sets of 2, 3 and 4; `LowWater` 2, buffers of 3 and 2 units |
| `warmup_empty` | The main thread over every command line of up to two options: the warmup ends, where it can, with nothing in flight (`WarmupLeavesNothing`) and no response paired wrongly (`WarmupMatched`), whatever undefined reads return; then the load starts, whole, or the process ends (`LoadStarts`), and no worker runs before (`ThreadsApart`). | files of 0 and 2 entries, or none; 0, 1 or 2 workers; 3 requests of one or two units; the server may close, any call and the poll may fail |
| `exchange` | Requests of both kinds into packets and responses out of header bytes: both sides go by the same sizes (`RequestInStep`, `ResponseInStep`). | sizes on either side of each byte's boundary and of the sign bit |
| `distribution` | Every file of up to 3 lines, blank and malformed ones included and in any order, and every sorted file of up to 6 entries: loaded in file order (`EntriesInFileOrder`), queued for the warmup, each entry once (`WarmupCoversEntries`), searched for every target (`SearchStaysInArray`, `ReturnsCoveringEntry`, `RangeHalves`, `SearchTerminates`). | `Scale` 3: cdf values 0 to 3, targets 0 to 2 |
| `pacing` | Two threads and a wall clock that moves or is set back between any two steps: each keeps its own interval in real time (`ThreadKeepsRate`, `SendTimesApart`) and is silenced no longer than the clock was set back (`SilenceBounded`). | 7 ticks, a period of 5: an odd period does not divide evenly among the threads |
| `statistic` | Every sequence of samples, copies, resets and merges of two statistics: moments (`MomentsMatch`), the sub-second histograms (`SubSecondHistogramsMatch`) and quantiles (`QuantilesMatch`) are those of the samples. | 4 bins, 7 values (negative, each histogram, out of range), 3 samples per statistic |
| `manager` | Two workers add samples while the loop merges, as the code does, and resets: in the count and the histograms below a second a sample is printed exactly once unless its addition overlapped a merge and reset (`CountsKept`); with all samples below a second, count and histograms of a printed copy are torn by at most one sample of each worker (`CountMatchesHistogram`). | 3 samples, 2 intervals |
| `found_*` | One finding each; see [below](#what-the-code-does-wrong). | |

Why the bounds are enough. In the worker four requests give one in hand and a queue with
an oldest, a middle and a newest entry; the buffers are smaller than what the requests put
in them, so both sides block; headers of 2 units, bodies of 0 and of 1, put a packet
boundary at every place of a partial read; the sets are as large as the low-water mark,
between it and the buffer, and larger than the buffer, and the last two do block thread
and server on each other. The proofs then remove the bounds: they hold for every value of
the constants. In the distribution 6 entries need three turns of the search on either side
of the middle; `Scale` 3 has a target on, below and above an entry's cdf and entries with
equal cdf values. In the statistics 3 samples fill one histogram each, or one bin three
times, and ranks 0 to 4 quarters fall on, before and behind each histogram's boundary. In
the manager two intervals let an addition that began in one end in the next, and three
samples are more than two workers can be torn by, so one left in a histogram that is not
reset shows. In the main thread two options are a `-f` given twice, a `-f`, a `-w` or a
`-t` together, or one of them before a `-h`; two workers are the least of which one can
run when the other's start fails. In the exchange the sizes 127, 128, 255, 256, 384,
32768, 65535 and 65536 set each byte's sign bit and carry alone and together, and 65527
with the header's 8 extras is the first body that carries. In the pacing 7 ticks are room
for three requests of one thread and a clock set back between the first two.

Fairness. The thread's steps are weakly fair as a whole: the operating system schedules
it, and within a batch libevent runs every active callback, so one condition on the
disjunction is enough and no callback gets a condition of its own. The server's reading
and answering is weakly fair, its closing is not. In the distribution a search under way
goes on; nothing obliges the generator to search again. In `warmup_empty` and
`found_runtime` the main thread's steps are weakly fair and no worker's are, and nothing
obliges a worker or the server to fail. The runs of safety properties alone have no
fairness.

## Proofs

`tlapm` checks these for every value of the constants that satisfies the named assumptions
(`ConnectionAssumption`, `EventLoopAssumption`, `WorkerAssumption`, `WarmupAssumption`,
`CacheBashAssumption`, `DistributionAssumption`, `PacingAssumption`, `ExchangeAssumption`,
`StatisticAssumption`, `ManagerAssumption`), which TLC evaluates in the runs above. Every
invariant was model-checked before it was proved.

*EventLoopProofs* proves what holds of the event loop whichever thread runs it. That the
next response read belongs to the request just popped depends on every unit in both
buffers and on what the server is writing, so none of the properties of a worker or of
the warmup is inductive. `FlowInv` (in EventLoopInvariant) therefore follows the ids
along the pipeline. They are issued in order, so each stretch holds consecutive ids and
starts where the next ends:

* `RequestStreamInv`: towards the server, from the request it reads next to the one the
  client writes next (`FollowsRequest`); `WrittenInv`: none of them is of a request the
  client has not begun;
* `ResponseStreamInv`: towards the client, from the unit the reader expects (`Expected`)
  to the unit the server writes next (`FollowsResponse`);
* `QueueInv`: the popped request and the queue are the ids after the answered ones;
* `ReadingInv`: where ReadBlock is within a response; and that a callback which popped
  an empty queue meets a closed connection with nothing left to read, so it never
  returns to the loop. This last part is why `ExactlyOnce` survives the undefined pop;
* `SendingInv`: which callbacks can be active while a call is under way.

`ThreadStep` is any step of the server or of a thread that runs the loop: a send callback
returns at once or begins the next request, a receive callback pops and reads, and when
it is through with a response it goes back to the loop or ends. `FlowStep` is that each of
these keeps `FlowInv`, with a lemma per conjunct and a step per action. What is left to
show of a thread is that its steps are of this kind.

*WorkerThreadProofs* shows it for the worker in the steady state (`WorkerIsThread`). With
`TypeOK` and `AnsweredInv` (`answered` is the diagonal up to the last response handled)
this is `IInv`, so `Spec => []IInv` (`Invariance`), and from it come `TypeCorrect`,
`MatchedResponsesHolds`, `ExactlyOnceHolds`, `QueueHasRequestHolds` and `FramingTheorem`.
`WriteNeverBlocksHolds` adds `RoomInv`: the free space promised to an active send callback
is still there when it runs, since only that callback fills the buffer. Like
`WriteNeverBlocks` it is about the packets of at most `LowWater` units (`SendFits`),
whatever was sent before them; in the write of a larger one thread and server can block on
each other. `SamplesWereServedHolds` adds `SamplesInv` (a sample is of an id the server
had served, and every latency has its get or set unless it has just ended the process),
since `IInv` says nothing of how many samples there are. `QueueHasRequestUnclosed` is the
stronger form of `QueueHasRequestHolds` for a server that never closes, and assumes
`~CanClose`; with one that may close it is false.
`NeverBothWaitHolds` is the safety part of `EveryRequestAnswered`: with `WriteNeverBlocks`
a full buffer stops nobody for good, and `IdleServer` shows from `FlowInv` that a server
with nothing to read or write has answered everything, so that no read is waiting for it.
It excepts the write of a packet larger than `LowWater`, too, and is false without.

`Refinement` (`Spec => ImplementsPipeline`) comes from the same invariant: the mapped
pipeline is the interval of ids from the popped one to the last one sent; `PushRequest`
appends to it, `RecordResponse` takes its head, everything else stutters.

*CollectionLemmas* has the facts that several of these proofs need: appending to, and
taking the tail of, sequences of consecutive numbers; and sums over finite sets. The
models write a sum with the community modules' `SumFunctionOnSet`, a fold, which is
defined by recursion. No induction theorem of the library can be used for it (they take
an operator), so a fact about every finite set is shown by its smallest counterexample:
the proper-subset order on the subsets of a finite set is well-founded, and a smallest
set for which the fact fails is neither empty nor one element larger than a smaller one.
From this follow that a sum exists and is unique (`IsSumExists`, `IsSumUnique`), its
equation (`SumEquation`), and what the models need of it: the sum of a sum, of an
`EXCEPT`, of a union of disjoint sets, of a part.

*GeneratorProofs* has the proofs about what the generator draws from and what it builds.
Of the distribution it proves, for files of any length, that with an entry on every line
(in any order) the search stays in the array unless the last cdf is below its target, that
with a last cdf of 1 the entry it returns covers the target, and that every turn more than
halves the range above `current`. The invariant says that `bottom <= current <= top`, that
`top` is the last entry throughout, and that `bottom` is below the target once it has
moved.

A second invariant, `AInv`, follows the loading of any file, blank and malformed lines
included: the
slots below `i` are the ones filled, each with an entry of a later line than the one
before, and every line read that is not blank has one (`ArrayInv`); what the warmup has
popped and what is queued make up the array (`SequenceInv`). From it follow
`DistributionTypeCorrect`, `EntriesInFileOrderHolds` and `WarmupCoversEntriesHolds`.

Of the exchange it proves the three properties for every set of sizes an `int` can carry.
The lemmas say what bytes do: two and four of them put together again are
the number (`TwoBytes` and its like), a decoded size is the size or negative, and a
negative one is met by `new` before the first block is read. The invariant adds what the
generator promises about the request and the server about the response.

*PacingProofs* proves `ThreadKeepsRateHolds`, `SendTimesApartHolds` and
`SilenceBoundedHolds` for any number of threads, any period and a clock that is set back
any number of times. The invariant counts for each thread, by where it is, how much time
the requests stamped so far have taken; and that a stamp differs from the real time it
was taken at by no more than the clock does now, since it is only ever set back.
`PacingTypeCorrect` has an invariant of its own, with the bound on time.

*MainProofs* proves `MainTypeCorrect` and `ThreadsStayApart` for any options in any order,
any number of workers and any failures. `PhaseInv` says for each
phase which workers there are, which may run, and that the warmup's loop is entered and
left for good before the first of them does; `LoopInv` what every step of the event loop
keeps.

It also proves `WarmupMatchedHolds` and `WarmupLeavesNothingHolds`, from `FlowInv`: but for
one case the warmup's steps are `ThreadStep`s (`WarmupIsThread`), whatever `HasNext` and
`Next` return without a sequence. The case is an undefined read that ends the process in
the middle of a callback, where a response has been read and its request is not deleted
yet; so `WarmupInv` has `FlowInv` for every other place. That nothing is left
behind then follows from where the warmup ends (`EndedInv`: in a receive callback that
leaves the queue empty): with every request answered a unit towards the server would be of
a request that is not begun, and one towards the client of a response that was read
already (`NothingLeft`). The two hold although the warmup tests `HasNext` the wrong way
round: whether it ends is another matter (finding 1).

*StatisticProofs* proves the four properties of the statistics for any values, bins,
quartiles and number of statistics. `StatisticInv` says that a statistic describes the
samples it stands for (`Describes`): its moments are their moments, each bin of a
histogram counts those of the bin's range, and `n_samples` is the sum of the bins; for
the second histogram only as long as the statistic is no result of a merge, which is
where the code goes wrong (finding 4). Each operation then maps a description of the
samples to one of the samples it leaves: a sample adds 1 to one value, a merge adds two
histories value by value, and the sums follow. For `QuantilesOfContents` the loop over
the cumulated bins is shown to stop at the bin where the samples below it are fewer than
the rank and with it are not (`FindBinAtRank`); the histograms come one above the other,
so the rank left over from one is a rank in the next.

*StatisticManagerProofs* proves the three properties of the interval loop for any number
of workers, samples and intervals. `CountsKept` is kept by each step once it is known
what a worker holds in its register between load and store (`RegisterInv`: what is in
memory, unless a reset came in between, and then the word is in `raced`).
`CountMatchesHistogram` speaks of one printed copy and cannot be kept alone, as what one
copy lacks is in the next: `WorkerAheadInv` bounds over all intervals how far the count
of each worker is ahead of its histograms in what was merged, `PrintedAheadInv` how far
it is in what was printed, and a copy is the difference of two such states. Both hold as
long as no worker is at the seconds (`SubsecondInv`), since no merge takes those.

Only model-checked: liveness (`EveryRequestAnswered`, `SearchTerminates`, `LoadStarts`),
which is out of the prover's reach. Every other property of the
passing runs has a theorem.

## What the code does wrong

Five disagreements between the code and what its comments and its usage text say, each
with a run that shows it (`expect: violation`):

1. `found_warmup_endless`: the warmup with entries to send sends none and waits for ever.
2. `found_first_covering`: the binary search stops at the first covering entry it looks
   at, not at the first of the file; the second comparison repeats the first.
3. `found_rate`: the interval between sends is divided by the number of threads instead
   of multiplied.
4. `found_merge`: a merge puts microsecond samples into the second histogram and loses
   the samples of a second or more.
5. `found_runtime`: with `-t` the load starts and never ends. `StartWorkerThreads` sleeps
   for ever, so `StatisticsLoop`, which would look at the limit and print the statistics,
   is not reached.

Two more disagreements with a comment have no run of their own, one call shows each: the
constructor of `WarmupSequence` queues the entries first to last and `Next` takes them
from the front (`PushEntry`, `WarmupNext`), although "the warmup sequence then is put the
keys into the system in reverse order" (`warmup_sequence.cc:36-38`), so the most popular
key is sent first and may be evicted first; and "Size is the size of the object"
(`size_key_distribution.h:34`), but a value drawn for an entry of size n has a random
length from 1 to n - 1, never n (`Lengths`; for sizes below 1 it can be longer than n).

Met while modelling, and in the models or in the hazards list: the event priorities have
no effect, because nothing gives the event base more than one priority, so a send may go
before a waiting receive although the comment says the opposite (the models have every
order); when the server closes an idle connection the receive callback pops an empty queue
(`Dangling`: `QueueHasRequestWhileOpen` says that it takes a close, the run goes on from
there); `ReadBlock` spins at end of file (`ReadEndOfFile` changes nothing); a request of
1000 bytes or more, or an answer after 1000 seconds, is out of range of its statistic and
ends the process (`"dead_sample"`); requests larger than the socket's low-water mark can
block thread and server on each other (`NeverBothWait` excepts them); `warmup_sequence_`
is unset without `-f`; blank lines leave uninitialised slots at the end of the array, and
a line that lacks a field crashes the program; a last cdf below 1 lets a target run past
the array; the generator divides by zero for an entry of size 1 (`"dead_size"`);
`RandomFloat` reaches 1.0, so `-g 1` still sends a set now and then; a key or extras size
of 128 or more in a byte is read as negative, which only the failing `new` stops; `-w 0`,
or a word, starts no worker and the program sleeps with no load; nobody closes the
warmup's connection; the workers' connections lie idle during the warmup and may be closed
by then; if `StatisticsLoop` were reached, the lack of a lock would lose and repeat
samples.

## What is not modelled

* The bytes of keys, values and extras, opcodes and the header's zero fields: nothing the
  client does depends on them (it looks at the magic number and the sizes alone).
* The average, the standard deviations and `Histogram::GetQuantile` (no caller): functions
  of the modelled sums and histograms that change nothing; the lookup of a statistic by
  name; the printers.
* Rounding and saturation of floats (`s0_` stops counting at 2^24 samples within one
  interval).
* In the pacing, a clock that is set forward: it lets one request through early. (What it
  does to a latency is among the `Faults` of the worker.)
* The options that are assignments (`-c -d -F -g -l -m -n -r -T`): the modules of what
  they steer take them as constants; those nothing reads have no effect.
* `pthread_setaffinity_np` in `WorkerThread::Init`: the block names variables that do not
  exist, so it can only be compiled where `__gnu_linux__` is not defined.
* The calls inside `OpenTcpSocket`, the signal handler of `LogFatal`, `scoped_ptr.h`, the
  Makefile and the unit tests: library calls, output, and documentation of what is meant.

## Plan

Order: the request pipeline first, since every number the program reports rests on it;
then the parts that feed it and the parts that report; then what puts them together.

1. Done: Connection, EventLoop, WorkerThread, LoadPipeline, the invariant, its proofs and
   the refinement; WarmupThread; SizeKeyDistribution and Pacing; Statistic;
   StatisticManager.
2. Done: CacheBash, the main thread composed with the warmup; Exchange, the packet format
   and the Generator's lengths; a clock that is set back in Pacing; the proofs about all
   three, and about loading the distribution.
3. Done: the proofs about Statistic and StatisticManager, and the sums they rest on; the
   event loop's part of the worker's invariant, taken down to EventLoop, and from it the
   proofs about the warmup.
4. Next, more of the safety part of what only TLC shows: for `SearchTerminates`, on from
   `RangeHalves`, a bound on the turns of one search; for the warmup, that no read waits for
   an idle server (`IdleServer` is about any thread with `FlowInv`).
