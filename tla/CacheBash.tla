------------------------------- MODULE CacheBash -------------------------------
(***************************************************************************)
(* The main thread, from ParseArguments on: it creates and connects the    *)
(* worker threads, runs the warmup itself (the event loop of WarmupThread) *)
(* and then starts the workers, in whose hands the load is from then on.   *)
(*                                                                         *)
(* A worker is what the main thread sees of it: whether its thread runs.   *)
(* What it does then is WorkerThread; here it may end the whole process at *)
(* any time.  Of the options those are kept that steer the main thread.    *)
(***************************************************************************)
EXTENDS WarmupThread

CONSTANTS
  WorkerCounts,  \* what atoi makes of the arguments of -w
  Runtimes,      \* what atof makes of the arguments of -t, in seconds
  MaxArgs        \* bound: options on the command line

ASSUME CacheBashAssumption ==
  /\ WorkerCounts \subseteq Int
  /\ Runtimes \subseteq Int
  /\ MaxArgs \in Nat

VARIABLES
  phase,             \* where the main thread is
  args,              \* options getopt has not returned yet
  distribution,      \* size_key_distribution_: its entries; Undefined: NULL
  n_worker_threads,  \* n_worker_threads_
  runtime,           \* runtime_; none above 0: no limit
  workers            \* worker_threads_: which of them run

configVars == <<args, distribution, n_worker_threads, runtime>>
mainVars   == <<phase, configVars, workers>>
allVars    == <<mainVars, warmupVars>>

Options ==
  [opt : {"f"}, n : Entries \ {Undefined}] \cup [opt : {"w"}, n : WorkerCounts]
    \cup [opt : {"t"}, n : Runtimes] \cup [opt : {"s", "h"}, n : {0}]

\* NO_RUNTIME_LIMIT
NoRuntimeLimit == -1

MainInit ==
  /\ EventLoopInit /\ left = Undefined
  /\ phase = "parse"
  /\ args \in UNION {[1..k -> Options] : k \in 0..MaxArgs}
  /\ distribution = Undefined /\ n_worker_threads = 1 /\ runtime = NoRuntimeLimit
  /\ workers = <<>>

------------------------------------------------------------------------------
(* ParseArguments: one option after the other. *)

NextOption(opt) == phase = "parse" /\ args # <<>> /\ Head(args).opt = opt

\* -f: LoadFile, and a WarmupSequence of what it has loaded.
LoadDistribution ==
  /\ NextOption("f")
  /\ distribution' = Head(args).n
  /\ left' = Head(args).n
  /\ args' = Tail(args)
  /\ UNCHANGED <<phase, n_worker_threads, runtime, workers, vars>>

SetWorkerCount ==
  /\ NextOption("w")
  /\ n_worker_threads' = Head(args).n
  /\ args' = Tail(args)
  /\ UNCHANGED <<phase, distribution, runtime, workers, warmupVars>>

SetRuntime ==
  /\ NextOption("t")
  /\ runtime' = Head(args).n
  /\ args' = Tail(args)
  /\ UNCHANGED <<phase, distribution, n_worker_threads, workers, warmupVars>>

\* -s: nslookup.
LookUpServer ==
  /\ NextOption("s")
  /\ args' = Tail(args)
  /\ UNCHANGED <<phase, distribution, n_worker_threads, runtime, workers>>
  /\ UNCHANGED warmupVars

\* -h: PrintUsage and exit(0).
Usage ==
  /\ NextOption("h")
  /\ phase' = "exit"
  /\ UNCHANGED <<configVars, workers, warmupVars>>

\* The options end: the configuration is printed, the Generator, the managers and
\* the base collection with its statistics are constructed.
FinishArguments ==
  /\ phase = "parse" /\ args = <<>>
  /\ phase' = "create"
  /\ UNCHANGED <<configVars, workers, warmupVars>>

------------------------------------------------------------------------------
(* CreateAndInitializeWorkerThreads, Warmup, StartWorkerThreads. *)

\* Mutant of CreateWorker: the constructor starts the thread.
CreateWorkerRunning ==
  /\ phase = "create" /\ Len(workers) < n_worker_threads
  /\ workers' = Append(workers, TRUE)
  /\ UNCHANGED <<phase, configVars, warmupVars>>

\* A worker with a copy of the base collection; Init connects it.
CreateWorker ==
  /\ phase = "create" /\ Len(workers) < n_worker_threads
  /\ workers' = Append(workers, FALSE)
  /\ UNCHANGED <<phase, configVars, warmupVars>>

\* The warmup thread is constructed, connected, and its MainLoop entered.
BeginWarmup ==
  /\ phase = "create" /\ Len(workers) >= n_worker_threads
  /\ phase' = "warmup"
  /\ UNCHANGED <<configVars, workers, warmupVars>>

RunWarmup == phase = "warmup" /\ WarmupStep /\ UNCHANGED mainVars

FinishWarmup ==
  /\ phase = "warmup" /\ pc = "ended"
  /\ phase' = "start"
  /\ UNCHANGED <<configVars, workers, warmupVars>>

Waiting == {i \in DOMAIN workers : ~workers[i]}

\* Mutant of StartWorker: the loop is left after the first thread.
StartFirstWorker ==
  /\ phase = "start" /\ 1 \in Waiting
  /\ workers' = [workers EXCEPT ![1] = TRUE]
  /\ phase' = "sleep"
  /\ UNCHANGED <<configVars, warmupVars>>

\* pthread_create for the next worker in the list.
StartWorker ==
  /\ phase = "start"
  /\ \E i \in Waiting :
       /\ \A j \in Waiting : i <= j
       /\ workers' = [workers EXCEPT ![i] = TRUE]
  /\ UNCHANGED <<phase, configVars, warmupVars>>

\* "while (running) { sleep(1); }": running is never cleared, so that the call of
\* StatisticsLoop that follows is not reached.
SleepForever ==
  /\ phase = "start" /\ Waiting = {}
  /\ phase' = "sleep"
  /\ UNCHANGED <<configVars, workers, warmupVars>>

\* Whatever ends the process ends all its threads.
Exit ==
  /\ phase' = "dead"
  /\ workers' = [i \in DOMAIN workers |-> FALSE]
  /\ UNCHANGED <<configVars, warmupVars>>

\* LOG_FATAL on the main thread: a file that cannot be opened, a name that cannot
\* be resolved, a connection that is refused, a thread that does not start; or
\* what ended the warmup.
MainFails ==
  /\ \/ NextOption("f") \/ NextOption("s")
     \/ phase = "create"
     \/ phase = "warmup" /\ pc \in Dead \cup {"dead_next"}
     \/ phase = "start" /\ Waiting # {}
  /\ Exit

\* LOG_FATAL in a worker.
WorkerFails == (\E i \in DOMAIN workers : workers[i]) /\ Exit

------------------------------------------------------------------------------

MainStep ==
  \/ LoadDistribution \/ SetWorkerCount \/ SetRuntime \/ LookUpServer \/ Usage
  \/ FinishArguments
  \/ CreateWorker \/ BeginWarmup \/ RunWarmup \/ FinishWarmup
  \/ StartWorker \/ SleepForever \/ MainFails

\* The warmup's connection: nobody looks at it before or after.
Server == /\ phase = "warmup" /\ pc # "ended"
          /\ ServerStep
          /\ UNCHANGED <<loopVars, left, mainVars>>

MainEnded == phase \in {"exit", "dead", "sleep"} /\ UNCHANGED allVars

MainNext == MainStep \/ Server \/ WorkerFails \/ MainEnded

MainSpec == MainInit /\ [][MainNext]_allVars

\* The scheduler runs the main thread; nothing makes a worker fail.
FairMainSpec == MainSpec /\ WF_allVars(MainStep)
------------------------------------------------------------------------------
(* Properties. *)

\* The types of the main thread's variables, those of the warmup included.
MainTypeOK ==
  /\ phase \in {"parse", "create", "warmup", "start", "sleep", "exit", "dead"}
  /\ args \in Seq(Options)
  /\ distribution \in Entries \cup {Undefined}
  /\ n_worker_threads \in WorkerCounts \cup {1}
  /\ runtime \in Runtimes \cup {NoRuntimeLimit}
  /\ workers \in Seq(BOOLEAN)
  /\ WarmupTypeOK

\* cachebash.cc:170 "Perform a warmup with only one thread" and :173 "Now that
\* everything is setup, we can start": the program has no locks, so no worker may
\* run while the options are still read, before the last worker is created, or
\* while the warmup's event loop is at work.
ThreadsApart ==
  (\E i \in DOMAIN workers : workers[i]) =>
    /\ phase \notin {"parse", "create", "warmup"} /\ pc = "ended"
    /\ Len(workers) >= n_worker_threads

\* Once the warmup is over the load starts, whole, unless the process ends.
LoadStarts ==
  phase = "start" ~>
    \/ phase = "sleep" /\ Waiting = {} /\ Len(workers) >= n_worker_threads
    \/ phase = "dead"

------------------------------------------------------------------------------
(* What the usage text says and the code does not do. *)

\* cachebash.cc:65 "-t arg  runtime of loadtesting in seconds (default: run
\* forever)": with a limit a load that has begun comes to its end.
RuntimeEndsLoad == phase = "start" /\ runtime > 0 ~> phase \in {"exit", "dead"}
===============================================================================
