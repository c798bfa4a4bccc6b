------------------------------ MODULE AndJobs ------------------------------
(***************************************************************************)
(* YaoGarbleWire::andrs_multithread and the threads that serve it: the main *)
(* thread cuts an ANDRS into jobs of consecutive tuples, hands each to its  *)
(* YaoAndJob through a WaitQueue and waits for all of them; each Worker     *)
(* garbles its tuples into its part of the shared buffer.  At the end the   *)
(* jobs are destroyed, which stops and joins the workers.                   *)
(*                                                                         *)
(* A step is what a thread does under one lock, or for one tuple.  The      *)
(* condition variables are taken to wake only those that were signalled.    *)
(***************************************************************************)
EXTENDS AndInstrs

CONSTANTS NThreads,    \* get_n_threads(), the number of processors
          Threshold    \* the -t option

ASSUME ThreadsAssumption == NThreads \in Nat \ {0} /\ Threshold \in Nat

Workers == 1 .. NThreads
Main == 0

-----------------------------------------------------------------------------
(* Tools/WaitQueue.h: the queue through which threads hand work to each    *)
(* other.  Everything between lock and unlock is one operator; a thread     *)
(* that finds nothing waits on the condition variable, is woken by one      *)
(* signal and then takes the lock again in a step of its own.               *)

NewQueue == [items |-> <<>>, running |-> TRUE, waiting |-> {}]

(* The results of signal(): it wakes one waiting thread, if there is any.   *)
Signalled(q) ==
  IF q.waiting = {} THEN {q}
  ELSE {[q EXCEPT !.waiting = @ \ {t}] : t \in q.waiting}

(* Fault: an item is queued without a signal.                               *)
PushedSilently(q, value) == {[q EXCEPT !.items = Append(@, value)]}

Pushed(q, value) == Signalled([q EXCEPT !.items = Append(@, value)])

Stopped(q) == Signalled([q EXCEPT !.running = FALSE])

(* The first test of pop and of pop_dont_stop.                              *)
MustWait(q) == q.running /\ q.items = <<>>

(* Fault: a wait that returns without a signal.                             *)
Unwaited(q, t) == q

Waiting(q, t) == [q EXCEPT !.waiting = @ \cup {t}]

Woken(q, t) == t \notin q.waiting

(* The rest of pop: only a running queue gives out an item, the front of a  *)
(* deque that is not looked at again.                                       *)
Popped(q) == IF q.running /\ q.items # <<>> THEN [q EXCEPT !.items = Tail(@)] ELSE q

-----------------------------------------------------------------------------
VARIABLES
  pc,                  \* where the main thread is
  k,                   \* the instruction it executes
  j, start, i_gate,    \* andrs_multithread: tuple, first tuple and gates of the next job
  i_thread,            \* jobs dispatched, then the job waited for or stopped
  counter,             \* YaoGarbler::counter
  gates,               \* YaoGarbler::gates: allocation, capacity and gates
  S,                   \* the registers' keys
  job,                 \* and_jobs: the fields of each YaoAndJob
  input, output,       \* the two queues of each Worker
  wpc,                 \* where each worker is
  mine,                \* the arguments of andrs in each worker
  at,                  \* its tuple
  labels,              \* the labels it has hashed
  before               \* history: S, gates and counter when the instruction began

dispatching == <<j, start, i_gate>>
queues  == <<input, output>>
running == <<wpc, mine, at, labels>>
vars    == <<pc, k, dispatching, i_thread, counter, gates, S, job, queues, running, before>>

NoJob == [start |-> 1, end |-> 0, gate |-> [id |-> 0, pos |-> 0], counter |-> 0]

Init ==
  /\ pc = "next" /\ k = 1
  /\ j = 1 /\ start = 1 /\ i_gate = 0 /\ i_thread = 0
  /\ counter = 0
  /\ gates = [id |-> 0, max_len |-> 0, slots |-> <<>>]
  /\ S = [r \in Reg |-> 0]
  /\ job = [i \in Workers |-> NoJob]
  /\ input = [i \in Workers |-> NewQueue]
  /\ output = [i \in Workers |-> NewQueue]
  /\ wpc = [i \in Workers |-> "pop"]
  /\ mine = [i \in Workers |-> NoJob]
  /\ at = [i \in Workers |-> 1]
  /\ labels = [i \in Workers |-> <<>>]
  /\ before = [S |-> S, gates |-> <<>>, counter |-> 0]

-----------------------------------------------------------------------------
(* SendBuffer: allocate moves the buffer when it is too small, and pointers *)
(* into the old one are dead; skip moves the end without a look.            *)

Allocated(b, n) ==
  IF Len(b.slots) + n > b.max_len
  THEN [b EXCEPT !.id = @ + 1, !.max_len = 2 * (Len(b.slots) + n)]
  ELSE b

Unset == Gate(<<0, 0>>, <<0, 0>>, 0, 0)
End(b) == [id |-> b.id, pos |-> Len(b.slots)]
Skipped(b, n) == [b EXCEPT !.slots = @ \o [g \in 1 .. n |-> Unset]]
Appended(b, s) == [b EXCEPT !.slots = @ \o s]

(* A gate stored through a pointer: a dead one reaches nobody's buffer.     *)
Stored(b, p, gs) ==
  IF p.id # b.id THEN b
  ELSE [b EXCEPT !.slots =
          [g \in DOMAIN @ |-> IF g - p.pos \in DOMAIN gs THEN gs[g - p.pos] ELSE @[g]]]

-----------------------------------------------------------------------------
(* The main thread.                                                         *)

args == Instrs[k]
Executing == k \in DOMAIN Instrs

(* Fault: the gates per thread rounded down.                                *)
MaxGatesRoundedDown ==
  LET share == Total(args) \div NThreads
  IN IF share >= Threshold \div 2 THEN share ELSE Threshold \div 2

(* max_gates_per_thread                                                     *)
MaxGates ==
  LET share == (Total(args) + NThreads - 1) \div NThreads
  IN IF share >= Threshold \div 2 THEN share ELSE Threshold \div 2

(* An instruction below the threshold: andrs_singlethread.                  *)
GarbleAlone ==
  /\ pc = "next" /\ Executing
  /\ Total(args) < Threshold
  /\ gates' = Appended(Allocated(gates, Total(args)), Batch(args, S, counter))
  /\ S' = Written(args, S, counter)
  /\ counter' = counter + Total(args)
  /\ k' = k + 1
  /\ before' = [S |-> S', gates |-> gates'.slots, counter |-> counter']
  /\ UNCHANGED <<pc, dispatching, i_thread, job, queues, running>>

Prepare ==
  /\ pc = "next" /\ Executing
  /\ Total(args) >= Threshold
  /\ gates' = Allocated(gates, Total(args))
  /\ i_thread' = 0 /\ i_gate' = 0 /\ start' = 1 /\ j' = 1
  /\ pc' = "loop"
  /\ UNCHANGED <<k, counter, S, job, queues, running, before>>

JobFull(g) == g >= MaxGates \/ j = Len(args.tuples)

(* One round of the dispatch loop: the tuple joins the next job.            *)
CountTuple ==
  /\ pc = "loop" /\ j <= Len(args.tuples)
  /\ ~ JobFull(i_gate + args.upto[j] - Upto(args, j - 1))
  /\ i_gate' = i_gate + args.upto[j] - Upto(args, j - 1)
  /\ j' = j + 1
  /\ UNCHANGED <<pc, k, start, i_thread, counter, gates, S, job, queues, running, before>>

(* ... or completes it: YaoAndJob::dispatch writes the fields,              *)
FillJob ==
  /\ pc = "loop" /\ j <= Len(args.tuples)
  /\ JobFull(i_gate + args.upto[j] - Upto(args, j - 1))
  /\ i_gate' = i_gate + args.upto[j] - Upto(args, j - 1)
  /\ gates' = Skipped(gates, i_gate')
  /\ i_thread' = i_thread + 1
  /\ job' = [job EXCEPT ![i_thread'] =
               [start |-> start, end |-> j, gate |-> End(gates), counter |-> counter]]
  /\ pc' = "request"
  /\ UNCHANGED <<k, j, start, counter, S, queues, running, before>>

(* Fault: the next job is given the same gate numbers.                      *)
RequestKeepingCounter ==
  /\ pc = "request"
  /\ \E q \in Pushed(input[i_thread], i_thread) : input' = [input EXCEPT ![i_thread] = q]
  /\ i_gate' = 0
  /\ start' = j + 1
  /\ j' = j + 1
  /\ pc' = "loop"
  /\ UNCHANGED <<k, i_thread, counter, gates, S, job, output, running, before>>

(* and Worker::request queues it.                                           *)
Request ==
  /\ pc = "request"
  /\ \E q \in Pushed(input[i_thread], i_thread) : input' = [input EXCEPT ![i_thread] = q]
  /\ counter' = counter + i_gate
  /\ i_gate' = 0
  /\ start' = j + 1
  /\ j' = j + 1
  /\ pc' = "loop"
  /\ UNCHANGED <<k, i_thread, gates, S, job, output, running, before>>

(* The loop over worker.done() counts the jobs off; the order in which it   *)
(* meets them is that of their dispatch, so j goes over them here.          *)
StartWaiting ==
  /\ pc = "loop" /\ j > Len(args.tuples)
  /\ pc' = "wait" /\ j' = 1
  /\ UNCHANGED <<k, start, i_gate, i_thread, counter, gates, S, job, queues, running, before>>

(* The end of output.pop, and of the instruction with the last of them.     *)
Done(i) ==
  /\ output' = [output EXCEPT ![i] = Popped(@)]
  /\ IF i < i_thread
     THEN pc' = "wait" /\ j' = j + 1 /\ UNCHANGED <<k, before>>
     ELSE /\ pc' = "next" /\ j' = 1 /\ k' = k + 1
          /\ before' = [S |-> S, gates |-> gates.slots, counter |-> counter]
  /\ UNCHANGED <<start, i_gate, i_thread, counter, gates, S, job, input, running>>

WaitForJob ==
  /\ pc = "wait"
  /\ MustWait(output[j])
  /\ output' = [output EXCEPT ![j] = Waiting(@, Main)]
  /\ pc' = "waiting"
  /\ UNCHANGED <<k, dispatching, i_thread, counter, gates, S, job, input, running, before>>

JobDone ==
  \/ pc = "wait" /\ ~ MustWait(output[j]) /\ Done(j)
  \/ pc = "waiting" /\ Woken(output[j], Main) /\ Done(j)

(* ~YaoGarbler: delete[] destroys the workers from the last to the first,   *)
(* each by stopping its queue and joining its thread.                       *)
BeginDelete ==
  /\ pc = "next" /\ ~ Executing
  /\ pc' = "stop" /\ i_thread' = NThreads
  /\ UNCHANGED <<k, dispatching, counter, gates, S, job, queues, running, before>>

StopWorker ==
  /\ pc = "stop"
  /\ \E q \in Stopped(input[i_thread]) : input' = [input EXCEPT ![i_thread] = q]
  /\ pc' = "join"
  /\ UNCHANGED <<k, dispatching, i_thread, counter, gates, S, job, output, running, before>>

JoinWorker ==
  /\ pc = "join" /\ wpc[i_thread] = "exit"
  /\ i_thread' = i_thread - 1
  /\ pc' = IF i_thread = 1 THEN "done" ELSE "stop"
  /\ UNCHANGED <<k, dispatching, counter, gates, S, job, queues, running, before>>

MainNext ==
  \/ GarbleAlone
  \/ Prepare
  \/ CountTuple
  \/ FillJob
  \/ Request
  \/ StartWaiting
  \/ WaitForJob
  \/ JobDone
  \/ BeginDelete
  \/ StopWorker
  \/ JoinWorker

-----------------------------------------------------------------------------
(* A worker.                                                                *)

shared == <<pc, k, dispatching, i_thread, before>>

WorkerWait(i) ==
  /\ wpc[i] = "pop"
  /\ MustWait(input[i])
  /\ input' = [input EXCEPT ![i] = Waiting(@, i)]
  /\ wpc' = [wpc EXCEPT ![i] = "waiting"]
  /\ UNCHANGED <<shared, counter, gates, S, job, output, mine, at, labels>>

WorkerPop(i) ==
  /\ \/ wpc[i] = "pop" /\ ~ MustWait(input[i])
     \/ wpc[i] = "waiting" /\ Woken(input[i], i)
  /\ input' = [input EXCEPT ![i] = Popped(@)]
  /\ wpc' = [wpc EXCEPT ![i] = "popped"]
  /\ UNCHANGED <<shared, counter, gates, S, job, output, mine, at, labels>>

(* What pop returns is read after the lock is released.  A worker that goes *)
(* on calls YaoAndJob::run, whose arguments are the fields of the job.      *)
WorkerRun(i) ==
  /\ wpc[i] = "popped" /\ input[i].running
  /\ mine' = [mine EXCEPT ![i] = job[i]]
  /\ at' = [at EXCEPT ![i] = job[i].start]
  /\ labels' = [labels EXCEPT ![i] = <<>>]
  /\ wpc' = [wpc EXCEPT ![i] = "labels"]
  /\ UNCHANGED <<shared, counter, gates, S, job, queues>>

WorkerExit(i) ==
  /\ wpc[i] = "popped" /\ ~ input[i].running
  /\ wpc' = [wpc EXCEPT ![i] = "exit"]
  /\ UNCHANGED <<shared, counter, gates, S, job, queues, mine, at, labels>>

Size(t) == args.upto[t] - Upto(args, t - 1)

(* andrs: the labels of one tuple.  counter is a reference to the field.    *)
WorkerLabels(i) ==
  /\ wpc[i] = "labels"
  /\ labels' = [labels EXCEPT ![i] = @ \o
                  [n \in 1 .. Size(at[i]) |-> [keys |-> Inputs(args, at[i], S),
                                               T |-> job[i].counter + n]]]
  /\ job' = [job EXCEPT ![i].counter = @ + Size(at[i])]
  /\ IF at[i] < mine[i].end
     THEN at' = [at EXCEPT ![i] = @ + 1] /\ wpc' = wpc
     ELSE at' = [at EXCEPT ![i] = mine[i].start] /\ wpc' = [wpc EXCEPT ![i] = "garble"]
  /\ UNCHANGED <<shared, counter, gates, S, queues, mine>>

(* andrs: the outputs of one tuple are randomized and its gates garbled,    *)
(* with the masks of the inputs as they are now.                            *)
WorkerGarble(i) ==
  /\ wpc[i] = "garble"
  /\ LET t     == at[i]
         first == Upto(args, t - 1) - Upto(args, mine[i].start - 1)
         key   == labels[i][first + 1].T
     IN /\ S' = [S EXCEPT ![args.tuples[t].out] = key]
        /\ gates' = Stored(gates, [mine[i].gate EXCEPT !.pos = @ + first],
                      [n \in 1 .. Size(t) |->
                         Gate(labels[i][first + n].keys, Inputs(args, t, S), key,
                              labels[i][first + n].T)])
        /\ IF t < mine[i].end
           THEN at' = [at EXCEPT ![i] = @ + 1] /\ UNCHANGED <<wpc, labels>>
           ELSE /\ wpc' = [wpc EXCEPT ![i] = "push"]
                /\ labels' = [labels EXCEPT ![i] = <<>>]
                /\ at' = at
  /\ UNCHANGED <<shared, counter, job, queues, mine>>

WorkerPush(i) ==
  /\ wpc[i] = "push"
  /\ \E q \in Pushed(output[i], 0) : output' = [output EXCEPT ![i] = q]
  /\ wpc' = [wpc EXCEPT ![i] = "pop"]
  /\ UNCHANGED <<shared, counter, gates, S, job, input, mine, at, labels>>

WorkerNext(i) ==
  \/ WorkerWait(i)
  \/ WorkerPop(i)
  \/ WorkerRun(i)
  \/ WorkerExit(i)
  \/ WorkerLabels(i)
  \/ WorkerGarble(i)
  \/ WorkerPush(i)

Next == MainNext \/ \E i \in Workers : WorkerNext(i)

(* Every thread that can run does so eventually.                            *)
Spec == /\ Init /\ [][Next]_vars
        /\ WF_vars(MainNext)
        /\ \A i \in Workers : WF_vars(WorkerNext(i))

-----------------------------------------------------------------------------
(* However the tuples' sizes fall, an instruction is never cut into more    *)
(* jobs than there are elements of and_jobs: the array is indexed without a *)
(* check.                                                                   *)
JobsFit == i_thread <= NThreads

(* WaitQueue::pop looks for an empty queue with an if, not a while, and     *)
(* then takes the front: whoever a signal has woken finds an item.  (The    *)
(* wakeups without a signal that POSIX allows are not in the model.)        *)
PopFindsItem ==
  /\ pc = "waiting" /\ Woken(output[j], Main) => output[j].items # <<>>
  /\ \A i \in Workers :
       wpc[i] = "waiting" /\ Woken(input[i], i) /\ input[i].running => input[i].items # <<>>

(* Whatever the number of threads and their interleaving, the buffer and    *)
(* the registers come out as if the instructions were garbled one by one.   *)
A == INSTANCE AndBatches WITH
       done <- k - 1, S <- before.S, gates <- before.gates, counter <- before.counter
ImplementsBatches == A!Spec

(* All instructions are garbled and all threads joined.                     *)
Termination == <>(pc = "done" /\ \A i \in Workers : wpc[i] = "exit")
=============================================================================
