------------------------ MODULE WorkerThreads_proofs ------------------------
(***************************************************************************)
(* Proofs about threads that work for others.                              *)
(*                                                                         *)
(* About AndJobs, for every program, number of threads and threshold: the   *)
(* array and_jobs is never overrun, nobody who is woken finds its queue     *)
(* empty, and what the threads garble together is what one alone would.     *)
(*                                                                         *)
(* About OtTriples, for every number of players, threads and loops: the     *)
(* waits and signals of its threads, which no flag backs, leave a generator *)
(* and its multipliers in step.  Names that both modules would have begin   *)
(* with Ot there.                                                          *)
(***************************************************************************)
EXTENDS AndJobs, OtTriples, SequenceFacts

(* Every job but the last of an instruction takes at least MaxGates gates,  *)
(* and NThreads times that many are all the gates there are.  So as long as *)
(* a tuple is left, fewer than NThreads jobs have been dispatched.          *)
Taken ==
  /\ pc = "loop" /\ j <= Len(args.tuples) =>
       i_thread * MaxGates + i_gate <= Upto(args, j - 1)
  /\ pc = "request" /\ j < Len(args.tuples) => i_thread * MaxGates <= Upto(args, j)

JInv ==
  /\ k \in Nat \ {0} /\ j \in Nat \ {0} /\ i_gate \in Nat /\ i_thread \in Nat
  /\ pc \in {"loop", "request"} => Executing
  /\ pc = "request" => j <= Len(args.tuples)
  /\ pc \in {"stop", "join"} => i_thread # 0
  /\ Taken
  /\ JobsFit

-----------------------------------------------------------------------------
(* The shape of an instruction, as the compiler promises it.                *)
LEMMA InstrType ==
  ASSUME NEW n \in DOMAIN Instrs
  PROVE  /\ Instrs[n].upto \in Seq(Nat)
         /\ Instrs[n].tuples \in Seq(Tuple)
         /\ Len(Instrs[n].upto) = Len(Instrs[n].tuples)
         /\ Len(Instrs[n].upto) \in Nat \ {0}
         /\ Total(Instrs[n]) \in Nat
         /\ \A t \in 1 .. Len(Instrs[n].upto) :
              /\ Instrs[n].upto[t] \in Nat
              /\ Upto(Instrs[n], t - 1) \in Nat
              /\ Upto(Instrs[n], t - 1) < Instrs[n].upto[t]
              /\ Instrs[n].upto[t] <= Total(Instrs[n])
<1> DEFINE I == Instrs[n]
<1>1. WellFormedInstr(I)
  BY InstrsAssumption
<1>2. /\ I.upto \in Seq(Nat) /\ I.tuples \in Seq(Tuple)
      /\ Len(I.upto) = Len(I.tuples) /\ Len(I.upto) > 0
      /\ \A t \in 1 .. Len(I.upto) : Upto(I, t - 1) < I.upto[t]
      /\ \A t \in 1 .. Len(I.upto) : I.upto[t] <= Total(I)
  BY <1>1 DEF WellFormedInstr
<1> HIDE DEF I
<1>3. Len(I.upto) \in Nat \ {0} /\ \A t \in 1 .. Len(I.upto) : I.upto[t] \in Nat
  BY <1>2
<1>4. Total(I) \in Nat
  BY <1>3 DEF Total
<1>5. \A t \in 1 .. Len(I.upto) : Upto(I, t - 1) \in Nat
  <2> SUFFICES ASSUME NEW t \in 1 .. Len(I.upto) PROVE Upto(I, t - 1) \in Nat
    OBVIOUS
  <2>1. CASE t = 1
    BY <2>1 DEF Upto
  <2>2. CASE t # 1
    <3>1. t - 1 \in 1 .. Len(I.upto)
      BY <2>2, <1>3
    <3> QED BY <3>1, <1>3 DEF Upto
  <2> QED BY <2>1, <2>2
<1> QED BY <1>2, <1>3, <1>4, <1>5 DEF I

(* Shares rounded up cover the whole.                                       *)
LEMMA SharesCover ==
  ASSUME NEW total \in Nat, NEW n \in Nat \ {0},
         NEW share, share = (total + n - 1) \div n
  PROVE  share \in Nat /\ total <= n * share
<1> DEFINE a == total + n - 1
<1>1. a \in Nat /\ n \in Int /\ n > 0
  OBVIOUS
<1> HIDE DEF a
<1>2. a \div n \in Int /\ a % n \in 0 .. n - 1 /\ a = n * (a \div n) + (a % n)
  BY <1>1
<1>3. a \div n >= 0
  BY <1>1
<1>4. n * (a \div n) \in Int
  BY <1>1, <1>2
<1>5. n * (a \div n) >= a - (n - 1)
  BY <1>1, <1>2, <1>4
<1>6. share = a \div n
  BY DEF a
<1> QED BY <1>3, <1>2, <1>4, <1>5, <1>6 DEF a

(* If a parts of size m do not reach n parts of size m, a is less than n.   *)
LEMMA FewerParts ==
  ASSUME NEW a \in Nat, NEW n \in Nat, NEW m \in Nat, a * m < n * m
  PROVE  a < n
<1>1. SUFFICES ASSUME a >= n PROVE FALSE
  OBVIOUS
<1>2. PICK d \in Nat : a = n + d
  <2>1. a - n \in Nat /\ a = n + (a - n)
    BY <1>1
  <2> QED BY <2>1
<1>3. a * m = n * m + d * m
  BY <1>2
<1>4. d * m \in Nat /\ n * m \in Nat
  OBVIOUS
<1> QED BY <1>3, <1>4

(* max_gates_per_thread is enough to cut the instruction in NThreads jobs.  *)
LEMMA MaxGatesCover ==
  ASSUME Executing
  PROVE  MaxGates \in Nat /\ Total(args) <= NThreads * MaxGates
<1> DEFINE total == Total(args)
           share == (total + NThreads - 1) \div NThreads
<1>1. total \in Nat /\ NThreads \in Nat \ {0}
  BY InstrType, ThreadsAssumption DEF args, Executing
<1>2. share \in Nat /\ total <= NThreads * share
  BY <1>1, SharesCover
<1>3. Threshold \div 2 \in Nat
  BY ThreadsAssumption
<1>4. MaxGates = IF share >= Threshold \div 2 THEN share ELSE Threshold \div 2
  BY DEF MaxGates
<1> HIDE DEF share, total
<1>5. CASE share >= Threshold \div 2
  BY <1>5, <1>2, <1>4 DEF total
<1>6. CASE ~ (share >= Threshold \div 2)
  <2>1. MaxGates = Threshold \div 2 /\ MaxGates \in Nat /\ share <= MaxGates
    BY <1>6, <1>2, <1>3, <1>4
  <2>2. PICK d \in Nat : MaxGates = share + d
    <3>1. MaxGates - share \in Nat /\ MaxGates = share + (MaxGates - share)
      BY <2>1, <1>2
    <3> QED BY <3>1
  <2>3. NThreads * MaxGates = NThreads * share + NThreads * d
    BY <2>2, <1>1, <1>2
  <2>4. NThreads * d \in Nat /\ NThreads * share \in Nat
    BY <1>1, <1>2, <2>2
  <2> QED BY <2>1, <2>3, <2>4, <1>1, <1>2 DEF total
<1> QED BY <1>5, <1>6

-----------------------------------------------------------------------------
(* Before the first instruction nothing has been taken.                     *)
LEMMA JInvInit == Init => JInv
<1> SUFFICES ASSUME Init PROVE JInv
  OBVIOUS
<1> QED BY ThreadsAssumption DEF Init, JInv, Taken, JobsFit

(* Completing a job: there was still an element of and_jobs for it.         *)
LEMMA JInvFillJob == JInv /\ FillJob => JInv'
<1> SUFFICES ASSUME JInv, FillJob PROVE JInv'
  OBVIOUS
<1> DEFINE n    == Len(args.tuples)
           size == args.upto[j] - Upto(args, j - 1)
<1>1. Executing /\ pc = "loop" /\ j \in 1 .. n /\ k' = k /\ args' = args
  BY DEF JInv, FillJob, args, Executing
<1>2. /\ n = Len(args.upto) /\ n \in Nat \ {0}
      /\ args.upto[j] \in Nat /\ Upto(args, j - 1) \in Nat
      /\ Upto(args, j - 1) < args.upto[j]
      /\ args.upto[j] <= Total(args) /\ Total(args) \in Nat
  BY <1>1, InstrType DEF args, Executing
<1>3. MaxGates \in Nat /\ Total(args) <= NThreads * MaxGates
  BY <1>1, MaxGatesCover
<1>4. MaxGates' = MaxGates
  BY <1>1 DEF MaxGates
<1>5. /\ i_gate' = i_gate + size /\ i_thread' = i_thread + 1
      /\ j' = j /\ pc' = "request" /\ Executing'
  BY <1>1 DEF FillJob, Executing
<1>6. i_gate' >= MaxGates \/ j = n
  BY <1>5 DEF FillJob, JobFull
<1>7. i_thread * MaxGates + i_gate <= Upto(args, j - 1)
  BY <1>1 DEF JInv, Taken
<1>8. i_thread \in Nat /\ i_gate \in Nat /\ i_thread * MaxGates \in Nat
  BY <1>3 DEF JInv
<1>9. i_thread < NThreads
  <2>1. NThreads \in Nat /\ NThreads * MaxGates \in Nat
    BY ThreadsAssumption, <1>3
  <2>2. i_thread * MaxGates < NThreads * MaxGates
    BY <1>2, <1>3, <1>7, <1>8, <2>1
  <2> QED BY <2>1, <2>2, <1>3, <1>8, FewerParts
<1>10. i_gate' \in Nat /\ i_thread' \in Nat /\ i_thread' <= NThreads
  BY <1>2, <1>5, <1>8, <1>9, ThreadsAssumption
<1>11. j < n => i_thread' * MaxGates <= Upto(args, j)
  <2>1. SUFFICES ASSUME j < n PROVE i_thread' * MaxGates <= Upto(args, j)
    OBVIOUS
  <2>2. Upto(args, j) = args.upto[j]
    BY <1>1 DEF Upto
  <2>3. i_thread' * MaxGates = i_thread * MaxGates + MaxGates
    BY <1>5, <1>8, <1>3
  <2>4. i_gate + size >= MaxGates
    BY <1>5, <1>6, <2>1, <1>1, <1>2
  <2> QED BY <2>2, <2>3, <2>4, <1>2, <1>3, <1>7, <1>8
<1>12. Taken'
  BY <1>1, <1>4, <1>5, <1>11 DEF Taken, Upto
<1>13. JobsFit'
  BY <1>10 DEF JobsFit
<1> QED BY <1>1, <1>2, <1>5, <1>10, <1>12, <1>13 DEF JInv

(* No step of the main thread or of a worker breaks the invariant.          *)
LEMMA JInvNext == JInv /\ [Next]_vars => JInv'
<1> SUFFICES ASSUME JInv, [Next]_vars PROVE JInv'
  OBVIOUS
<1> USE DEF JInv
<1>1. CASE GarbleAlone
  BY <1>1 DEF GarbleAlone, dispatching, JobsFit, Taken
<1>2. CASE Prepare
  <2>1. args' = args /\ Executing /\ Executing'
    BY <1>2 DEF Prepare, args, Executing
  <2>2. MaxGates \in Nat /\ MaxGates' = MaxGates
    BY <2>1, MaxGatesCover DEF MaxGates
  <2>3. Upto(args, 0) = 0
    BY DEF Upto
  <2> QED BY <1>2, <2>1, <2>2, <2>3, ThreadsAssumption DEF Prepare, JobsFit, Taken
<1>3. CASE CountTuple
  <2> DEFINE n    == Len(args.tuples)
             size == args.upto[j] - Upto(args, j - 1)
  <2>1. Executing /\ pc = "loop" /\ j \in 1 .. n /\ k' = k /\ args' = args
    BY <1>3 DEF CountTuple, args, Executing
  <2>2. /\ n = Len(args.upto) /\ n \in Nat \ {0}
        /\ args.upto[j] \in Nat /\ Upto(args, j - 1) \in Nat
        /\ Upto(args, j - 1) < args.upto[j]
    BY <2>1, InstrType DEF args, Executing
  <2>3. MaxGates \in Nat /\ MaxGates' = MaxGates
    BY <2>1, MaxGatesCover DEF MaxGates
  <2>4. /\ j # n /\ i_gate' = i_gate + size /\ j' = j + 1 /\ pc' = "loop"
        /\ i_thread' = i_thread /\ Executing'
    BY <1>3, <2>1 DEF CountTuple, JobFull, Executing
  <2>5. Upto(args, j' - 1) = args.upto[j]
    BY <2>1, <2>4 DEF Upto
  <2>6. i_thread * MaxGates \in Nat
    BY <2>3
  <2>7. i_thread * MaxGates + i_gate <= Upto(args, j - 1)
    BY <2>1 DEF Taken
  <2>8. i_gate' \in Nat /\ i_thread * MaxGates + i_gate' <= args.upto[j]
    <3>1. size \in Nat /\ i_gate \in Nat /\ i_gate' = i_gate + size
      BY <2>2, <2>4
    <3>2. Upto(args, j - 1) + size = args.upto[j]
      BY <2>2
    <3> HIDE DEF size
    <3> QED BY <2>2, <2>6, <2>7, <3>1, <3>2
  <2>9. Taken'
    <3>1. i_thread' * MaxGates' + i_gate' <= Upto(args', j' - 1)
      <4>1. Upto(args', j' - 1) = Upto(args, j' - 1)
        BY <2>1
      <4> QED BY <2>3, <2>4, <2>5, <2>8, <4>1
    <3> QED BY <2>1, <2>4, <3>1 DEF Taken, Upto
  <2> QED BY <2>1, <2>4, <2>8, <2>9 DEF JobsFit
<1>4. CASE FillJob
  BY <1>4, JInvFillJob
<1>5. CASE Request
  <2>1. Executing /\ j \in 1 .. Len(args.tuples) /\ args' = args /\ Executing'
    BY <1>5 DEF Request, args, Executing
  <2>2. MaxGates \in Nat /\ MaxGates' = MaxGates
    BY <2>1, MaxGatesCover DEF MaxGates
  <2>3. /\ i_gate' = 0 /\ j' = j + 1 /\ pc' = "loop" /\ pc = "request"
        /\ i_thread' = i_thread /\ k' = k
    BY <1>5 DEF Request
  <2>4. Len(args.tuples) \in Nat
    BY <2>1, InstrType DEF args, Executing
  <2>5. j' <= Len(args.tuples) => i_thread * MaxGates <= Upto(args, j' - 1)
    BY <2>1, <2>3, <2>4 DEF Taken
  <2>6. i_thread * MaxGates \in Nat
    BY <2>2
  <2>7. Taken'
    BY <2>1, <2>2, <2>3, <2>5, <2>6 DEF Taken, Upto
  <2> QED BY <2>1, <2>3, <2>7 DEF JobsFit
<1>6. CASE StartWaiting
  BY <1>6 DEF StartWaiting, JobsFit, Taken
<1>7. CASE WaitForJob
  BY <1>7 DEF WaitForJob, dispatching, JobsFit, Taken
<1>8. CASE JobDone
  BY <1>8 DEF JobDone, Done, JobsFit, Taken
<1>9. CASE BeginDelete
  BY <1>9, ThreadsAssumption DEF BeginDelete, dispatching, JobsFit, Taken
<1>10. CASE StopWorker
  BY <1>10 DEF StopWorker, dispatching, JobsFit, Taken
<1>11. CASE JoinWorker
  BY <1>11, ThreadsAssumption DEF JoinWorker, dispatching, JobsFit, Taken
<1>12. CASE \E i \in Workers : WorkerNext(i)
  <2>1. PICK i \in Workers : WorkerNext(i)
    BY <1>12
  <2>2. UNCHANGED shared
    BY <2>1 DEF WorkerNext, WorkerWait, WorkerPop, WorkerRun, WorkerExit, WorkerLabels,
                WorkerGarble, WorkerPush
  <2> QED BY <2>2 DEF shared, dispatching, JobsFit, Taken, args, Executing, MaxGates, Upto
<1>13. CASE UNCHANGED vars
  BY <1>13 DEF vars, dispatching, JobsFit, Taken, args, Executing, MaxGates, Upto
<1> QED BY <1>1, <1>2, <1>3, <1>4, <1>5, <1>6, <1>7, <1>8, <1>9, <1>10, <1>11, <1>12, <1>13
     DEF Next, MainNext

(* The strengthening holds throughout.                                      *)
THEOREM JobsInvariant == Spec => []JInv
<1> QED BY JInvInit, JInvNext, PTL DEF Spec

(* and_jobs is never indexed past its end, however the gates of an          *)
(* instruction are spread over its tuples.                                  *)
THEOREM ArrayFits == Spec => []JobsFit
<1>1. JInv => JobsFit
  BY DEF JInv
<1> QED BY <1>1, JobsInvariant, PTL

-----------------------------------------------------------------------------
(* The queues.  Each has one consumer t, which is on the condition variable  *)
(* only as long as it has reason to be.                                     *)
Queue(t) == {q \in [items : Seq(Nat), running : BOOLEAN, waiting : SUBSET {t}] :
               t \in q.waiting => MustWait(q)}

Places == {"pop", "waiting", "popped", "labels", "garble", "push", "exit"}

(* Output queues are never stopped, and the main thread waits only at that   *)
(* of a job it has dispatched.                                               *)
QInv ==
  /\ input \in [Workers -> UNION {Queue(i) : i \in Workers}]
  /\ output \in [Workers -> Queue(Main)]
  /\ wpc \in [Workers -> Places]
  /\ \A i \in Workers : input[i] \in Queue(i) /\ output[i].running
  /\ pc = "loop" /\ j > Len(args.tuples) => i_thread # 0
  /\ pc = "request" => i_thread # 0
  /\ pc \in {"wait", "waiting"} => j \in 1 .. i_thread
  /\ PopFindsItem

LEMMA NewQueueType == ASSUME NEW t PROVE NewQueue \in Queue(t) /\ NewQueue.running
BY DEF Queue, NewQueue, MustWait

(* A push wakes the consumer, which then finds the item.                    *)
LEMMA PushedQueue ==
  ASSUME NEW t, NEW q \in Queue(t), NEW v \in Nat, NEW r \in Pushed(q, v)
  PROVE  /\ r \in Queue(t) /\ r.items # <<>> /\ t \notin r.waiting
         /\ r.running = q.running
<1> DEFINE s == Append(q.items, v)
           p == [q EXCEPT !.items = s]
<1>1. /\ q \in [items : Seq(Nat), running : BOOLEAN, waiting : SUBSET {t}]
      /\ p \in [items : Seq(Nat), running : BOOLEAN, waiting : SUBSET {t}]
      /\ p.items # <<>> /\ p.running = q.running /\ p.waiting = q.waiting
  <2>1. q \in [items : Seq(Nat), running : BOOLEAN, waiting : SUBSET {t}]
    BY DEF Queue
  <2>2. q.items \in Seq(Nat)
    BY <2>1
  <2>3. s \in Seq(Nat) /\ Len(s) = Len(q.items) + 1 /\ Len(q.items) \in Nat
    BY <2>2
  <2>4. s # <<>>
    <3>1. Len(s) # 0 /\ Len(<<>>) = 0
      BY <2>3
    <3> HIDE DEF s
    <3> QED BY <3>1
  <2> HIDE DEF s
  <2> QED BY <2>1, <2>3, <2>4
<1>2. r \in Signalled(p)
  BY DEF Pushed
<1> HIDE DEF p
<1>3. CASE p.waiting = {}
  <2>1. r = p
    BY <1>2, <1>3 DEF Signalled
  <2> QED BY <2>1, <1>1, <1>3 DEF Queue
<1>4. CASE p.waiting # {}
  <2>1. p.waiting = {t}
    BY <1>1, <1>4
  <2>2. r = [p EXCEPT !.waiting = @ \ {t}]
    BY <1>2, <2>1 DEF Signalled
  <2> QED BY <2>1, <2>2, <1>1 DEF Queue
<1> QED BY <1>3, <1>4

(* So does a stop.                                                          *)
LEMMA StoppedQueue ==
  ASSUME NEW t, NEW q \in Queue(t), NEW r \in Stopped(q)
  PROVE  r \in Queue(t) /\ ~ r.running /\ t \notin r.waiting
<1> DEFINE p == [q EXCEPT !.running = FALSE]
<1>1. /\ p \in [items : Seq(Nat), running : BOOLEAN, waiting : SUBSET {t}]
      /\ ~ p.running
  BY DEF Queue
<1>2. r \in Signalled(p)
  BY DEF Stopped
<1> HIDE DEF p
<1>3. CASE p.waiting = {}
  <2>1. r = p
    BY <1>2, <1>3 DEF Signalled
  <2> QED BY <2>1, <1>1, <1>3 DEF Queue
<1>4. CASE p.waiting # {}
  <2>1. p.waiting = {t}
    BY <1>1, <1>4
  <2>2. r = [p EXCEPT !.waiting = @ \ {t}]
    BY <1>2, <2>1 DEF Signalled
  <2> QED BY <2>1, <2>2, <1>1 DEF Queue
<1> QED BY <1>3, <1>4

LEMMA WaitingQueue ==
  ASSUME NEW t, NEW q \in Queue(t), MustWait(q)
  PROVE  /\ Waiting(q, t) \in Queue(t) /\ ~ Woken(Waiting(q, t), t)
         /\ Waiting(q, t).running = q.running
BY DEF Queue, Waiting, Woken, MustWait

(* Who need not wait or has been woken is not on the condition variable.    *)
LEMMA PoppedQueue ==
  ASSUME NEW t, NEW q \in Queue(t), ~ MustWait(q) \/ Woken(q, t)
  PROVE  Popped(q) \in Queue(t) /\ Popped(q).running = q.running
<1>1. t \notin q.waiting
  BY DEF Queue, Woken
<1>2. CASE q.running /\ q.items # <<>>
  <2>1. q.items \in Seq(Nat) /\ Tail(q.items) \in Seq(Nat)
    BY <1>2 DEF Queue
  <2> QED BY <1>1, <1>2, <2>1 DEF Queue, Popped
<1>3. CASE ~ (q.running /\ q.items # <<>>)
  BY <1>3 DEF Popped
<1> QED BY <1>2, <1>3

(* Before anything is queued.                                               *)
LEMMA QInvInit == Init => QInv
<1> SUFFICES ASSUME Init PROVE QInv
  OBVIOUS
<1>1. \A i \in Workers : NewQueue \in Queue(i) /\ NewQueue \in Queue(Main) /\ NewQueue.running
  BY NewQueueType
<1>2. pc = "next" /\ input = [i \in Workers |-> NewQueue] /\ wpc = [i \in Workers |-> "pop"]
  BY DEF Init
<1>3. output = [i \in Workers |-> NewQueue]
  BY DEF Init
<1>4. input \in [Workers -> UNION {Queue(i) : i \in Workers}]
  BY <1>1, <1>2
<1>5. output \in [Workers -> Queue(Main)]
  BY <1>1, <1>3
<1>6. wpc \in [Workers -> Places]
  BY <1>2 DEF Places
<1>7. \A i \in Workers : input[i] \in Queue(i) /\ output[i].running
  BY <1>1, <1>2, <1>3
<1>8. PopFindsItem
  BY <1>2 DEF PopFindsItem
<1> QED BY <1>2, <1>4, <1>5, <1>6, <1>7, <1>8 DEF QInv

(* A step of the main thread.                                               *)
LEMMA QInvMain == JInv /\ QInv /\ MainNext => QInv'
<1> SUFFICES ASSUME JInv, QInv, MainNext PROVE QInv'
  OBVIOUS
<1> USE DEF QInv
<1>1. CASE GarbleAlone
  BY <1>1 DEF GarbleAlone, queues, running, PopFindsItem
<1>2. CASE Prepare
  <2>1. args' = args /\ Len(args.tuples) \in Nat \ {0} /\ j' = 1
    BY <1>2, InstrType DEF Prepare, args, Executing
  <2> QED BY <1>2, <2>1 DEF Prepare, queues, running, PopFindsItem
<1>3. CASE CountTuple
  <2>1. args' = args /\ Len(args.tuples) \in Nat /\ j \in Nat
    BY <1>3, InstrType DEF CountTuple, args, Executing, JInv
  <2>2. j # Len(args.tuples) /\ j <= Len(args.tuples) /\ j' = j + 1 /\ pc' = "loop"
    BY <1>3 DEF CountTuple, JobFull
  <2> QED BY <1>3, <2>1, <2>2 DEF CountTuple, queues, running, PopFindsItem
<1>4. CASE FillJob
  <2>1. i_thread' # 0 /\ pc' = "request"
    BY <1>4 DEF FillJob, JInv
  <2> QED BY <1>4, <2>1 DEF FillJob, queues, running, PopFindsItem
<1>5. CASE Request
  <2>1. PICK q \in Pushed(input[i_thread], i_thread) : input' = [input EXCEPT ![i_thread] = q]
    BY <1>5 DEF Request
  <2>2. i_thread \in Workers /\ i_thread \in Nat
    BY <1>5, ThreadsAssumption DEF Request, JInv, JobsFit, Workers
  <2>3. q \in Queue(i_thread) /\ q.items # <<>>
    BY <2>1, <2>2, PushedQueue
  <2>4. input' \in [Workers -> UNION {Queue(i) : i \in Workers}]
    BY <2>1, <2>2, <2>3
  <2>5. \A i \in Workers : input'[i] = IF i = i_thread THEN q ELSE input[i]
    BY <2>1
  <2>6. \A i \in Workers : input'[i] \in Queue(i)
    BY <2>3, <2>5
  <2>7. PopFindsItem'
    BY <1>5, <2>3, <2>5 DEF Request, running, PopFindsItem
  <2>8. pc' = "loop" /\ i_thread' = i_thread /\ output' = output /\ wpc' = wpc
    BY <1>5 DEF Request, running
  <2> QED BY <1>5, <2>4, <2>6, <2>7, <2>8 DEF Request
<1>6. CASE StartWaiting
  <2>1. i_thread \in Nat \ {0} /\ j' = 1 /\ i_thread' = i_thread /\ pc' = "wait"
    BY <1>6 DEF StartWaiting, JInv
  <2> QED BY <1>6, <2>1 DEF StartWaiting, queues, running, PopFindsItem
<1>7. CASE WaitForJob
  <2>1. j \in Workers /\ j' = j /\ i_thread' = i_thread
    BY <1>7, ThreadsAssumption DEF WaitForJob, JInv, JobsFit, Workers, dispatching
  <2>2. /\ Waiting(output[j], Main) \in Queue(Main)
        /\ ~ Woken(Waiting(output[j], Main), Main)
        /\ Waiting(output[j], Main).running
    BY <1>7, <2>1, WaitingQueue DEF WaitForJob
  <2>3. \A i \in Workers : output'[i] = IF i = j THEN Waiting(output[j], Main) ELSE output[i]
    BY <1>7 DEF WaitForJob
  <2>4. output' \in [Workers -> Queue(Main)] /\ \A i \in Workers : output'[i].running
    BY <1>7, <2>1, <2>2, <2>3 DEF WaitForJob
  <2>5. PopFindsItem'
    BY <1>7, <2>1, <2>2, <2>3 DEF WaitForJob, running, PopFindsItem
  <2>6. input' = input /\ wpc' = wpc /\ pc' = "waiting" /\ pc = "wait"
    BY <1>7 DEF WaitForJob, running
  <2> QED BY <2>1, <2>4, <2>5, <2>6
<1>8. CASE JobDone
  <2>1. Done(j) /\ j \in Workers /\ j \in 1 .. i_thread /\ i_thread \in Nat
    BY <1>8, ThreadsAssumption DEF JobDone, JInv, JobsFit, Workers
  <2>2. ~ MustWait(output[j]) \/ Woken(output[j], Main)
    BY <1>8 DEF JobDone
  <2>3. Popped(output[j]) \in Queue(Main) /\ Popped(output[j]).running
    BY <2>1, <2>2, PoppedQueue
  <2>4. output' \in [Workers -> Queue(Main)] /\ \A i \in Workers : output'[i].running
    BY <2>1, <2>3 DEF Done
  <2>5. input' = input /\ wpc' = wpc /\ i_thread' = i_thread
    BY <2>1 DEF Done, running
  <2>6. pc' = "next" \/ (pc' = "wait" /\ j' \in 1 .. i_thread)
    BY <2>1 DEF Done
  <2>7. PopFindsItem'
    BY <2>5, <2>6 DEF PopFindsItem
  <2> QED BY <2>4, <2>5, <2>6, <2>7
<1>9. CASE BeginDelete
  BY <1>9 DEF BeginDelete, queues, running, PopFindsItem
<1>10. CASE StopWorker
  <2>1. PICK q \in Stopped(input[i_thread]) : input' = [input EXCEPT ![i_thread] = q]
    BY <1>10 DEF StopWorker
  <2>2. i_thread \in Workers
    BY <1>10, ThreadsAssumption DEF StopWorker, JInv, JobsFit, Workers
  <2>3. q \in Queue(i_thread) /\ ~ q.running
    BY <2>1, <2>2, StoppedQueue
  <2>4. input' \in [Workers -> UNION {Queue(i) : i \in Workers}]
    BY <2>1, <2>2, <2>3
  <2>5. \A i \in Workers : input'[i] = IF i = i_thread THEN q ELSE input[i]
    BY <2>1
  <2>6. \A i \in Workers : input'[i] \in Queue(i)
    BY <2>3, <2>5
  <2>7. PopFindsItem'
    BY <1>10, <2>3, <2>5 DEF StopWorker, running, PopFindsItem
  <2>8. pc' = "join" /\ output' = output /\ wpc' = wpc
    BY <1>10 DEF StopWorker, running
  <2> QED BY <2>4, <2>6, <2>7, <2>8
<1>11. CASE JoinWorker
  BY <1>11 DEF JoinWorker, queues, running, PopFindsItem
<1> QED BY <1>1, <1>2, <1>3, <1>4, <1>5, <1>6, <1>7, <1>8, <1>9, <1>10, <1>11 DEF MainNext

(* A step of a worker.                                                      *)
LEMMA QInvWorker == QInv /\ (\E i \in Workers : WorkerNext(i)) => QInv'
<1> SUFFICES ASSUME QInv, NEW n \in Workers, WorkerNext(n) PROVE QInv'
  OBVIOUS
<1> USE DEF QInv, Places
<1>1. UNCHANGED shared
  BY DEF WorkerNext, WorkerWait, WorkerPop, WorkerRun, WorkerExit, WorkerLabels,
         WorkerGarble, WorkerPush
<1>2. /\ pc' = pc /\ j' = j /\ i_thread' = i_thread /\ args' = args
  BY <1>1 DEF shared, dispatching, args
<1>3. CASE WorkerWait(n)
  <2>1. /\ Waiting(input[n], n) \in Queue(n) /\ ~ Woken(Waiting(input[n], n), n)
    BY <1>3, WaitingQueue DEF WorkerWait
  <2>2. input' \in [Workers -> UNION {Queue(i) : i \in Workers}]
    BY <1>3, <2>1 DEF WorkerWait
  <2>3. \A i \in Workers : input'[i] = IF i = n THEN Waiting(input[n], n) ELSE input[i]
    BY <1>3 DEF WorkerWait
  <2>4. wpc' = [wpc EXCEPT ![n] = "waiting"] /\ output' = output
    BY <1>3 DEF WorkerWait
  <2>5. PopFindsItem'
    BY <1>2, <2>1, <2>3, <2>4 DEF PopFindsItem
  <2> QED BY <1>2, <2>1, <2>2, <2>3, <2>4, <2>5
<1>4. CASE WorkerPop(n)
  <2>1. Popped(input[n]) \in Queue(n)
    BY <1>4, PoppedQueue DEF WorkerPop
  <2>2. input' \in [Workers -> UNION {Queue(i) : i \in Workers}]
    BY <1>4, <2>1 DEF WorkerPop
  <2>3. \A i \in Workers : input'[i] = IF i = n THEN Popped(input[n]) ELSE input[i]
    BY <1>4 DEF WorkerPop
  <2>4. wpc' = [wpc EXCEPT ![n] = "popped"] /\ output' = output
    BY <1>4 DEF WorkerPop
  <2>5. PopFindsItem'
    BY <1>2, <2>3, <2>4 DEF PopFindsItem
  <2> QED BY <1>2, <2>1, <2>2, <2>3, <2>4, <2>5
<1>5. CASE WorkerRun(n)
  BY <1>2, <1>5 DEF WorkerRun, queues, PopFindsItem
<1>6. CASE WorkerExit(n)
  BY <1>2, <1>6 DEF WorkerExit, queues, PopFindsItem
<1>7. CASE WorkerLabels(n)
  BY <1>2, <1>7 DEF WorkerLabels, queues, PopFindsItem
<1>8. CASE WorkerGarble(n)
  <2>1. input' = input /\ output' = output
    BY <1>8 DEF WorkerGarble, queues
  <2>2. wpc' = wpc \/ wpc' = [wpc EXCEPT ![n] = "push"]
    BY <1>8 DEF WorkerGarble
  <2> QED BY <1>2, <2>1, <2>2 DEF PopFindsItem
<1>9. CASE WorkerPush(n)
  <2>1. PICK q \in Pushed(output[n], 0) : output' = [output EXCEPT ![n] = q]
    BY <1>9 DEF WorkerPush
  <2>2. q \in Queue(Main) /\ q.items # <<>> /\ q.running
    BY <2>1, PushedQueue
  <2>3. \A i \in Workers : output'[i] = IF i = n THEN q ELSE output[i]
    BY <2>1
  <2>4. output' \in [Workers -> Queue(Main)] /\ \A i \in Workers : output'[i].running
    BY <2>1, <2>2, <2>3
  <2>5. wpc' = [wpc EXCEPT ![n] = "pop"] /\ input' = input
    BY <1>9 DEF WorkerPush
  <2>6. PopFindsItem'
    <3>1. j \in Workers => output'[j] = IF j = n THEN q ELSE output[j]
      BY <2>3
    <3>2. j \notin Workers => output'[j] = output[j]
      BY <2>1
    <3> QED BY <1>2, <2>2, <2>5, <3>1, <3>2 DEF PopFindsItem
  <2> QED BY <1>2, <2>4, <2>5, <2>6
<1> QED BY <1>3, <1>4, <1>5, <1>6, <1>7, <1>8, <1>9 DEF WorkerNext

(* No thread's step breaks it.                                              *)
LEMMA QInvNext == JInv /\ QInv /\ [Next]_vars => QInv'
<1> SUFFICES ASSUME JInv, QInv, [Next]_vars PROVE QInv'
  OBVIOUS
<1>1. CASE MainNext
  BY <1>1, QInvMain
<1>2. CASE \E i \in Workers : WorkerNext(i)
  BY <1>2, QInvWorker
<1>3. CASE UNCHANGED vars
  BY <1>3 DEF vars, dispatching, queues, running, QInv, PopFindsItem, args
<1> QED BY <1>1, <1>2, <1>3 DEF Next

(* Whoever is woken in WaitQueue::pop, worker or main thread, finds an item  *)
(* unless its queue has been stopped: testing once, with an if, is enough.  *)
THEOREM WokenFindsItem == Spec => []PopFindsItem
<1>1. QInv => PopFindsItem
  BY DEF QInv
<1> QED BY <1>1, QInvInit, QInvNext, JobsInvariant, PTL DEF Spec
-----------------------------------------------------------------------------
(* What an instruction comes to.  Its jobs are disjoint intervals of its     *)
(* tuples; the tuples of a job have their gates and the keys of their        *)
(* outputs as soon as its worker has passed them, whatever the others do.    *)
Active == {"loop", "request", "wait", "waiting"}
Ending == {"stop", "join", "done"}

(* Where a job is: nowhere, in the queue, with its worker, or done and not   *)
(* yet counted off.                                                         *)
Resting(i)  == wpc[i] \in {"pop", "waiting"}
Idle(i)     == input[i].items = <<>> /\ output[i].items = <<>> /\ Resting(i)
Queued(i)   == input[i].items = <<i>> /\ output[i].items = <<>> /\ Resting(i)
Busy(i)     == /\ input[i].items = <<>> /\ output[i].items = <<>>
               /\ wpc[i] \in {"popped", "labels", "garble", "push"}
Finished(i) == input[i].items = <<>> /\ output[i].items = <<0>> /\ Resting(i)

Asked(i) ==
  \/ pc = "loop" /\ i <= i_thread
  \/ pc = "request" /\ i < i_thread
  \/ pc \in {"wait", "waiting"} /\ i \in j .. i_thread

Turn(i) ==
  /\ input[i].running
  /\ IF Asked(i) THEN Queued(i) \/ Busy(i) \/ Finished(i) ELSE Idle(i)

Known  == [labels : Nat \X Nat, masks : Nat \X Nat, out : Nat, T : Nat]
Label  == [keys : Nat \X Nat, T : Nat]
Fields == [start : Nat, end : Nat, gate : [id : Nat, pos : Nat], counter : Nat]

Types ==
  /\ counter \in Nat /\ start \in Nat \ {0}
  /\ S \in [Reg -> Nat]
  /\ gates \in [id : Nat, max_len : Nat, slots : Seq(Known)]
  /\ job \in [Workers -> Fields] /\ mine \in [Workers -> Fields]
  /\ at \in [Workers -> Nat] /\ labels \in [Workers -> Seq(Label)]
  /\ before \in [S : [Reg -> Nat], gates : Seq(Known), counter : Nat]

(* Tuples that belong to a job, and the gates of one tuple.                 *)
Sent       == IF pc = "request" THEN j ELSE start - 1
Base       == Len(before.gates)
Jobs       == 1 .. i_thread
Share(i)   == job[i].start .. job[i].end
GatesOf(t) == Upto(args, t - 1) + 1 .. Upto(args, t)

Dispatch ==
  /\ Executing /\ start <= Len(args.tuples) + 1
  /\ pc = "loop" => /\ j \in start .. Len(args.tuples) + 1
                    /\ j = Len(args.tuples) + 1 => start = j
                    /\ i_gate = Upto(args, j - 1) - Upto(args, start - 1)
  /\ pc = "request" => /\ j \in start .. Len(args.tuples)
                       /\ i_thread \in Workers /\ job[i_thread].end = j
                       /\ i_gate = Upto(args, j) - Upto(args, start - 1)
                       /\ job[i_thread].counter = before.counter + Upto(args, job[i_thread].start - 1)
  /\ pc \in {"wait", "waiting"} => start = Len(args.tuples) + 1 /\ j \in Jobs
  /\ counter = before.counter + Upto(args, start - 1)

Filled ==
  /\ Len(gates.slots) = Base + Upto(args, Sent)
  /\ \A g \in 1 .. Base : gates.slots[g] = before.gates[g]

Placed(i) ==
  /\ job[i].start \in 1 .. job[i].end /\ job[i].end <= Sent
  /\ job[i].gate = [id |-> gates.id, pos |-> Base + Upto(args, job[i].start - 1)]

Shares ==
  /\ \A i \in Jobs : Placed(i)
  /\ \A i, n \in Jobs : i < n => job[i].end < job[n].start
  /\ \A t \in 1 .. Sent : \E i \in Jobs : t \in Share(i)

(* The labels of the tuples from first to last, in order.                   *)
Hashed(x, list, first, last, keys, c) ==
  /\ Len(list) = Upto(x, last) - Upto(x, first - 1)
  /\ \A t \in first .. last : \A g \in Upto(x, t - 1) + 1 .. Upto(x, t) :
       list[g - Upto(x, first - 1)] = [keys |-> Inputs(x, t, keys), T |-> c + g]

LabelsTo(i, last) == Hashed(args, labels[i], job[i].start, last, before.S, before.counter)

AtWork(i) ==
  /\ Queued(i) \/ wpc[i] = "popped" =>
       job[i].counter = before.counter + Upto(args, job[i].start - 1)
  /\ wpc[i] \in {"labels", "garble"} =>
       /\ mine[i].start = job[i].start /\ mine[i].end = job[i].end /\ mine[i].gate = job[i].gate
       /\ at[i] \in Share(i)
  /\ wpc[i] = "labels" => /\ job[i].counter = before.counter + Upto(args, at[i] - 1)
                          /\ LabelsTo(i, at[i] - 1)
  /\ wpc[i] = "garble" => LabelsTo(i, job[i].end)

(* Tuples that the worker has still to garble, and those it has garbled.     *)
Left(i, t) ==
  \/ pc = "request" /\ i = i_thread
  \/ Queued(i)
  \/ wpc[i] \in {"popped", "labels"}
  \/ wpc[i] = "garble" /\ at[i] <= t

Garbled(t) ==
  /\ S[args.tuples[t].out] = before.counter + Upto(args, t - 1) + 1
  /\ \A g \in GatesOf(t) :
       gates.slots[Base + g] =
         Gate(Inputs(args, t, before.S), Inputs(args, t, before.S),
              before.counter + Upto(args, t - 1) + 1, before.counter + g)

NotWritten(r) == \A t \in 1 .. Len(args.tuples) : args.tuples[t].out # r

Product ==
  /\ \A i \in Jobs : \A t \in Share(i) : Left(i, t) \/ Garbled(t)
  /\ \A r \in Reg : NotWritten(r) => S[r] = before.S[r]

InProgress == Dispatch /\ Filled /\ Shares /\ Product /\ \A i \in Jobs : AtWork(i)

BInv ==
  /\ pc \in Active \cup Ending \cup {"next"}
  /\ pc \notin Ending => Types /\ \A i \in Workers : Turn(i)
  /\ pc = "next" => S = before.S /\ gates.slots = before.gates /\ counter = before.counter
  /\ pc \in Active => InProgress

-----------------------------------------------------------------------------
(* The tuples of an instruction cut its gates into intervals.               *)
LEMMA Sizes ==
  ASSUME NEW n \in DOMAIN Instrs, NEW x, x = Instrs[n]
  PROVE  /\ Len(x.tuples) \in Nat \ {0} /\ Len(x.upto) = Len(x.tuples)
         /\ Total(x) \in Nat /\ Upto(x, 0) = 0 /\ Upto(x, Len(x.tuples)) = Total(x)
         /\ \A t \in 0 .. Len(x.tuples) : Upto(x, t) \in Nat
         /\ \A t \in 1 .. Len(x.tuples) : x.upto[t] = Upto(x, t) /\ Upto(x, t - 1) < Upto(x, t)
         /\ \A s, t \in 0 .. Len(x.tuples) : s < t => Upto(x, s) < Upto(x, t)
         /\ \A t \in 1 .. Len(x.tuples) : Upto(x, t) <= Total(x)
<1>1. PICK l : l = Len(x.tuples)
  OBVIOUS
<1>2. /\ l \in Nat \ {0} /\ Len(x.upto) = l /\ Total(x) \in Nat
      /\ \A t \in 1 .. l : /\ x.upto[t] \in Nat /\ Upto(x, t - 1) \in Nat
                           /\ Upto(x, t - 1) < x.upto[t] /\ x.upto[t] <= Total(x)
  BY <1>1, InstrType
<1>3. \A t \in 1 .. l : x.upto[t] = Upto(x, t)
  BY <1>2 DEF Upto
<1>4. Upto(x, 0) = 0 /\ Upto(x, l) = Total(x)
  BY <1>2 DEF Upto, Total
<1>5. \A t \in 0 .. l : Upto(x, t) \in Nat
  <2> TAKE t \in 0 .. l
  <2>1. t = 0 \/ t \in 1 .. l
    BY <1>2
  <2>2. CASE t = 0
    <3>1. Upto(x, t) = Upto(x, 0)
      BY <2>2
    <3> QED BY <1>4, <3>1
  <2>3. CASE t \in 1 .. l
    <3>1. x.upto[t] = Upto(x, t) /\ x.upto[t] \in Nat
      BY <1>2, <1>3, <2>3
    <3> QED BY <3>1
  <2> QED BY <2>1, <2>2, <2>3
<1>6. \A t \in 1 .. l : Upto(x, t - 1) < Upto(x, t)
  BY <1>2, <1>3
<1>7. \A s, t \in 0 .. l : s < t => Upto(x, s) < Upto(x, t)
  <2> TAKE s \in 0 .. l
  <2> DEFINE Bad == {t \in 0 .. l : s < t /\ ~ (Upto(x, s) < Upto(x, t))}
  <2>1. SUFFICES ASSUME Bad # {} PROVE FALSE
    OBVIOUS
  <2>2. Bad \subseteq Nat
    BY <1>2
  <2>3. PICK t \in Bad : \A u \in Bad : t <= u
    BY <2>1, <2>2, LeastNatural
  <2>4. t \in 1 .. l /\ t - 1 \in 0 .. l /\ s < t /\ ~ (Upto(x, s) < Upto(x, t)) /\ s \in Nat
    BY <1>2, <2>3
  <2>5. t - 1 \notin Bad
    <3>1. ~ (t <= t - 1)
      BY <2>4
    <3> QED BY <2>3, <3>1
  <2>6. s = t - 1 \/ Upto(x, s) < Upto(x, t - 1)
    BY <2>4, <2>5
  <2>7. Upto(x, t - 1) < Upto(x, t) /\ Upto(x, s) \in Nat /\ Upto(x, t - 1) \in Nat /\ Upto(x, t) \in Nat
    BY <1>2, <1>5, <1>6, <2>4
  <2> HIDE DEF Bad
  <2> QED BY <2>4, <2>6, <2>7
<1>8. \A t \in 1 .. l : Upto(x, t) <= Total(x)
  BY <1>2, <1>3
<1> QED BY <1>1, <1>2, <1>3, <1>4, <1>5, <1>6, <1>7, <1>8

LEMMA SizesGrow ==
  ASSUME NEW n \in DOMAIN Instrs, NEW x, x = Instrs[n],
         NEW s \in 0 .. Len(x.tuples), NEW t \in 0 .. Len(x.tuples), s <= t
  PROVE  Upto(x, s) \in Nat /\ Upto(x, t) \in Nat /\ Upto(x, s) <= Upto(x, t)
<1>1. Len(x.tuples) \in Nat /\ Upto(x, s) \in Nat /\ Upto(x, t) \in Nat
      /\ (s < t => Upto(x, s) < Upto(x, t))
  BY Sizes
<1>2. s = t \/ s < t
  BY <1>1
<1>3. s = t => Upto(x, s) = Upto(x, t)
  OBVIOUS
<1> QED BY <1>1, <1>2, <1>3

(* Every gate is in one of the intervals.                                   *)
LEMMA GateHasTuple ==
  ASSUME NEW n \in DOMAIN Instrs, NEW x, x = Instrs[n], NEW g \in 1 .. Total(x)
  PROVE  \E t \in 1 .. Len(x.tuples) : g \in Upto(x, t - 1) + 1 .. Upto(x, t)
<1>1. PICK l, total : l = Len(x.tuples) /\ total = Total(x)
  OBVIOUS
<1>2. /\ l \in Nat \ {0} /\ total \in Nat /\ Upto(x, 0) = 0 /\ Upto(x, l) = total
      /\ \A t \in 0 .. l : Upto(x, t) \in Nat
  BY <1>1, Sizes
<1> DEFINE Reach == {t \in 0 .. l : g <= Upto(x, t)}
<1>3. Reach \subseteq Nat /\ l \in Reach /\ g \in Nat \ {0}
  BY <1>1, <1>2
<1>4. PICK t \in Reach : \A u \in Reach : t <= u
  BY <1>3, LeastNatural
<1>5. t \in 0 .. l /\ g <= Upto(x, t) /\ t # 0
  BY <1>2, <1>3, <1>4
<1>6. t - 1 \in 0 .. l /\ t \in 1 .. l /\ ~ (t <= t - 1)
  BY <1>2, <1>5
<1>7. t - 1 \notin Reach
  BY <1>4, <1>6
<1>8. ~ (g <= Upto(x, t - 1)) /\ Upto(x, t - 1) \in Nat /\ Upto(x, t) \in Nat
  BY <1>2, <1>5, <1>6, <1>7
<1>9. g \in Upto(x, t - 1) + 1 .. Upto(x, t)
  BY <1>3, <1>5, <1>8
<1> QED BY <1>1, <1>6, <1>9

(* ... and in no other.                                                     *)
LEMMA GateHasOneTuple ==
  ASSUME NEW n \in DOMAIN Instrs, NEW x, x = Instrs[n],
         NEW s \in 1 .. Len(x.tuples), NEW t \in 1 .. Len(x.tuples), NEW g,
         g \in Upto(x, s - 1) + 1 .. Upto(x, s), g \in Upto(x, t - 1) + 1 .. Upto(x, t)
  PROVE  s = t
<1>1. PICK l : l = Len(x.tuples)
  OBVIOUS
<1>2. /\ l \in Nat /\ \A u \in 0 .. l : Upto(x, u) \in Nat
      /\ \A u, v \in 0 .. l : u < v => Upto(x, u) < Upto(x, v)
  BY <1>1, Sizes
<1>3. s \in 1 .. l /\ t \in 1 .. l /\ s - 1 \in 0 .. l /\ t - 1 \in 0 .. l /\ s \in 0 .. l /\ t \in 0 .. l
  BY <1>1, <1>2
<1>4. PICK a, b, c, d : a = Upto(x, s - 1) /\ b = Upto(x, s) /\ c = Upto(x, t - 1) /\ d = Upto(x, t)
  OBVIOUS
<1>5. a \in Nat /\ b \in Nat /\ c \in Nat /\ d \in Nat /\ g \in a + 1 .. b /\ g \in c + 1 .. d
  BY <1>2, <1>3, <1>4
<1>6. s < t => s = t - 1 \/ b < c
  BY <1>2, <1>3, <1>4
<1>7. t < s => t = s - 1 \/ d < a
  BY <1>2, <1>3, <1>4
<1>8. s = t - 1 => b = c
  BY <1>4
<1>9. t = s - 1 => d = a
  BY <1>4
<1> QED BY <1>3, <1>5, <1>6, <1>7, <1>8, <1>9

(* The gates that garbling one tuple gives, and the key of its output.       *)
LEMMA BatchFacts ==
  ASSUME NEW n \in DOMAIN Instrs, NEW x, x = Instrs[n], NEW keys, NEW c,
         NEW t \in 1 .. Len(x.tuples), NEW g \in Upto(x, t - 1) + 1 .. Upto(x, t)
  PROVE  /\ g \in 1 .. Total(x)
         /\ Batch(x, keys, c)[g] = Gate(Inputs(x, t, keys), Inputs(x, t, keys),
                                        c + Upto(x, t - 1) + 1, c + g)
<1>1. PICK l, a, b, total : l = Len(x.tuples) /\ a = Upto(x, t - 1) /\ b = Upto(x, t) /\ total = Total(x)
  OBVIOUS
<1>2. /\ l \in Nat \ {0} /\ Len(x.upto) = l /\ total \in Nat
      /\ \A u \in 0 .. l : Upto(x, u) \in Nat
      /\ \A u \in 1 .. l : x.upto[u] = Upto(x, u) /\ Upto(x, u) <= total
  BY <1>1, Sizes
<1>3. t \in 1 .. l /\ t - 1 \in 0 .. l /\ t \in 0 .. l
  BY <1>1, <1>2
<1>4. a \in Nat /\ b \in Nat /\ b <= total /\ g \in a + 1 .. b
  BY <1>1, <1>2, <1>3
<1>5. g \in 1 .. total /\ g \in Int
  BY <1>2, <1>4
<1>6. \A u \in 1 .. l : Upto(x, u - 1) < g /\ g <= x.upto[u] <=> u = t
  <2> TAKE u \in 1 .. l
  <2>1. u - 1 \in 0 .. l /\ Upto(x, u - 1) \in Nat /\ Upto(x, u) \in Nat /\ x.upto[u] = Upto(x, u)
    BY <1>2
  <2>2. Upto(x, u - 1) < g /\ g <= x.upto[u] <=> g \in Upto(x, u - 1) + 1 .. Upto(x, u)
    BY <1>5, <2>1
  <2>3. g \in Upto(x, u - 1) + 1 .. Upto(x, u) <=> u = t
    BY <1>1, GateHasOneTuple
  <2> QED BY <2>2, <2>3
<1>7. GateTuple(x, g) = t
  BY <1>2, <1>3, <1>6 DEF GateTuple
<1> QED BY <1>1, <1>5, <1>7 DEF Batch

LEMMA WrittenFacts ==
  ASSUME NEW n \in DOMAIN Instrs, NEW x, x = Instrs[n], NEW keys, NEW c
  PROVE  /\ \A t \in 1 .. Len(x.tuples) : /\ x.tuples[t] \in Tuple
                                          /\ Written(x, keys, c)[x.tuples[t].out] = c + Upto(x, t - 1) + 1
         /\ \A r \in Reg : (\A t \in 1 .. Len(x.tuples) : x.tuples[t].out # r) =>
                             Written(x, keys, c)[r] = keys[r]
<1>1. \A t \in 1 .. Len(x.tuples) : x.tuples[t] \in Tuple /\ x.tuples[t].out \in Reg
  <2> TAKE t \in 1 .. Len(x.tuples)
  <2>1. x.tuples \in Seq(Tuple)
    BY InstrType
  <2>2. x.tuples[t] \in Tuple
    BY <2>1
  <2> QED BY <2>2 DEF Tuple
<1>2. \A t, u \in 1 .. Len(x.tuples) : x.tuples[t].out = x.tuples[u].out => t = u
  BY InstrsAssumption DEF WellFormedInstr
<1>3. ASSUME NEW t \in 1 .. Len(x.tuples)
      PROVE  Written(x, keys, c)[x.tuples[t].out] = c + Upto(x, t - 1) + 1
  <2>1. PICK r : r = x.tuples[t].out /\ r \in Reg
    BY <1>1
  <2>2. (CHOOSE u \in 1 .. Len(x.tuples) : x.tuples[u].out = r) = t
    BY <1>2, <2>1
  <2>3. Written(x, keys, c)[r] = c + Upto(x, t - 1) + 1
    BY <2>1, <2>2 DEF Written
  <2> QED BY <2>1, <2>3
<1>4. \A r \in Reg : (\A t \in 1 .. Len(x.tuples) : x.tuples[t].out # r) => Written(x, keys, c)[r] = keys[r]
  BY DEF Written
<1> QED BY <1>1, <1>3, <1>4

-----------------------------------------------------------------------------
(* Steps of a worker.                                                       *)

(* A worker that does not rest has a job of the instruction.                *)
LEMMA WorkingKnows ==
  ASSUME JInv, BInv, pc \notin Ending, NEW i \in Workers, ~ Resting(i)
  PROVE  /\ pc \in Active /\ InProgress /\ Asked(i) /\ Busy(i) /\ i \in Jobs
         /\ AtWork(i) /\ Placed(i) /\ input[i].running
         /\ ~ (pc = "request" /\ i = i_thread)
<1>1. Turn(i)
  BY DEF BInv
<1>2. Asked(i) /\ Busy(i) /\ input[i].running
  BY <1>1 DEF Turn, Idle, Queued, Finished
<1>3. pc \in Active /\ i <= i_thread /\ ~ (pc = "request" /\ i = i_thread)
  <2>1. i_thread \in Nat /\ i \in Nat
    BY DEF JInv, Workers
  <2> QED BY <1>2, <2>1 DEF Asked, Active
<1>4. i \in Jobs
  BY <1>3, ThreadsAssumption DEF Jobs, Workers, JInv
<1>5. InProgress
  BY <1>3 DEF BInv
<1>6. AtWork(i) /\ Placed(i)
  BY <1>4, <1>5 DEF InProgress, Shares
<1> QED BY <1>2, <1>3, <1>4, <1>5, <1>6

Same(i) ==
  /\ wpc'[i] = wpc[i] /\ input'[i] = input[i] /\ output'[i] = output[i]
  /\ mine'[i] = mine[i] /\ at'[i] = at[i] /\ labels'[i] = labels[i] /\ job'[i] = job[i]

LEMMA AtWorkSame ==
  ASSUME NEW i, Same(i), args' = args, before' = before, AtWork(i)
  PROVE  AtWork(i)'
<1>1. /\ wpc'[i] = wpc[i] /\ at'[i] = at[i] /\ mine'[i] = mine[i] /\ job'[i] = job[i]
      /\ labels'[i] = labels[i]
  BY DEF Same
<1>2. Queued(i)' = Queued(i)
  BY DEF Same, Queued, Resting
<1>3. Share(i)' = Share(i)
  BY <1>1 DEF Share
<1> QED BY <1>1, <1>2, <1>3 DEF AtWork, LabelsTo

(* A step of a worker that garbles nothing.                                 *)
LEMMA WorkerFrame ==
  ASSUME JInv, BInv, pc \notin Ending, NEW w \in Workers,
         UNCHANGED <<shared, counter, gates, S>>,
         \A i \in Workers \ {w} : Same(i),
         job'[w].start = job[w].start, job'[w].end = job[w].end, job'[w].gate = job[w].gate,
         \A t \in Share(w) : Left(w, t) => Left(w, t)',
         pc \in Active /\ w \in Jobs => AtWork(w)',
         pc = "request" /\ w = i_thread => job'[w].counter = job[w].counter,
         Turn(w)', Types'
  PROVE  BInv'
<1>1. /\ pc' = pc /\ k' = k /\ j' = j /\ start' = start /\ i_gate' = i_gate
      /\ i_thread' = i_thread /\ before' = before /\ args' = args
      /\ counter' = counter /\ gates' = gates /\ S' = S
  BY DEF shared, dispatching, args
<1>2. \A i \in Workers : Asked(i)' = Asked(i)
  BY <1>1 DEF Asked
<1>3. \A i \in Workers : Turn(i)'
  <2> TAKE i \in Workers
  <2>1. CASE i = w
    BY <2>1
  <2>2. CASE i # w
    <3>1. Same(i) /\ Turn(i)
      BY <2>2 DEF BInv
    <3> QED BY <3>1, <1>2 DEF Same, Turn, Queued, Busy, Finished, Idle, Resting
  <2> QED BY <2>1, <2>2
<1>4. ASSUME pc \in Active PROVE InProgress'
  <2>1. Dispatch /\ Filled /\ Shares /\ Product /\ \A i \in Jobs : AtWork(i)
    BY <1>4 DEF BInv, InProgress
  <2>2. /\ Jobs' = Jobs /\ Jobs \subseteq Workers /\ Sent' = Sent /\ Base' = Base
        /\ \A t : GatesOf(t)' = GatesOf(t)
    BY <1>1, ThreadsAssumption DEF Jobs, Workers, Sent, Base, GatesOf, JInv, JobsFit
  <2>3. \A i \in Workers : /\ job'[i].start = job[i].start /\ job'[i].end = job[i].end
                           /\ job'[i].gate = job[i].gate /\ Share(i)' = Share(i)
    BY DEF Same, Share
  <2>4. Dispatch'
    <3>1. pc = "request" => job'[i_thread] = job[i_thread] \/ i_thread = w
      BY <2>1 DEF Dispatch, Same
    <3>2. pc = "request" => job'[i_thread].counter = job[i_thread].counter /\ i_thread \in Workers
      BY <2>1, <3>1 DEF Dispatch
    <3> QED BY <1>1, <2>1, <2>2, <2>3, <3>2 DEF Dispatch, Executing
  <2>5. Filled'
    BY <1>1, <2>1, <2>2 DEF Filled
  <2>6. Shares'
    BY <1>1, <2>1, <2>2, <2>3 DEF Shares, Placed
  <2>7. \A t : Garbled(t) => Garbled(t)'
    BY <1>1, <2>2 DEF Garbled
  <2>8. \A i \in Jobs : \A t \in Share(i) : Left(i, t) => Left(i, t)'
    BY <1>1, <2>2 DEF Left, Same, Queued, Resting
  <2>9. Product'
    BY <1>1, <2>1, <2>2, <2>3, <2>7, <2>8 DEF Product, NotWritten
  <2>10. \A i \in Jobs : AtWork(i)'
    <3> TAKE i \in Jobs
    <3>1. CASE i = w
      BY <1>4, <3>1
    <3>2. CASE i # w
      <4>1. Same(i) /\ AtWork(i)
        BY <2>1, <2>2, <3>2
      <4> QED BY <4>1, <1>1, AtWorkSame
    <3> QED BY <3>1, <3>2
  <2> QED BY <2>2, <2>4, <2>5, <2>6, <2>9, <2>10 DEF InProgress
<1> QED BY <1>1, <1>3, <1>4 DEF BInv

LEMMA WaitStep ==
  ASSUME JInv, QInv, BInv, pc \notin Ending, NEW w \in Workers, WorkerWait(w)
  PROVE  BInv'
<1>1. /\ wpc[w] = "pop" /\ input' = [input EXCEPT ![w] = Waiting(@, w)]
      /\ wpc' = [wpc EXCEPT ![w] = "waiting"]
      /\ UNCHANGED <<shared, counter, gates, S, job, output, mine, at, labels>>
  BY DEF WorkerWait
<1>2. /\ input'[w].items = input[w].items /\ input'[w].running = input[w].running
      /\ wpc'[w] = "waiting"
  <2>1. input[w] \in [items : Seq(Nat), running : BOOLEAN, waiting : SUBSET {w}]
    BY DEF QInv, Queue
  <2>2. w \in DOMAIN input /\ w \in DOMAIN wpc
    BY DEF QInv
  <2> QED BY <1>1, <2>1, <2>2 DEF Waiting
<1>3. \A i \in Workers \ {w} : Same(i)
  BY <1>1 DEF Same, QInv
<1>4. Turn(w) /\ Resting(w)
  BY <1>1 DEF BInv, Resting
<1>5. /\ Asked(w)' = Asked(w) /\ Queued(w)' = Queued(w) /\ Idle(w)' = Idle(w)
      /\ Finished(w)' = Finished(w) /\ ~ Busy(w)
  BY <1>1, <1>2 DEF shared, dispatching, Asked, Queued, Idle, Finished, Busy, Resting
<1>6. Turn(w)'
  BY <1>2, <1>4, <1>5 DEF Turn
<1>7. \A t : Left(w, t) => Left(w, t)'
  BY <1>1, <1>5 DEF Left, shared, dispatching
<1>8. pc \in Active /\ w \in Jobs => AtWork(w)'
  <2> SUFFICES ASSUME pc \in Active, w \in Jobs PROVE AtWork(w)'
    OBVIOUS
  <2>1. AtWork(w)
    BY DEF BInv, InProgress
  <2>2. job' = job /\ args' = args /\ before' = before
    BY <1>1 DEF shared, args
  <2> QED BY <1>2, <1>5, <2>1, <2>2 DEF AtWork
<1>9. Types'
  BY <1>1 DEF BInv, Types, shared, dispatching
<1> QED BY <1>1, <1>3, <1>6, <1>7, <1>8, <1>9, WorkerFrame

LEMMA PopStep ==
  ASSUME JInv, QInv, BInv, pc \notin Ending, NEW w \in Workers, WorkerPop(w)
  PROVE  BInv'
<1>0. (wpc[w] = "pop" /\ ~ MustWait(input[w])) \/ (wpc[w] = "waiting" /\ Woken(input[w], w))
  BY DEF WorkerPop
<1>1. /\ input' = [input EXCEPT ![w] = Popped(@)]
      /\ wpc' = [wpc EXCEPT ![w] = "popped"]
      /\ UNCHANGED <<shared, counter, gates, S, job, output, mine, at, labels>>
  BY DEF WorkerPop
<1>2. Turn(w) /\ Resting(w) /\ input[w].running
  BY <1>0 DEF BInv, Resting, Turn
<1>3. input[w].items # <<>>
  BY <1>0, <1>2 DEF MustWait, QInv, PopFindsItem
<1>4. Queued(w) /\ Asked(w)
  BY <1>2, <1>3 DEF Turn, Idle, Busy, Finished
<1>5. /\ input'[w].items = <<>> /\ input'[w].running /\ wpc'[w] = "popped" /\ output'[w] = output[w]
  <2>1. input[w] \in [items : Seq(Nat), running : BOOLEAN, waiting : SUBSET {w}]
    BY DEF QInv, Queue
  <2>2. w \in DOMAIN input /\ w \in DOMAIN wpc
    BY DEF QInv
  <2>3. Tail(input[w].items) = <<>>
    BY <1>4 DEF Queued
  <2> QED BY <1>1, <1>2, <1>3, <2>1, <2>2, <2>3 DEF Popped
<1>6. \A i \in Workers \ {w} : Same(i)
  BY <1>1 DEF Same, QInv
<1>7. Turn(w)'
  <2>1. Busy(w)'
    BY <1>4, <1>5 DEF Busy, Queued
  <2>2. Asked(w)'
    BY <1>1, <1>4 DEF Asked, shared, dispatching
  <2> QED BY <1>5, <2>1, <2>2 DEF Turn
<1>8. pc \in Active /\ w \in Jobs => AtWork(w)'
  <2> SUFFICES ASSUME pc \in Active, w \in Jobs PROVE AtWork(w)'
    OBVIOUS
  <2>1. AtWork(w)
    BY DEF BInv, InProgress
  <2>2. job' = job /\ args' = args /\ before' = before
    BY <1>1 DEF shared, args
  <2> QED BY <1>4, <1>5, <2>1, <2>2 DEF AtWork
<1>9. Types'
  BY <1>1 DEF BInv, Types, shared, dispatching
<1>10. \A t : Left(w, t)'
  BY <1>5 DEF Left
<1> QED BY <1>1, <1>6, <1>7, <1>8, <1>9, <1>10, WorkerFrame

(* An instruction in progress, and the tuples of a worker's job.            *)
LEMMA InstructionKnows ==
  ASSUME BInv, pc \in Active
  PROVE  /\ Executing /\ InProgress /\ Types
         /\ Len(args.tuples) \in Nat \ {0} /\ Sent \in 0 .. Len(args.tuples)
         /\ \A t \in 0 .. Len(args.tuples) : Upto(args, t) \in Nat
         /\ \A t \in 1 .. Len(args.tuples) : args.upto[t] = Upto(args, t) /\ Upto(args, t - 1) < Upto(args, t)
         /\ \A s, t \in 0 .. Len(args.tuples) : s < t => Upto(args, s) < Upto(args, t)
         /\ Upto(args, 0) = 0 /\ Upto(args, Len(args.tuples)) = Total(args)
         /\ Base \in Nat /\ before.counter \in Nat /\ before.S \in [Reg -> Nat]
<1>1. InProgress /\ Executing /\ Types /\ Dispatch
  BY DEF BInv, InProgress, Dispatch, Active, Ending
<1>2. Base \in Nat /\ before.counter \in Nat /\ before.S \in [Reg -> Nat]
  BY <1>1 DEF Types, Base
<1>3. k \in DOMAIN Instrs /\ args = Instrs[k]
  BY <1>1 DEF Executing, args
<1>4. Len(args.tuples) \in Nat \ {0}
  BY <1>3, Sizes
<1>5. Sent \in 0 .. Len(args.tuples)
  <2>1. start \in Nat \ {0} /\ start <= Len(args.tuples) + 1
    BY <1>1 DEF Types, Dispatch
  <2>2. pc = "request" => j \in start .. Len(args.tuples)
    BY <1>1 DEF Dispatch
  <2> QED BY <1>4, <2>1, <2>2 DEF Sent
<1> QED BY <1>1, <1>2, <1>3, <1>4, <1>5, Sizes

LEMMA JobKnows ==
  ASSUME JInv, BInv, pc \in Active, NEW i \in Jobs
  PROVE  /\ i \in Workers /\ Placed(i) /\ AtWork(i)
         /\ job[i].start \in 1 .. job[i].end /\ job[i].end \in 1 .. Len(args.tuples)
         /\ Share(i) \subseteq 1 .. Len(args.tuples) /\ job[i].end \in 1 .. Sent
<1>1. i \in Workers
  BY ThreadsAssumption DEF Jobs, Workers, JInv, JobsFit
<1>2. Placed(i) /\ AtWork(i) /\ Sent \in 0 .. Len(args.tuples) /\ Len(args.tuples) \in Nat
  BY InstructionKnows DEF InProgress, Shares
<1>3. job[i] \in Fields
  BY <1>1, InstructionKnows DEF Types
<1>4. job[i].start \in Nat /\ job[i].end \in Nat
  BY <1>3 DEF Fields
<1> QED BY <1>1, <1>2, <1>4 DEF Placed, Share

LEMMA RunJobStep ==
  ASSUME JInv, QInv, BInv, pc \notin Ending, NEW w \in Workers, WorkerRun(w)
  PROVE  BInv'
<1>1. /\ wpc[w] = "popped"
      /\ mine' = [mine EXCEPT ![w] = job[w]]
      /\ at' = [at EXCEPT ![w] = job[w].start]
      /\ labels' = [labels EXCEPT ![w] = <<>>]
      /\ wpc' = [wpc EXCEPT ![w] = "labels"]
      /\ UNCHANGED <<shared, counter, gates, S, job, input, output>>
  BY DEF WorkerRun, queues
<1>2. /\ pc \in Active /\ Asked(w) /\ Busy(w) /\ w \in Jobs /\ AtWork(w) /\ input[w].running
      /\ ~ (pc = "request" /\ w = i_thread)
  BY <1>1, WorkingKnows DEF Resting
<1>3. Types /\ job[w] \in Fields /\ job[w].start \in Nat
  BY <1>2, InstructionKnows DEF Types, Fields
<1>4. /\ wpc'[w] = "labels" /\ mine'[w] = job[w] /\ at'[w] = job[w].start /\ labels'[w] = <<>>
      /\ job' = job /\ input' = input /\ output' = output /\ args' = args /\ before' = before
  BY <1>1, <1>3 DEF Types, QInv, shared, args
<1>5. \A i \in Workers \ {w} : Same(i)
  BY <1>1, <1>3 DEF Same, QInv, Types
<1>6. Turn(w)'
  BY <1>1, <1>2, <1>4 DEF Turn, Busy, Asked, shared, dispatching
<1>7. AtWork(w)'
  <2>1. /\ job[w].start \in 1 .. job[w].end /\ job[w].end \in 1 .. Len(args.tuples)
        /\ Len(args.tuples) \in Nat
        /\ \A t \in 0 .. Len(args.tuples) : Upto(args, t) \in Nat
    BY <1>2, JobKnows, InstructionKnows
  <2>2. job[w].start - 1 \in 0 .. Len(args.tuples)
    BY <2>1
  <2>3. Upto(args, job[w].start - 1) \in Nat
    BY <2>1, <2>2
  <2>4. Hashed(args, <<>>, job[w].start, job[w].start - 1, before.S, before.counter)
    <3>1. Len(<<>>) = 0 /\ Upto(args, job[w].start - 1) - Upto(args, job[w].start - 1) = 0
      BY <2>3, EmptyFacts
    <3>2. job[w].start .. job[w].start - 1 = {}
      BY <2>1
    <3> QED BY <3>1, <3>2 DEF Hashed
  <2>5. LabelsTo(w, job[w].start - 1)'
    BY <1>4, <2>4 DEF LabelsTo
  <2>6. at'[w] \in Share(w)'
    BY <1>4, <2>1 DEF Share
  <2>7. (wpc[w] = "labels" => LabelsTo(w, at[w] - 1))'
    BY <1>4, <2>4 DEF LabelsTo
  <2>8. job'[w].counter = before.counter + Upto(args, at'[w] - 1)
    BY <1>1, <1>2, <1>4 DEF AtWork
  <2>9. ~ Queued(w)'
    BY <1>4 DEF Queued, Resting
  <2> QED BY <1>4, <2>6, <2>7, <2>8, <2>9 DEF AtWork
<1>8. Types'
  <2>1. <<>> \in Seq(Label)
    OBVIOUS
  <2> QED BY <1>1, <1>3, <2>1 DEF Types, shared, dispatching
<1>9. \A t : Left(w, t)'
  BY <1>4 DEF Left
<1> QED BY <1>1, <1>4, <1>5, <1>6, <1>7, <1>8, <1>9, WorkerFrame

LEMMA PushStep ==
  ASSUME JInv, QInv, BInv, pc \notin Ending, NEW w \in Workers, WorkerPush(w)
  PROVE  BInv'
<1>1. /\ wpc[w] = "push"
      /\ wpc' = [wpc EXCEPT ![w] = "pop"]
      /\ UNCHANGED <<shared, counter, gates, S, job, input, mine, at, labels>>
  BY DEF WorkerPush
<1>2. PICK q \in Pushed(output[w], 0) : output' = [output EXCEPT ![w] = q]
  BY DEF WorkerPush
<1>3. /\ pc \in Active /\ Asked(w) /\ Busy(w) /\ w \in Jobs /\ AtWork(w) /\ input[w].running
      /\ ~ (pc = "request" /\ w = i_thread)
  BY <1>1, WorkingKnows DEF Resting
<1>4. /\ wpc'[w] = "pop" /\ output'[w] = q
      /\ job' = job /\ input' = input /\ args' = args /\ before' = before
  BY <1>1, <1>2 DEF QInv, shared, args
<1>5. q.items = <<0>>
  <2>1. output[w] \in [items : Seq(Nat), running : BOOLEAN, waiting : SUBSET {Main}]
    BY DEF QInv, Queue
  <2>2. Append(output[w].items, 0) = <<0>>
    BY <1>3 DEF Busy
  <2>3. PICK p : p = [output[w] EXCEPT !.items = Append(@, 0)]
    OBVIOUS
  <2>4. p.items = <<0>> /\ p \in [items : Seq(Nat), running : BOOLEAN, waiting : SUBSET {Main}]
    <3>1. <<0>> \in Seq(Nat)
      OBVIOUS
    <3> QED BY <2>1, <2>2, <2>3, <3>1
  <2>5. q = p \/ \E t \in p.waiting : q = [p EXCEPT !.waiting = @ \ {t}]
    BY <1>2, <2>3 DEF Pushed, Signalled
  <2> QED BY <2>4, <2>5
<1>6. \A i \in Workers \ {w} : Same(i)
  BY <1>1, <1>2 DEF Same, QInv
<1>7. Finished(w)' /\ ~ Queued(w)'
  <2>1. <<0>> # <<>>
    OBVIOUS
  <2> QED BY <1>3, <1>4, <1>5, <2>1 DEF Finished, Queued, Busy, Resting
<1>8. Turn(w)'
  BY <1>1, <1>3, <1>4, <1>7 DEF Turn, Asked, shared, dispatching
<1>9. AtWork(w)'
  BY <1>4, <1>7 DEF AtWork
<1>10. Types'
  BY <1>1, <1>3, InstructionKnows DEF Types, shared, dispatching
<1>11. \A t : ~ Left(w, t)
  BY <1>1, <1>3 DEF Left, Queued, Busy, Resting
<1> QED BY <1>1, <1>4, <1>6, <1>8, <1>9, <1>10, <1>11, WorkerFrame

(* Inputs of an instruction are not among its outputs, so they keep their    *)
(* keys.                                                                    *)
LEMMA InputsKept ==
  ASSUME BInv, pc \in Active, NEW t \in 1 .. Len(args.tuples)
  PROVE  /\ Inputs(args, t, S) = Inputs(args, t, before.S)
         /\ Inputs(args, t, before.S) \in Nat \X Nat
         /\ args.tuples[t] \in Tuple
<1>1. k \in DOMAIN Instrs /\ args = Instrs[k] /\ Product /\ before.S \in [Reg -> Nat]
  BY InstructionKnows DEF Executing, args, InProgress
<1>2. args.tuples[t] \in Tuple
  BY <1>1, WrittenFacts
<1>3. PICK l, r : l = args.tuples[t].left /\ r = args.tuples[t].right /\ l \in Reg /\ r \in Reg
  BY <1>2 DEF Tuple
<1>4. WellFormedInstr(args)
  BY <1>1, InstrsAssumption
<1>5. \A u \in 1 .. Len(args.tuples) : args.tuples[u].out \notin {args.tuples[t].left, args.tuples[t].right}
  BY <1>4 DEF WellFormedInstr
<1>6. NotWritten(l) /\ NotWritten(r)
  BY <1>3, <1>5 DEF NotWritten
<1>7. S[l] = before.S[l] /\ S[r] = before.S[r] /\ before.S[l] \in Nat /\ before.S[r] \in Nat
  BY <1>1, <1>3, <1>6 DEF Product
<1> QED BY <1>2, <1>3, <1>7 DEF Inputs

LEMMA HashedNext ==
  ASSUME NEW n \in DOMAIN Instrs, NEW x, x = Instrs[n], NEW list \in Seq(Label), NEW more \in Seq(Label),
         NEW t \in 1 .. Len(x.tuples), NEW first \in 1 .. t, NEW keys, NEW c,
         Hashed(x, list, first, t - 1, keys, c),
         Len(more) = Upto(x, t) - Upto(x, t - 1),
         \A m \in 1 .. Len(more) : more[m] = [keys |-> Inputs(x, t, keys), T |-> c + (Upto(x, t - 1) + m)]
  PROVE  Hashed(x, list \o more, first, t, keys, c)
<1>1. PICK l, a, b, d : /\ l = Len(x.tuples) /\ a = Upto(x, first - 1) /\ b = Upto(x, t - 1)
                        /\ d = Upto(x, t)
  OBVIOUS
<1>2. /\ l \in Nat \ {0} /\ \A u \in 0 .. l : Upto(x, u) \in Nat
      /\ \A u, v \in 0 .. l : u < v => Upto(x, u) < Upto(x, v)
  BY <1>1, Sizes
<1>3. /\ t \in 1 .. l /\ first \in 1 .. t /\ first - 1 \in 0 .. l /\ t - 1 \in 0 .. l /\ t \in 0 .. l
      /\ first \in Nat /\ t \in Nat
  BY <1>1, <1>2
<1>4. a \in Nat /\ b \in Nat /\ d \in Nat /\ b < d
  BY <1>1, <1>2, <1>3
<1>5. PICK s : s = list \o more
  OBVIOUS
<1>6. Len(list) = b - a /\ Len(list) \in Nat /\ Len(more) = d - b /\ Len(more) \in Nat
  <2>1. Len(list) = b - a
    BY <1>1 DEF Hashed
  <2> QED BY <1>1, <2>1
<1>9. /\ Len(s) = Len(list) + Len(more)
      /\ \A m \in 1 .. Len(list) : s[m] = list[m]
      /\ \A m \in 1 .. Len(more) : s[Len(list) + m] = more[m]
  <2>1. IsSeq(list) /\ IsSeq(more)
    BY DEF IsSeq
  <2>2. s = Cat(list, more)
    BY <1>5 DEF Cat
  <2> QED BY <2>1, <2>2, CatElements
<1>7. Len(s) = d - a
  BY <1>4, <1>6, <1>9
<1>8. ASSUME NEW u \in first .. t, NEW g \in Upto(x, u - 1) + 1 .. Upto(x, u)
      PROVE  s[g - a] = [keys |-> Inputs(x, u, keys), T |-> c + g]
  <2>1. u \in 0 .. l /\ u - 1 \in 0 .. l /\ u \in Nat /\ u \in first .. t
    BY <1>2, <1>3
  <2>2. PICK e, f : e = Upto(x, u - 1) /\ f = Upto(x, u) /\ e \in Nat /\ f \in Nat
    BY <1>2, <2>1
  <2>3. g \in e + 1 .. f /\ g \in Nat
    BY <2>2
  <2>4. CASE u = t
    <3>1. e = b /\ f = d
      BY <1>1, <2>2, <2>4
    <3>2. g - b \in 1 .. Len(more) /\ g - a = Len(list) + (g - b) /\ b + (g - b) = g
      BY <1>4, <1>6, <2>3, <3>1
    <3>3. s[g - a] = more[g - b]
      BY <1>9, <3>2
    <3>4. more[g - b] = [keys |-> Inputs(x, t, keys), T |-> c + (b + (g - b))]
      BY <1>1, <3>2
    <3> QED BY <2>4, <3>2, <3>3, <3>4
  <2>5. CASE u # t
    <3>1. u \in first .. t - 1 /\ u <= t - 1 /\ first - 1 <= u - 1
      BY <1>3, <2>1, <2>5
    <3>2. f <= b
      BY <1>1, <1>3, <2>1, <2>2, <3>1, SizesGrow
    <3>3. a <= e
      BY <1>1, <1>3, <2>1, <2>2, <3>1, SizesGrow
    <3>4. g - a \in 1 .. Len(list)
      <4>1. g \in a + 1 .. b
        BY <1>4, <2>2, <2>3, <3>2, <3>3, SMTT(30)
      <4> QED BY <1>4, <1>6, <4>1, SMTT(30)
    <3>5. s[g - a] = list[g - a]
      BY <1>9, <3>4
    <3>6. list[g - a] = [keys |-> Inputs(x, u, keys), T |-> c + g]
      BY <1>1, <3>1 DEF Hashed
    <3> QED BY <3>5, <3>6
  <2> QED BY <2>4, <2>5
<1> QED BY <1>1, <1>5, <1>7, <1>8 DEF Hashed

LEMMA LabelsStep ==
  ASSUME JInv, QInv, BInv, pc \notin Ending, NEW w \in Workers, WorkerLabels(w)
  PROVE  BInv'
<1>1. wpc[w] = "labels"
  BY DEF WorkerLabels
<1>2. /\ pc \in Active /\ Asked(w) /\ Busy(w) /\ w \in Jobs /\ AtWork(w) /\ input[w].running
      /\ ~ (pc = "request" /\ w = i_thread)
  BY <1>1, WorkingKnows DEF Resting
<1>3. PICK t : t = at[w]
  OBVIOUS
<1>4. /\ Types /\ Len(args.tuples) \in Nat \ {0} /\ k \in DOMAIN Instrs /\ args = Instrs[k]
      /\ \A u \in 0 .. Len(args.tuples) : Upto(args, u) \in Nat
      /\ \A u \in 1 .. Len(args.tuples) : args.upto[u] = Upto(args, u) /\ Upto(args, u - 1) < Upto(args, u)
      /\ before.counter \in Nat /\ before.S \in [Reg -> Nat]
  BY <1>2, InstructionKnows DEF Executing, args
<1>5. /\ job[w].start \in 1 .. job[w].end /\ job[w].end \in 1 .. Len(args.tuples)
      /\ t \in job[w].start .. job[w].end /\ t \in 1 .. Len(args.tuples)
      /\ mine[w].start = job[w].start /\ mine[w].end = job[w].end /\ mine[w].gate = job[w].gate
      /\ job[w].counter = before.counter + Upto(args, t - 1)
      /\ LabelsTo(w, t - 1)
  BY <1>1, <1>2, <1>3, JobKnows DEF AtWork, Share
<1>6. PICK a, d, c, keys : /\ a = Upto(args, t - 1) /\ d = Upto(args, t) /\ c = before.counter
                           /\ keys = Inputs(args, t, before.S)
  OBVIOUS
<1>7. t \in Nat /\ t - 1 \in 0 .. Len(args.tuples) /\ t \in 0 .. Len(args.tuples)
  BY <1>4, <1>5
<1>8. a \in Nat /\ d \in Nat /\ a < d /\ c \in Nat /\ keys \in Nat \X Nat /\ Inputs(args, t, S) = keys
  BY <1>2, <1>4, <1>5, <1>6, <1>7, InputsKept
<1>9. PICK size : size = Size(t) /\ size = d - a /\ size \in Nat
  BY <1>4, <1>5, <1>6, <1>8, SMTT(30) DEF Size
<1>10. PICK more : more = [n \in 1 .. size |-> [keys |-> keys, T |-> c + a + n]]
  OBVIOUS
<1>11. more \in Seq(Label) /\ Len(more) = size
  <2>1. \A n \in 1 .. size : [keys |-> keys, T |-> c + a + n] \in Label
    BY <1>8, <1>9 DEF Label
  <2>2. more \in [1 .. size -> Label]
    BY <1>10, <2>1
  <2> QED BY <1>9, <2>2
<1>12. labels' = [labels EXCEPT ![w] = @ \o more]
  <2>1. labels' = [labels EXCEPT ![w] = @ \o
                     [n \in 1 .. Size(t) |-> [keys |-> Inputs(args, t, S), T |-> job[w].counter + n]]]
    BY <1>3 DEF WorkerLabels
  <2> QED BY <1>5, <1>6, <1>8, <1>9, <1>10, <2>1
<1>13. /\ job' = [job EXCEPT ![w].counter = @ + size]
       /\ UNCHANGED <<shared, counter, gates, S, input, output, mine>>
  BY <1>3, <1>9 DEF WorkerLabels, queues
<1>14. job[w] \in Fields /\ w \in DOMAIN job /\ w \in DOMAIN labels /\ w \in DOMAIN at /\ w \in DOMAIN wpc
       /\ labels[w] \in Seq(Label)
  BY <1>4 DEF Types, QInv
<1>15. /\ job'[w].start = job[w].start /\ job'[w].end = job[w].end /\ job'[w].gate = job[w].gate
       /\ job'[w].counter = c + d /\ job'[w] \in Fields
  <2>1. job'[w] = [job[w] EXCEPT !.counter = @ + size]
    BY <1>13, <1>14
  <2>2. job[w].counter = c + a
    BY <1>5, <1>6
  <2>3. c + a + size = c + d /\ c + d \in Nat
    BY <1>8, <1>9
  <2> QED BY <1>14, <2>1, <2>2, <2>3 DEF Fields
<1>16. labels'[w] = labels[w] \o more /\ labels'[w] \in Seq(Label)
  BY <1>11, <1>12, <1>14
<1>17. Hashed(args, labels'[w], job[w].start, t, before.S, before.counter)
  <2>1. Hashed(args, labels[w], job[w].start, t - 1, before.S, before.counter)
    BY <1>5 DEF LabelsTo
  <2>2. \A m \in 1 .. Len(more) : more[m] = [keys |-> Inputs(args, t, before.S),
                                             T |-> before.counter + (Upto(args, t - 1) + m)]
    <3> TAKE m \in 1 .. Len(more)
    <3>1. m \in 1 .. size /\ c + a + m = c + (a + m)
      BY <1>8, <1>9, <1>11
    <3>2. more[m] = [keys |-> keys, T |-> c + (a + m)]
      BY <1>10, <3>1
    <3> QED BY <1>6, <3>2
  <2>3. job[w].start \in 1 .. t
    BY <1>5, <1>7
  <2>4. Len(more) = Upto(args, t) - Upto(args, t - 1)
    BY <1>6, <1>9, <1>11
  <2> QED BY <1>4, <1>5, <1>11, <1>14, <1>16, <2>1, <2>2, <2>3, <2>4, HashedNext
<1>18. (t < job[w].end /\ at'[w] = t + 1 /\ wpc'[w] = "labels")
         \/ (t = job[w].end /\ at'[w] = job[w].start /\ wpc'[w] = "garble")
  <2>1. IF t < mine[w].end THEN at' = [at EXCEPT ![w] = @ + 1] /\ wpc' = wpc
        ELSE at' = [at EXCEPT ![w] = mine[w].start] /\ wpc' = [wpc EXCEPT ![w] = "garble"]
    BY <1>3 DEF WorkerLabels
  <2> QED BY <1>1, <1>3, <1>5, <1>14, <2>1
<1>19. \A i \in Workers \ {w} : Same(i)
  <2>1. \A i \in Workers \ {w} : at'[i] = at[i] /\ wpc'[i] = wpc[i]
    BY <1>4 DEF WorkerLabels, Types, QInv
  <2> QED BY <1>4, <1>12, <1>13, <2>1 DEF Same, Types
<1>20. args' = args /\ before' = before /\ mine' = mine /\ pc' = pc /\ j' = j /\ i_thread' = i_thread
  BY <1>13 DEF shared, dispatching, args
<1>21. Turn(w)'
  <2>1. Busy(w)' /\ Asked(w)'
    BY <1>2, <1>13, <1>18, <1>20 DEF Busy, Asked
  <2> QED BY <1>2, <1>13, <2>1 DEF Turn
<1>22. AtWork(w)'
  <2>1. at'[w] \in Share(w)' /\ at'[w] \in Nat
    BY <1>5, <1>7, <1>15, <1>18 DEF Share
  <2>2. /\ mine'[w].start = job'[w].start /\ mine'[w].end = job'[w].end
        /\ mine'[w].gate = job'[w].gate
    BY <1>5, <1>15, <1>20
  <2>3. wpc'[w] \in {"labels", "garble"} /\ ~ Queued(w)'
    BY <1>18 DEF Queued, Resting
  <2>4. wpc'[w] = "labels" => /\ job'[w].counter = before'.counter + Upto(args', at'[w] - 1)
                              /\ LabelsTo(w, at[w] - 1)'
    <3> SUFFICES ASSUME wpc'[w] = "labels"
                 PROVE  /\ job'[w].counter = before'.counter + Upto(args', at'[w] - 1)
                        /\ LabelsTo(w, at[w] - 1)'
      OBVIOUS
    <3>1. at'[w] - 1 = t
      BY <1>7, <1>18
    <3> QED BY <1>6, <1>15, <1>17, <1>20, <3>1 DEF LabelsTo
  <2>5. wpc'[w] = "garble" => LabelsTo(w, job[w].end)'
    BY <1>15, <1>17, <1>18, <1>20 DEF LabelsTo
  <2> QED BY <2>1, <2>2, <2>3, <2>4, <2>5 DEF AtWork
<1>23. Types'
  <2>1. at' \in [Workers -> Nat]
    <3>1. at'[w] \in Nat
      <4>1. t + 1 \in Nat /\ job[w].start \in Nat
        BY <1>5, <1>7
      <4> QED BY <1>18, <4>1
    <3>2. at \in [Workers -> Nat]
      BY <1>4 DEF Types
    <3>3. at' = [at EXCEPT ![w] = at'[w]]
      BY <3>2 DEF WorkerLabels
    <3> QED BY <3>1, <3>2, <3>3
  <2>2. job' \in [Workers -> Fields]
    BY <1>4, <1>13, <1>15 DEF Types
  <2>3. labels' \in [Workers -> Seq(Label)]
    BY <1>4, <1>12, <1>16 DEF Types
  <2> QED BY <1>4, <1>13, <2>1, <2>2, <2>3 DEF Types, shared, dispatching
<1>24. \A u \in Share(w) : Left(w, u)'
  <2> TAKE u \in Share(w)
  <2>1. wpc'[w] = "garble" => at'[w] <= u
    BY <1>5, <1>18 DEF Share
  <2> QED BY <1>18, <2>1 DEF Left
<1> QED BY <1>2, <1>13, <1>15, <1>19, <1>21, <1>22, <1>23, <1>24, WorkerFrame

(* Gates stored through a live pointer; the rest of the buffer stays.        *)
LEMMA StoredFacts ==
  ASSUME NEW b \in [id : Nat, max_len : Nat, slots : Seq(Known)], NEW p, p.id = b.id, p.pos \in Nat,
         NEW n \in Nat, NEW gs \in [1 .. n -> Known], NEW r, r = Stored(b, p, gs)
  PROVE  /\ r \in [id : Nat, max_len : Nat, slots : Seq(Known)] /\ r.id = b.id
         /\ Len(r.slots) = Len(b.slots)
         /\ \A g \in 1 .. Len(b.slots) :
              r.slots[g] = IF g - p.pos \in 1 .. n THEN gs[g - p.pos] ELSE b.slots[g]
<1>1. PICK s, l : s = b.slots /\ l = Len(s) /\ s \in Seq(Known) /\ l \in Nat /\ DOMAIN s = 1 .. l
  OBVIOUS
<1>2. PICK f : f = [g \in 1 .. l |-> IF g - p.pos \in 1 .. n THEN gs[g - p.pos] ELSE s[g]]
  OBVIOUS
<1>3. f \in [1 .. l -> Known]
  <2>1. \A g \in 1 .. l : s[g] \in Known
    BY <1>1
  <2>2. \A g \in 1 .. n : gs[g] \in Known
    OBVIOUS
  <2> QED BY <1>2, <2>1, <2>2
<1>4. f \in Seq(Known) /\ Len(f) = l
  BY <1>1, <1>3
<1>5. r = [b EXCEPT !.slots = f]
  BY <1>1, <1>2 DEF Stored
<1>6. r.slots = f /\ r.id = b.id /\ r \in [id : Nat, max_len : Nat, slots : Seq(Known)]
  BY <1>4, <1>5
<1> QED BY <1>1, <1>2, <1>4, <1>6

(* What garbling a tuple does to buffer and registers.                      *)
LEMMA GarbleFacts ==
  ASSUME JInv, QInv, BInv, pc \notin Ending, NEW w \in Workers, WorkerGarble(w), NEW t, t = at[w]
  PROVE  /\ t \in Share(w) /\ t \in 1 .. Sent
         /\ gates' \in [id : Nat, max_len : Nat, slots : Seq(Known)] /\ gates'.id = gates.id
         /\ Len(gates'.slots) = Len(gates.slots)
         /\ \A g \in 1 .. Len(gates.slots) : g - Base \notin GatesOf(t) => gates'.slots[g] = gates.slots[g]
         /\ \A g \in GatesOf(t) :
              gates'.slots[Base + g] =
                Gate(Inputs(args, t, before.S), Inputs(args, t, before.S),
                     before.counter + Upto(args, t - 1) + 1, before.counter + g)
         /\ S' = [S EXCEPT ![args.tuples[t].out] = before.counter + Upto(args, t - 1) + 1]
         /\ args.tuples[t] \in Tuple /\ before.counter + Upto(args, t - 1) + 1 \in Nat
<1>1. wpc[w] = "garble"
  BY DEF WorkerGarble
<1>2. /\ pc \in Active /\ w \in Jobs /\ AtWork(w) /\ Placed(w)
  BY <1>1, WorkingKnows DEF Resting
<1>3. /\ Types /\ Len(args.tuples) \in Nat \ {0} /\ k \in DOMAIN Instrs /\ args = Instrs[k]
      /\ \A u \in 0 .. Len(args.tuples) : Upto(args, u) \in Nat
      /\ \A u \in 1 .. Len(args.tuples) : args.upto[u] = Upto(args, u) /\ Upto(args, u - 1) < Upto(args, u)
      /\ before.counter \in Nat /\ Base \in Nat /\ Filled /\ Sent \in 0 .. Len(args.tuples)
  BY <1>2, InstructionKnows DEF Executing, args, InProgress
<1>4. PICK s, last : s = job[w].start /\ last = job[w].end
  OBVIOUS
<1>5. /\ s \in 1 .. last /\ last \in 1 .. Len(args.tuples) /\ t \in s .. last /\ last \in 1 .. Sent
      /\ mine[w].start = s /\ mine[w].gate = job[w].gate
      /\ Hashed(args, labels[w], s, last, before.S, before.counter)
      /\ job[w].gate = [id |-> gates.id, pos |-> Base + Upto(args, s - 1)]
  BY <1>1, <1>2, <1>4, JobKnows DEF AtWork, Share, LabelsTo, Placed
<1>6. PICK a, d, e, c, keys, base :
        /\ a = Upto(args, t - 1) /\ d = Upto(args, t) /\ e = Upto(args, s - 1) /\ c = before.counter
        /\ keys = Inputs(args, t, before.S) /\ base = Base
  OBVIOUS
<1>7. /\ t \in Nat /\ t - 1 \in 0 .. Len(args.tuples) /\ t \in 1 .. Len(args.tuples) /\ s \in Nat
      /\ s - 1 \in 0 .. Len(args.tuples) /\ s - 1 <= t - 1 /\ t \in 0 .. Len(args.tuples) /\ t \in 1 .. Sent
      /\ t <= Sent /\ Sent \in 0 .. Len(args.tuples)
  <2>1. PICK l, n : l = Len(args.tuples) /\ n = Sent
    OBVIOUS
  <2>2. /\ l \in Nat /\ n \in 0 .. l /\ s \in 1 .. last /\ last \in 1 .. l /\ t \in s .. last
        /\ last \in 1 .. n
    BY <1>3, <1>5, <2>1
  <2>3. /\ t \in Nat /\ t - 1 \in 0 .. l /\ t \in 1 .. l /\ s \in Nat
        /\ s - 1 \in 0 .. l /\ s - 1 <= t - 1 /\ t \in 0 .. l /\ t \in 1 .. n /\ t <= n
    BY <2>2
  <2> QED BY <2>1, <2>2, <2>3
<1>8. a \in Nat /\ d \in Nat /\ e \in Nat /\ a < d /\ e <= a /\ c \in Nat /\ base \in Nat
  <2>1. e <= a
    BY <1>3, <1>6, <1>7, SizesGrow
  <2> QED BY <1>3, <1>6, <1>7, <2>1
<1>9. keys \in Nat \X Nat /\ Inputs(args, t, S) = keys /\ args.tuples[t] \in Tuple
  BY <1>2, <1>6, <1>7, InputsKept
<1>10. \A g \in a + 1 .. d : labels[w][g - e] = [keys |-> keys, T |-> c + g]
  BY <1>5, <1>6 DEF Hashed
<1>11. PICK first, size, key : first = a - e /\ size = d - a /\ key = c + a + 1
  OBVIOUS
<1>12. first \in Nat /\ size \in Nat /\ key \in Nat
  BY <1>8, <1>11
<1>13. first = Upto(args, t - 1) - Upto(args, mine[w].start - 1) /\ size = Size(t)
  BY <1>3, <1>5, <1>6, <1>7, <1>11 DEF Size
<1>14. \A n \in 1 .. size : labels[w][first + n] = [keys |-> keys, T |-> c + (a + n)]
  <2> TAKE n \in 1 .. size
  <2>1. a + n \in a + 1 .. d /\ first + n = (a + n) - e
    BY <1>8, <1>11, <1>12
  <2>2. labels[w][(a + n) - e] = [keys |-> keys, T |-> c + (a + n)]
    BY <1>10, <2>1
  <2> QED BY <2>1, <2>2
<1>15. key = labels[w][first + 1].T
  <2>1. 1 \in 1 .. size /\ key = c + (a + 1)
    BY <1>8, <1>11, <1>12
  <2>2. labels[w][first + 1] = [keys |-> keys, T |-> c + (a + 1)]
    BY <1>14, <2>1
  <2> QED BY <2>1, <2>2
<1>16. PICK gs : gs = [n \in 1 .. size |-> Gate(keys, keys, key, c + (a + n))]
  OBVIOUS
<1>17. gs \in [1 .. size -> Known]
  <2>1. \A n \in 1 .. size : Gate(keys, keys, key, c + (a + n)) \in Known
    BY <1>8, <1>9, <1>12 DEF Gate, Known
  <2> QED BY <1>16, <2>1
<1>18. PICK p : p = [mine[w].gate EXCEPT !.pos = @ + first]
  OBVIOUS
<1>19. p.id = gates.id /\ p.pos = base + a /\ p.pos \in Nat
  <2>1. mine[w].gate = [id |-> gates.id, pos |-> base + e]
    BY <1>5, <1>6
  <2>2. base + e + (a - e) = base + a
    BY <1>8
  <2> QED BY <1>8, <1>11, <1>18, <2>1, <2>2
<1>20. S' = [S EXCEPT ![args.tuples[t].out] = key] /\ gates' = Stored(gates, p, gs)
  <2>1. /\ S' = [S EXCEPT ![args.tuples[t].out] = labels[w][first + 1].T]
        /\ gates' = Stored(gates, [mine[w].gate EXCEPT !.pos = @ + first],
                      [n \in 1 .. Size(t) |->
                         Gate(labels[w][first + n].keys, Inputs(args, t, S), labels[w][first + 1].T,
                              labels[w][first + n].T)])
    BY <1>13 DEF WorkerGarble
  <2>2. [n \in 1 .. Size(t) |-> Gate(labels[w][first + n].keys, Inputs(args, t, S),
                                     labels[w][first + 1].T, labels[w][first + n].T)] = gs
    <3>1. \A n \in 1 .. size : labels[w][first + n].keys = keys /\ labels[w][first + n].T = c + (a + n)
      <4> TAKE n \in 1 .. size
      <4>1. labels[w][first + n] = [keys |-> keys, T |-> c + (a + n)]
        BY <1>14
      <4> QED BY <4>1
    <3>2. Inputs(args, t, S) = keys /\ Size(t) = size
      BY <1>9, <1>13
    <3> QED BY <1>15, <1>16, <3>1, <3>2
  <2> QED BY <1>15, <1>18, <2>1, <2>2
<1>21. PICK r : r = gates'
  OBVIOUS
<1>22. gates \in [id : Nat, max_len : Nat, slots : Seq(Known)]
  BY <1>3 DEF Types
<1>23. /\ r \in [id : Nat, max_len : Nat, slots : Seq(Known)] /\ r.id = gates.id
       /\ Len(r.slots) = Len(gates.slots)
       /\ \A g \in 1 .. Len(gates.slots) :
            r.slots[g] = IF g - (base + a) \in 1 .. size THEN gs[g - (base + a)] ELSE gates.slots[g]
  BY <1>12, <1>17, <1>19, <1>20, <1>21, <1>22, StoredFacts
<1>24. \A g \in 1 .. Len(gates.slots) : g - base \notin a + 1 .. d => r.slots[g] = gates.slots[g]
  <2> TAKE g \in 1 .. Len(gates.slots)
  <2>1. g \in Int
    OBVIOUS
  <2>2. g - (base + a) \in 1 .. size => g - base \in a + 1 .. d
    BY <1>8, <1>11, <2>1
  <2> QED BY <1>23, <2>2
<1>25. Len(gates.slots) = base + Upto(args, Sent) /\ d <= Upto(args, Sent) /\ Upto(args, Sent) \in Nat
  <2>1. Upto(args, t) <= Upto(args, Sent) /\ Upto(args, Sent) \in Nat
    BY <1>3, <1>7, SizesGrow
  <2> QED BY <1>3, <1>6, <2>1 DEF Filled
<1>26. ASSUME NEW g \in a + 1 .. d
       PROVE  r.slots[base + g] = Gate(keys, keys, key, c + g)
  <2>1. PICK u : u = Upto(args, Sent) /\ u \in Nat /\ d <= u /\ Len(gates.slots) = base + u
    BY <1>25
  <2>2. base + g \in 1 .. Len(gates.slots)
    BY <1>8, <2>1
  <2>3. (base + g) - (base + a) = g - a /\ g - a \in 1 .. size /\ a + (g - a) = g
    BY <1>8, <1>11
  <2>4. r.slots[base + g] = gs[g - a]
    BY <1>23, <2>2, <2>3
  <2>5. gs[g - a] = Gate(keys, keys, key, c + (a + (g - a)))
    BY <1>16, <2>3
  <2> QED BY <2>3, <2>4, <2>5
<1>27. GatesOf(t) = a + 1 .. d /\ t \in Share(w)
  BY <1>4, <1>5, <1>6 DEF GatesOf, Share
<1> QED BY <1>6, <1>7, <1>9, <1>11, <1>12, <1>20, <1>21, <1>23, <1>24, <1>26, <1>27

LEMMA GarbleStep ==
  ASSUME JInv, QInv, BInv, pc \notin Ending, NEW w \in Workers, WorkerGarble(w)
  PROVE  BInv'
<1>1. PICK t : t = at[w]
  OBVIOUS
<1>2. wpc[w] = "garble" /\ UNCHANGED <<shared, counter, job, input, output, mine>>
  BY DEF WorkerGarble, queues
<1>3. /\ pc \in Active /\ Asked(w) /\ Busy(w) /\ w \in Jobs /\ AtWork(w) /\ input[w].running
  BY <1>2, WorkingKnows DEF Resting
<1>4. /\ t \in Share(w) /\ t \in 1 .. Sent
      /\ gates' \in [id : Nat, max_len : Nat, slots : Seq(Known)] /\ gates'.id = gates.id
      /\ Len(gates'.slots) = Len(gates.slots)
      /\ \A g \in 1 .. Len(gates.slots) : g - Base \notin GatesOf(t) => gates'.slots[g] = gates.slots[g]
      /\ \A g \in GatesOf(t) :
           gates'.slots[Base + g] =
             Gate(Inputs(args, t, before.S), Inputs(args, t, before.S),
                  before.counter + Upto(args, t - 1) + 1, before.counter + g)
      /\ S' = [S EXCEPT ![args.tuples[t].out] = before.counter + Upto(args, t - 1) + 1]
      /\ args.tuples[t] \in Tuple /\ before.counter + Upto(args, t - 1) + 1 \in Nat
  BY <1>1, GarbleFacts
<1>5. /\ Dispatch /\ Filled /\ Shares /\ Product /\ \A i \in Jobs : AtWork(i)
      /\ Types /\ Len(args.tuples) \in Nat \ {0} /\ k \in DOMAIN Instrs /\ args = Instrs[k]
      /\ Base \in Nat /\ Sent \in 0 .. Len(args.tuples)
      /\ \A u \in 0 .. Len(args.tuples) : Upto(args, u) \in Nat
  BY <1>3, InstructionKnows DEF InProgress, Executing, args
<1>6. /\ pc' = pc /\ k' = k /\ j' = j /\ start' = start /\ i_gate' = i_gate
      /\ i_thread' = i_thread /\ before' = before /\ args' = args
      /\ counter' = counter /\ job' = job /\ input' = input /\ output' = output /\ mine' = mine
  BY <1>2 DEF shared, dispatching, args
<1>7. (t < job[w].end /\ at'[w] = t + 1 /\ wpc'[w] = "garble" /\ labels'[w] = labels[w])
        \/ (t = job[w].end /\ at'[w] = at[w] /\ wpc'[w] = "push" /\ labels'[w] = <<>>)
  <2>1. IF t < mine[w].end
        THEN at' = [at EXCEPT ![w] = @ + 1] /\ UNCHANGED <<wpc, labels>>
        ELSE /\ wpc' = [wpc EXCEPT ![w] = "push"] /\ labels' = [labels EXCEPT ![w] = <<>>] /\ at' = at
    BY <1>1 DEF WorkerGarble
  <2>2. mine[w].end = job[w].end /\ w \in DOMAIN at /\ w \in DOMAIN wpc /\ w \in DOMAIN labels
    BY <1>2, <1>3, <1>5 DEF AtWork, Types, QInv
  <2>3. t \in Nat /\ job[w].end \in Nat /\ t <= job[w].end
    BY <1>3, <1>4, JobKnows DEF Share
  <2> QED BY <1>1, <1>2, <2>1, <2>2, <2>3
<1>8. \A i \in Workers \ {w} : Same(i)
  <2>1. \A i \in Workers \ {w} : at'[i] = at[i] /\ wpc'[i] = wpc[i] /\ labels'[i] = labels[i]
    BY <1>5 DEF WorkerGarble, Types, QInv
  <2> QED BY <1>6, <2>1 DEF Same
<1>9. /\ Jobs' = Jobs /\ Sent' = Sent /\ Base' = Base
      /\ \A u : GatesOf(u)' = GatesOf(u)
      /\ \A i : Share(i)' = Share(i)
  BY <1>6 DEF Jobs, Sent, Base, GatesOf, Share
<1>10. \A i \in Jobs : i \in Workers /\ Share(i) \subseteq 1 .. Len(args.tuples)
  BY <1>3, JobKnows
<1>11. \A i \in Workers : Turn(i)'
  <2> TAKE i \in Workers
  <2>1. CASE i = w
    <3>1. Busy(w)' /\ Asked(w)'
      BY <1>3, <1>6, <1>7 DEF Busy, Asked
    <3> QED BY <1>3, <1>6, <2>1, <3>1 DEF Turn
  <2>2. CASE i # w
    <3>1. Same(i) /\ Turn(i)
      BY <1>8, <2>2 DEF BInv
    <3> QED BY <3>1, <1>6 DEF Same, Turn, Queued, Busy, Finished, Idle, Resting, Asked
  <2> QED BY <2>1, <2>2
<1>12. Types'
  <2>1. S' \in [Reg -> Nat]
    BY <1>4, <1>5 DEF Types, Tuple
  <2>2. at' \in [Workers -> Nat] /\ labels' \in [Workers -> Seq(Label)]
    <3>1. <<>> \in Seq(Label)
      OBVIOUS
    <3>2. at \in [Workers -> Nat] /\ labels \in [Workers -> Seq(Label)]
      BY <1>5 DEF Types
    <3>3. (at' = [at EXCEPT ![w] = @ + 1] \/ at' = at)
          /\ (labels' = labels \/ labels' = [labels EXCEPT ![w] = <<>>])
      BY DEF WorkerGarble
    <3>4. at' \in [Workers -> Nat]
      <4>1. at[w] + 1 \in Nat
        BY <3>2
      <4> QED BY <3>2, <3>3, <4>1
    <3> QED BY <3>1, <3>2, <3>3, <3>4
  <2> QED BY <1>4, <1>5, <1>6, <2>1, <2>2 DEF Types
<1>13. Dispatch'
  BY <1>5, <1>6 DEF Dispatch, Executing, Jobs
<1>14. Filled'
  <2>1. Len(gates.slots) = Base + Upto(args, Sent) /\ Upto(args, Sent) \in Nat
    BY <1>5 DEF Filled
  <2>2. PICK u, b : u = Upto(args, Sent) /\ b = Base /\ u \in Nat /\ b \in Nat /\ Len(gates.slots) = b + u
    BY <1>5, <2>1
  <2>3. t - 1 \in 0 .. Len(args.tuples)
    BY <1>4, <1>5
  <2>4. PICK a : a = Upto(args, t - 1) /\ a \in Nat
    BY <1>5, <2>3
  <2>5. \A g \in 1 .. b : g \in 1 .. Len(gates.slots) /\ g - b \notin GatesOf(t)
    <3> TAKE g \in 1 .. b
    <3>1. g \in 1 .. b + u /\ g - b <= 0 /\ g - b \in Int
      BY <2>2
    <3>2. \A h \in GatesOf(t) : h \in a + 1 .. Upto(args, t)
      BY <2>4 DEF GatesOf
    <3> QED BY <2>2, <2>4, <3>1, <3>2
  <2>6. \A g \in 1 .. b : gates'.slots[g] = before.gates[g]
    BY <1>4, <1>5, <2>2, <2>5 DEF Filled
  <2> QED BY <1>4, <1>6, <1>9, <2>1, <2>2, <2>6 DEF Filled
<1>15. Shares'
  BY <1>4, <1>5, <1>6, <1>9 DEF Shares, Placed
<1>16. Garbled(t)'
  <2>1. PICK r, n : r = args.tuples[t].out /\ n = before.counter + Upto(args, t - 1) + 1
    OBVIOUS
  <2>2. DOMAIN S = Reg /\ r \in Reg
    BY <1>4, <1>5, <2>1 DEF Types, Tuple
  <2>3. S' = [S EXCEPT ![r] = n]
    BY <1>4, <2>1
  <2>4. S'[args.tuples[t].out] = before.counter + Upto(args, t - 1) + 1
    BY ONLY <2>1, <2>2, <2>3
  <2> QED BY <1>4, <1>6, <1>9, <2>4 DEF Garbled
<1>17. ASSUME NEW u \in 1 .. Sent, u # t, Garbled(u) PROVE Garbled(u)'
  <2>1. /\ u \in 1 .. Len(args.tuples) /\ t \in 1 .. Len(args.tuples)
        /\ u \in 0 .. Len(args.tuples) /\ Sent \in 0 .. Len(args.tuples) /\ u <= Sent
        /\ u - 1 \in 0 .. Len(args.tuples) /\ u - 1 <= u
    BY <1>4, <1>5
  <2>2. args.tuples[u].out # args.tuples[t].out /\ args.tuples[u].out \in Reg
    <3>1. WellFormedInstr(args)
      BY <1>5, InstrsAssumption
    <3>2. args.tuples[u] \in Tuple
      BY <1>5, <2>1, WrittenFacts
    <3> QED BY <1>17, <2>1, <3>1, <3>2 DEF WellFormedInstr, Tuple
  <2>3. S'[args.tuples[u].out] = S[args.tuples[u].out]
    BY <1>4, <1>5, <2>2 DEF Types
  <2>4. \A g \in GatesOf(u) : gates'.slots[Base + g] = gates.slots[Base + g]
    <3> TAKE g \in GatesOf(u)
    <3>1. g \notin GatesOf(t)
      BY <1>5, <1>17, <2>1, GateHasOneTuple DEF GatesOf
    <3>2. /\ Upto(args, u) <= Upto(args, Sent) /\ Upto(args, u) \in Nat /\ Upto(args, Sent) \in Nat
          /\ Upto(args, u - 1) \in Nat /\ Len(gates.slots) = Base + Upto(args, Sent)
      BY <1>5, <2>1, SizesGrow DEF Filled
    <3>3. PICK a, d, v, b : /\ a = Upto(args, u - 1) /\ d = Upto(args, u) /\ v = Upto(args, Sent) /\ b = Base
                            /\ g \in a + 1 .. d
      BY DEF GatesOf
    <3>4. b + g \in 1 .. b + v /\ (b + g) - b = g
      BY <1>5, <3>2, <3>3
    <3> QED BY <1>4, <3>1, <3>2, <3>3, <3>4
  <2> QED BY <1>6, <1>9, <1>17, <2>3, <2>4 DEF Garbled
<1>18. \A i \in Jobs : \A u \in Share(i) : u \in 1 .. Sent
  <2> TAKE i \in Jobs
  <2>1. job[i].start \in 1 .. job[i].end /\ job[i].end \in 1 .. Sent
    BY <1>3, JobKnows
  <2> QED BY <1>5, <2>1 DEF Share
<1>19. \A i \in Jobs : \A u \in Share(i) : Left(i, u)' \/ Garbled(u)'
  <2> TAKE i \in Jobs
  <2> TAKE u \in Share(i)
  <2>1. CASE u = t
    BY <2>1, <1>16
  <2>2. CASE u # t /\ i = w
    <3>1. u \in Nat /\ t \in Nat /\ u <= job[w].end
      <4>1. job[w].start \in 1 .. job[w].end /\ job[w].end \in 1 .. Sent
        BY <1>3, JobKnows
      <4> QED BY <1>4, <2>2, <4>1 DEF Share
    <3>2. Left(w, u) => Left(w, u)'
      <4> SUFFICES ASSUME Left(w, u) PROVE Left(w, u)'
        OBVIOUS
      <4>1. t <= u
        BY <1>1, <1>2, <1>3, WorkingKnows DEF Left, Queued, Resting
      <4>2. t + 1 <= u /\ ~ (t = job[w].end)
        BY <2>2, <3>1, <4>1
      <4> QED BY <1>7, <4>2 DEF Left
    <3> QED BY <1>5, <1>17, <1>18, <2>2, <3>2 DEF Product
  <2>3. CASE i # w
    <3>1. Same(i)
      BY <1>8, <1>10, <2>3
    <3>2. Left(i, u)' = Left(i, u)
      BY <1>6, <3>1 DEF Left, Same, Queued, Resting
    <3>3. u # t
      <4>1. i \in Nat /\ w \in Nat /\ (i < w \/ w < i)
        BY <1>10, <2>3 DEF Workers
      <4>2. job[i].end < job[w].start \/ job[w].end < job[i].start
        BY <1>3, <1>5, <4>1 DEF Shares
      <4>3. /\ job[w].start \in 1 .. job[w].end /\ job[w].end \in 1 .. Sent
            /\ job[i].start \in 1 .. job[i].end /\ job[i].end \in 1 .. Sent
        BY <1>3, JobKnows
      <4>4. u \in job[i].start .. job[i].end /\ t \in job[w].start .. job[w].end
        BY <1>4 DEF Share
      <4>5. PICK a, b, c, d : a = job[i].start /\ b = job[i].end /\ c = job[w].start /\ d = job[w].end
        OBVIOUS
      <4>6. /\ a \in Int /\ b \in Int /\ c \in Int /\ d \in Int /\ u \in a .. b /\ t \in c .. d
            /\ b < c \/ d < a
        BY <4>2, <4>3, <4>4, <4>5
      <4> QED BY <4>6
    <3> QED BY <1>5, <1>17, <1>18, <3>2, <3>3 DEF Product
  <2> QED BY <2>1, <2>2, <2>3
<1>20. Product'
  <2>1. t \in 1 .. Len(args.tuples)
    BY <1>4, <1>5
  <2>2. \A r \in Reg : NotWritten(r) => S'[r] = before.S[r]
    BY <1>4, <1>5, <2>1 DEF Product, NotWritten, Types
  <2> QED BY <1>6, <1>9, <1>19, <2>2 DEF Product, NotWritten
<1>21. \A i \in Jobs : AtWork(i)'
  <2> TAKE i \in Jobs
  <2>1. CASE i = w
    <3>1. AtWork(w) /\ ~ Queued(w)' /\ job[w].end \in Nat
      BY <1>3, <1>7, JobKnows DEF Queued, Resting
    <3>2. wpc'[w] = "garble" => at'[w] \in Share(w)
      <4>1. job[w].start \in 1 .. job[w].end /\ job[w].end \in 1 .. Sent
        BY <1>3, JobKnows
      <4> QED BY <1>4, <1>7, <4>1 DEF Share
    <3> QED BY <1>2, <1>6, <1>7, <1>9, <2>1, <3>1, <3>2 DEF AtWork, LabelsTo
  <2>2. CASE i # w
    <3>1. Same(i) /\ AtWork(i)
      BY <1>5, <1>8, <1>10, <2>2
    <3> QED BY <3>1, <1>6, AtWorkSame
  <2> QED BY <2>1, <2>2
<1>22. InProgress'
  BY <1>9, <1>13, <1>14, <1>15, <1>20, <1>21 DEF InProgress
<1> QED BY <1>3, <1>6, <1>11, <1>12, <1>22 DEF BInv, Active, Ending

(* What an instruction gives is well typed.                                 *)
LEMMA BatchType ==
  ASSUME NEW n \in DOMAIN Instrs, NEW x, x = Instrs[n], NEW keys \in [Reg -> Nat], NEW c \in Nat
  PROVE  /\ Batch(x, keys, c) \in [1 .. Total(x) -> Known] /\ Written(x, keys, c) \in [Reg -> Nat]
         /\ Total(x) \in Nat
<1>1. /\ Len(x.tuples) \in Nat \ {0} /\ Total(x) \in Nat
      /\ \A t \in 0 .. Len(x.tuples) : Upto(x, t) \in Nat
  BY Sizes
<1>2. \A t \in 1 .. Len(x.tuples) : t - 1 \in 0 .. Len(x.tuples) /\ Upto(x, t - 1) \in Nat
  BY <1>1
<1>3. \A t \in 1 .. Len(x.tuples) : c + Upto(x, t - 1) + 1 \in Nat
  BY <1>2
<1>4. \A t \in 1 .. Len(x.tuples) : Inputs(x, t, keys) \in Nat \X Nat
  <2> TAKE t \in 1 .. Len(x.tuples)
  <2>1. x.tuples[t] \in Tuple
    BY WrittenFacts
  <2>2. x.tuples[t].left \in Reg /\ x.tuples[t].right \in Reg
    BY <2>1 DEF Tuple
  <2> QED BY <2>2 DEF Inputs
<1>5. \A g \in 1 .. Total(x) : Batch(x, keys, c)[g] \in Known
  <2> TAKE g \in 1 .. Total(x)
  <2>1. PICK t \in 1 .. Len(x.tuples) : g \in Upto(x, t - 1) + 1 .. Upto(x, t)
    BY GateHasTuple
  <2>2. Batch(x, keys, c)[g] = Gate(Inputs(x, t, keys), Inputs(x, t, keys), c + Upto(x, t - 1) + 1, c + g)
    BY <2>1, BatchFacts
  <2>3. c + g \in Nat
    BY <1>1
  <2>4. Gate(Inputs(x, t, keys), Inputs(x, t, keys), c + Upto(x, t - 1) + 1, c + g) \in Known
    BY <1>3, <1>4, <2>3 DEF Gate, Known
  <2> QED BY <2>2, <2>4
<1>6. \A r \in Reg : Written(x, keys, c)[r] \in Nat
  <2> TAKE r \in Reg
  <2>1. CASE \E t \in 1 .. Len(x.tuples) : x.tuples[t].out = r
    <3>1. PICK t \in 1 .. Len(x.tuples) : x.tuples[t].out = r
      BY <2>1
    <3> QED BY <1>3, <3>1, WrittenFacts
  <2>2. CASE \A t \in 1 .. Len(x.tuples) : x.tuples[t].out # r
    <3>1. Written(x, keys, c)[r] = keys[r]
      BY <2>2, WrittenFacts
    <3> QED BY <3>1
  <2> QED BY <2>1, <2>2
<1>7. Batch(x, keys, c) \in [1 .. Total(x) -> Known]
  <2>1. PICK f, l : f = Batch(x, keys, c) /\ l = Total(x)
    OBVIOUS
  <2>2. f = [g \in 1 .. l |-> f[g]]
    BY <2>1 DEF Batch
  <2> QED BY <1>5, <2>1, <2>2
<1>8. Written(x, keys, c) \in [Reg -> Nat]
  <2>1. PICK f : f = Written(x, keys, c)
    OBVIOUS
  <2>2. f = [r \in Reg |-> f[r]]
    BY <2>1 DEF Written
  <2> QED BY <1>6, <2>1, <2>2
<1> QED BY <1>1, <1>7, <1>8

Buffers == [id : Nat, max_len : Nat, slots : Seq(Known)]

LEMMA AllocatedFacts ==
  ASSUME NEW b \in Buffers, NEW n \in Nat
  PROVE  Allocated(b, n) \in Buffers /\ Allocated(b, n).slots = b.slots
<1>1. b.id + 1 \in Nat /\ 2 * (Len(b.slots) + n) \in Nat
  <2>1. Len(b.slots) \in Nat /\ b.id \in Nat
    BY DEF Buffers
  <2> QED BY <2>1
<1>2. PICK m, q : m = 2 * (Len(b.slots) + n) /\ q = b.id + 1
  OBVIOUS
<1>3. Allocated(b, n) = b \/ Allocated(b, n) = [b EXCEPT !.id = q, !.max_len = m]
  BY <1>2 DEF Allocated
<1>4. [b EXCEPT !.id = q, !.max_len = m] \in Buffers /\ [b EXCEPT !.id = q, !.max_len = m].slots = b.slots
  BY <1>1, <1>2 DEF Buffers
<1> QED BY <1>3, <1>4

LEMMA AppendedFacts ==
  ASSUME NEW b \in Buffers, NEW n \in Nat, NEW gs \in [1 .. n -> Known], NEW r, r = Appended(b, gs)
  PROVE  /\ r \in Buffers /\ r.id = b.id /\ r.slots = b.slots \o gs /\ Len(r.slots) = Len(b.slots) + n
         /\ Len(b.slots) \in Nat
         /\ \A g \in 1 .. Len(b.slots) : r.slots[g] = b.slots[g]
         /\ \A g \in 1 .. n : r.slots[Len(b.slots) + g] = gs[g]
<1>1. PICK s : s = b.slots /\ s \in Seq(Known)
  BY DEF Buffers
<1>2. gs \in Seq(Known) /\ Len(gs) = n
  OBVIOUS
<1>3. s \o gs \in Seq(Known)
  BY <1>1, <1>2
<1>4. PICK u : u = s \o gs
  OBVIOUS
<1>5. /\ Len(s) \in Nat /\ Len(u) = Len(s) + n
      /\ \A g \in 1 .. Len(s) : u[g] = s[g]
      /\ \A g \in 1 .. n : u[Len(s) + g] = gs[g]
  <2>1. IsSeq(s) /\ IsSeq(gs)
    BY <1>1, <1>2 DEF IsSeq
  <2>2. u = Cat(s, gs)
    BY <1>4 DEF Cat
  <2>3. /\ Len(s) \in Nat /\ Len(Cat(s, gs)) = Len(s) + Len(gs)
        /\ \A g \in 1 .. Len(s) : Cat(s, gs)[g] = s[g]
        /\ \A g \in 1 .. Len(gs) : Cat(s, gs)[Len(s) + g] = gs[g]
    BY <2>1, CatElements
  <2> QED BY <1>2, <2>2, <2>3
<1>6. r = [b EXCEPT !.slots = u]
  BY <1>1, <1>4 DEF Appended
<1>7. r.slots = u /\ r.id = b.id /\ r \in Buffers
  BY <1>3, <1>6, <1>4 DEF Buffers
<1> QED BY <1>1, <1>4, <1>5, <1>7

LEMMA SkippedFacts ==
  ASSUME NEW b \in Buffers, NEW n \in Nat, NEW r, r = Skipped(b, n)
  PROVE  /\ r \in Buffers /\ r.id = b.id /\ Len(r.slots) = Len(b.slots) + n /\ Len(b.slots) \in Nat
         /\ \A g \in 1 .. Len(b.slots) : r.slots[g] = b.slots[g]
<1>1. Unset \in Known
  BY DEF Unset, Gate, Known
<1>2. PICK e : e = Unset /\ e \in Known
  BY <1>1
<1>3. [g \in 1 .. n |-> e] \in [1 .. n -> Known]
  BY <1>2
<1>4. PICK gs : gs = [g \in 1 .. n |-> Unset] /\ gs \in [1 .. n -> Known]
  BY <1>2, <1>3
<1>5. r = Appended(b, gs)
  BY <1>4 DEF Skipped, Appended
<1>6. r \in Buffers /\ r.id = b.id /\ Len(r.slots) = Len(b.slots) + n /\ Len(b.slots) \in Nat
  BY <1>4, <1>5, AppendedFacts, SMTT(30)
<1>7. \A g \in 1 .. Len(b.slots) : r.slots[g] = b.slots[g]
  BY <1>4, <1>5, AppendedFacts, SMTT(30)
<1> QED BY <1>6, <1>7

-----------------------------------------------------------------------------
(* Steps of the main thread.                                                *)
LEMMA BetweenKnows ==
  ASSUME BInv, pc = "next"
  PROVE  /\ Types /\ S = before.S /\ gates.slots = before.gates /\ counter = before.counter
         /\ \A i \in Workers : Idle(i) /\ input[i].running
<1>1. Types /\ \A i \in Workers : Turn(i)
  BY DEF BInv, Ending
<1>2. \A i : ~ Asked(i)
  BY DEF Asked
<1> QED BY <1>1, <1>2 DEF BInv, Turn

LEMMA AloneStep ==
  ASSUME JInv, BInv, GarbleAlone
  PROVE  BInv'
<1>1. pc = "next" /\ Executing /\ args = Instrs[k] /\ k \in DOMAIN Instrs
  BY DEF GarbleAlone, Executing, args
<1>2. Types /\ \A i \in Workers : Idle(i) /\ input[i].running
  BY <1>1, BetweenKnows
<1>3. PICK n : n = Total(args)
  OBVIOUS
<1>4. /\ gates' = Appended(Allocated(gates, n), Batch(args, S, counter))
      /\ S' = Written(args, S, counter) /\ counter' = counter + n
      /\ before' = [S |-> S', gates |-> gates'.slots, counter |-> counter']
      /\ pc' = pc /\ start' = start /\ job' = job
      /\ input' = input /\ output' = output /\ wpc' = wpc /\ mine' = mine /\ at' = at /\ labels' = labels
  BY <1>3 DEF GarbleAlone, dispatching, queues, running
<1>5. S \in [Reg -> Nat] /\ counter \in Nat /\ gates \in Buffers
  BY <1>2 DEF Types, Buffers
<1>6. n \in Nat /\ Batch(args, S, counter) \in [1 .. n -> Known] /\ S' \in [Reg -> Nat]
  BY <1>1, <1>3, <1>4, <1>5, BatchType
<1>7. gates' \in Buffers /\ counter' \in Nat
  <2>1. Allocated(gates, n) \in Buffers
    BY <1>5, <1>6, AllocatedFacts
  <2>2. PICK b, gs, r : b = Allocated(gates, n) /\ gs = Batch(args, S, counter) /\ r = gates'
    OBVIOUS
  <2>3. b \in Buffers /\ gs \in [1 .. n -> Known] /\ r = Appended(b, gs) /\ n \in Nat
    BY <1>4, <1>6, <2>1, <2>2
  <2>4. r \in Buffers
    BY <2>3, AppendedFacts
  <2> QED BY <1>4, <1>5, <1>6, <2>2, <2>4
<1>8. before' \in [S : [Reg -> Nat], gates : Seq(Known), counter : Nat]
  <2>1. gates'.slots \in Seq(Known)
    BY <1>7 DEF Buffers
  <2> QED BY <1>4, <1>6, <1>7, <2>1
<1>9. Types'
  BY <1>2, <1>4, <1>6, <1>7, <1>8 DEF Types, Buffers
<1>10. \A i \in Workers : Turn(i)'
  BY <1>1, <1>2, <1>4 DEF Turn, Asked, Idle, Resting
<1>11. /\ S' = before'.S /\ gates'.slots = before'.gates /\ counter' = before'.counter
  BY <1>4
<1> QED BY <1>1, <1>4, <1>9, <1>10, <1>11 DEF BInv, Active, Ending

LEMMA PrepareStep ==
  ASSUME JInv, BInv, Prepare
  PROVE  BInv'
<1>1. pc = "next" /\ Executing /\ args = Instrs[k] /\ k \in DOMAIN Instrs
  BY DEF Prepare, Executing, args
<1>2. /\ Types /\ S = before.S /\ gates.slots = before.gates /\ counter = before.counter
      /\ \A i \in Workers : Idle(i) /\ input[i].running
  BY <1>1, BetweenKnows
<1>3. /\ gates' = Allocated(gates, Total(args)) /\ i_thread' = 0 /\ i_gate' = 0 /\ start' = 1 /\ j' = 1
      /\ pc' = "loop" /\ k' = k /\ counter' = counter /\ S' = S /\ job' = job /\ before' = before
      /\ input' = input /\ output' = output /\ wpc' = wpc /\ mine' = mine /\ at' = at /\ labels' = labels
      /\ args' = args
  BY DEF Prepare, queues, running, args
<1>4. /\ Len(args.tuples) \in Nat \ {0} /\ Total(args) \in Nat /\ Upto(args, 0) = 0
  BY <1>1, Sizes
<1>5. gates' \in Buffers /\ gates'.slots = before.gates
  <2>1. gates \in Buffers
    BY <1>2 DEF Types, Buffers
  <2> QED BY <1>2, <1>3, <1>4, <2>1, AllocatedFacts
<1>6. Types'
  BY <1>2, <1>3, <1>5 DEF Types, Buffers
<1>7. \A i \in Workers : Turn(i)'
  <2> TAKE i \in Workers
  <2>1. ~ (i <= 0)
    BY DEF Workers
  <2> QED BY <1>2, <1>3, <2>1 DEF Turn, Asked, Idle, Resting
<1>8. Jobs' = {} /\ Sent' = 0 /\ Base' = Base /\ Base \in Nat /\ before.counter \in Nat
  <2>1. Base \in Nat /\ before.counter \in Nat
    BY <1>2 DEF Types, Base
  <2> QED BY <1>3, <2>1 DEF Jobs, Sent, Base
<1>9. Dispatch'
  <2>1. 1 <= Len(args.tuples) + 1 /\ 1 \in 1 .. Len(args.tuples) + 1 /\ 1 - 1 = 0 /\ 0 = 0 - 0
    BY <1>4
  <2>2. counter = before.counter + Upto(args, 0)
    BY <1>2, <1>4, <1>8
  <2> QED BY <1>1, <1>3, <1>4, <2>1, <2>2 DEF Dispatch, Executing
<1>10. Filled'
  <2>1. Len(before.gates) = Base + Upto(args, 0)
    BY <1>4, <1>8 DEF Base
  <2> QED BY <1>3, <1>5, <1>8, <2>1 DEF Filled
<1>11. Shares' /\ Product' /\ \A i \in Jobs' : AtWork(i)'
  <2>1. 1 .. 0 = {}
    OBVIOUS
  <2> QED BY <1>2, <1>3, <1>8, <2>1 DEF Shares, Product, NotWritten
<1>12. InProgress'
  BY <1>9, <1>10, <1>11 DEF InProgress
<1> QED BY <1>3, <1>6, <1>7, <1>12 DEF BInv, Active, Ending

(* Steps that move no worker, no key and no gate.                           *)
LEMMA MainFrame ==
  ASSUME JInv, BInv, pc \in Active, pc' \in Active,
         UNCHANGED <<k, before, S, gates, job, i_thread, running>>, Sent' = Sent,
         Dispatch',
         \A i \in Jobs : Queued(i) => Queued(i)',
         \A i \in Jobs : Queued(i)' => Queued(i) \/ job[i].counter = before.counter + Upto(args, job[i].start - 1),
         pc = "request" => Queued(i_thread)', pc' # "request",
         \A i \in Workers : Turn(i)',
         counter' \in Nat, start' \in Nat \ {0}
  PROVE  BInv'
<1>1. Types /\ Filled /\ Shares /\ Product /\ \A i \in Jobs : AtWork(i)
  BY InstructionKnows DEF InProgress
<1>2. /\ k' = k /\ before' = before /\ S' = S /\ gates' = gates /\ job' = job /\ i_thread' = i_thread
      /\ wpc' = wpc /\ mine' = mine /\ at' = at /\ labels' = labels /\ args' = args
  BY DEF running, args
<1>3. /\ Jobs' = Jobs /\ Base' = Base /\ \A t : GatesOf(t)' = GatesOf(t) /\ \A i : Share(i)' = Share(i)
  BY <1>2 DEF Jobs, Base, GatesOf, Share
<1>4. Filled'
  BY <1>1, <1>2, <1>3 DEF Filled
<1>5. Shares'
  BY <1>1, <1>2, <1>3 DEF Shares, Placed
<1>6. \A t : Garbled(t) => Garbled(t)'
  BY <1>2, <1>3 DEF Garbled
<1>7. \A i \in Jobs : \A t \in Share(i) : Left(i, t) => Left(i, t)'
  BY <1>2 DEF Left
<1>8. Product'
  BY <1>1, <1>2, <1>3, <1>6, <1>7 DEF Product, NotWritten
<1>9. \A i \in Jobs : AtWork(i)'
  <2> TAKE i \in Jobs
  <2>1. AtWork(i)
    BY <1>1
  <2>2. Queued(i)' => job[i].counter = before.counter + Upto(args, job[i].start - 1)
    BY <2>1 DEF AtWork
  <2> QED BY <1>2, <1>3, <2>1, <2>2 DEF AtWork, LabelsTo
<1>10. InProgress'
  BY <1>3, <1>4, <1>5, <1>8, <1>9 DEF InProgress
<1>11. Types'
  BY <1>1, <1>2 DEF Types
<1> QED BY <1>10, <1>11 DEF BInv, Active, Ending

LEMMA CountStep ==
  ASSUME JInv, BInv, CountTuple
  PROVE  BInv'
<1>1. /\ pc = "loop" /\ j <= Len(args.tuples) /\ ~ JobFull(i_gate + args.upto[j] - Upto(args, j - 1))
      /\ i_gate' = i_gate + args.upto[j] - Upto(args, j - 1) /\ j' = j + 1
      /\ pc' = pc /\ start' = start /\ counter' = counter /\ k' = k /\ i_thread' = i_thread
      /\ before' = before /\ S' = S /\ gates' = gates /\ job' = job
      /\ input' = input /\ output' = output /\ wpc' = wpc /\ args' = args
      /\ UNCHANGED running
  BY DEF CountTuple, queues, running, args
<1>2. pc \in Active /\ pc' \in Active /\ pc \notin Ending
  BY <1>1 DEF Active, Ending
<1>3. /\ Types /\ Dispatch /\ Len(args.tuples) \in Nat \ {0}
      /\ \A t \in 0 .. Len(args.tuples) : Upto(args, t) \in Nat
      /\ \A t \in 1 .. Len(args.tuples) : args.upto[t] = Upto(args, t)
  BY <1>2, InstructionKnows DEF InProgress
<1>4. j # Len(args.tuples)
  BY <1>1 DEF JobFull
<1>5. Dispatch'
  <2>1. PICK l : l = Len(args.tuples) /\ l \in Nat \ {0}
    BY <1>3
  <2>2. /\ start \in Nat \ {0} /\ start <= l + 1 /\ j \in start .. l + 1 /\ j <= l /\ j # l
        /\ i_gate = Upto(args, j - 1) - Upto(args, start - 1)
    BY <1>1, <1>3, <1>4, <2>1 DEF Dispatch, Types
  <2>3. /\ j + 1 \in start .. l + 1 /\ j + 1 # l + 1 /\ j \in 1 .. l /\ j \in 0 .. l
        /\ j - 1 \in 0 .. l /\ start - 1 \in 0 .. l /\ (j + 1) - 1 = j
    BY <2>1, <2>2
  <2>4. PICK a, b, c : a = Upto(args, start - 1) /\ b = Upto(args, j - 1) /\ c = Upto(args, j)
                       /\ a \in Nat /\ b \in Nat /\ c \in Nat
    BY <1>3, <2>1, <2>3
  <2>5. i_gate = b - a /\ args.upto[j] = c
    BY <1>3, <2>1, <2>2, <2>3, <2>4
  <2>6. i_gate' = c - a
    <3>1. i_gate' = (b - a) + c - b
      BY <1>1, <2>4, <2>5
    <3> QED BY <2>4, <3>1
  <2>7. i_gate' = Upto(args, (j + 1) - 1) - Upto(args, start - 1)
    BY <2>3, <2>4, <2>6
  <2>8. counter = before.counter + Upto(args, start - 1)
    BY <1>3 DEF Dispatch
  <2> QED BY <1>1, <1>3, <2>1, <2>2, <2>3, <2>7, <2>8 DEF Dispatch, Executing
<1>6. Sent' = Sent
  BY <1>1 DEF Sent
<1>7. \A i \in Workers : Turn(i)'
  BY <1>1, <1>2 DEF BInv, Turn, Asked, Queued, Busy, Finished, Idle, Resting
<1>8. \A i : Queued(i)' = Queued(i)
  BY <1>1 DEF Queued, Resting
<1>9. counter' \in Nat /\ start' \in Nat \ {0}
  BY <1>1, <1>3 DEF Types
<1> QED BY <1>1, <1>2, <1>5, <1>6, <1>7, <1>8, <1>9, MainFrame

LEMMA StartWaitingStep ==
  ASSUME JInv, QInv, BInv, StartWaiting
  PROVE  BInv'
<1>1. /\ pc = "loop" /\ j > Len(args.tuples) /\ pc' = "wait" /\ j' = 1
      /\ start' = start /\ counter' = counter /\ k' = k /\ i_thread' = i_thread
      /\ before' = before /\ S' = S /\ gates' = gates /\ job' = job
      /\ input' = input /\ output' = output /\ wpc' = wpc /\ args' = args
      /\ UNCHANGED running
  BY DEF StartWaiting, queues, running, args
<1>2. pc \in Active /\ pc' \in Active /\ pc \notin Ending
  BY <1>1 DEF Active, Ending
<1>3. Types /\ Dispatch /\ Len(args.tuples) \in Nat \ {0}
  BY <1>2, InstructionKnows DEF InProgress
<1>4. i_thread \in Nat \ {0}
  BY <1>1 DEF JInv, QInv
<1>5. start = Len(args.tuples) + 1
  BY <1>1, <1>3 DEF Dispatch, Types
<1>6. Dispatch'
  <2>1. 1 \in Jobs'
    BY <1>1, <1>4 DEF Jobs
  <2> QED BY <1>1, <1>3, <1>5, <2>1 DEF Dispatch, Executing
<1>7. Sent' = Sent
  BY <1>1 DEF Sent
<1>8. \A i \in Workers : Asked(i)' = Asked(i)
  <2>1. \A i \in Workers : i \in 1 .. i_thread <=> i <= i_thread
    BY <1>4 DEF Workers
  <2> QED BY <1>1, <2>1 DEF Asked
<1>9. \A i \in Workers : Turn(i)'
  BY <1>1, <1>2, <1>8 DEF BInv, Turn, Queued, Busy, Finished, Idle, Resting
<1>10. \A i : Queued(i)' = Queued(i)
  BY <1>1 DEF Queued, Resting
<1>11. counter' \in Nat /\ start' \in Nat \ {0}
  BY <1>1, <1>3 DEF Types
<1> QED BY <1>1, <1>2, <1>6, <1>7, <1>9, <1>10, <1>11, MainFrame

LEMMA WaitForJobStep ==
  ASSUME JInv, QInv, BInv, WaitForJob
  PROVE  BInv'
<1>1. /\ pc = "wait" /\ pc' = "waiting" /\ output' = [output EXCEPT ![j] = Waiting(@, Main)]
      /\ j' = j /\ start' = start /\ counter' = counter /\ k' = k /\ i_thread' = i_thread
      /\ before' = before /\ S' = S /\ gates' = gates /\ job' = job
      /\ input' = input /\ wpc' = wpc /\ args' = args
      /\ UNCHANGED running
  BY DEF WaitForJob, dispatching, running, args
<1>2. pc \in Active /\ pc' \in Active /\ pc \notin Ending
  BY <1>1 DEF Active, Ending
<1>3. Types /\ Dispatch /\ j \in Jobs /\ start = Len(args.tuples) + 1
  <2>1. Types /\ Dispatch
    BY <1>2, InstructionKnows DEF InProgress
  <2> QED BY <1>1, <2>1 DEF Dispatch
<1>4. Dispatch'
  BY <1>1, <1>3 DEF Dispatch, Executing, Jobs
<1>5. Sent' = Sent
  BY <1>1 DEF Sent
<1>6. \A i \in Workers : output'[i].items = output[i].items
  <2> TAKE i \in Workers
  <2>1. output[i] \in [items : Seq(Nat), running : BOOLEAN, waiting : SUBSET {Main}]
    BY DEF QInv, Queue
  <2>2. output'[i] = IF i = j THEN Waiting(output[i], Main) ELSE output[i]
    BY <1>1 DEF QInv
  <2> QED BY <2>1, <2>2 DEF Waiting
<1>7. \A i \in Workers : Queued(i)' = Queued(i)
  BY <1>1, <1>6 DEF Queued, Resting
<1>8. \A i \in Workers : Asked(i)' = Asked(i)
  BY <1>1 DEF Asked
<1>9. \A i \in Workers : Turn(i)'
  BY <1>1, <1>2, <1>6, <1>8 DEF BInv, Turn, Queued, Busy, Finished, Idle, Resting
<1>10. Jobs \subseteq Workers
  BY <1>2, JobKnows
<1>11. counter' \in Nat /\ start' \in Nat \ {0}
  BY <1>1, <1>3 DEF Types
<1> QED BY <1>1, <1>2, <1>4, <1>5, <1>7, <1>9, <1>10, <1>11, MainFrame

(* The job's worker gets it.                                                *)
LEMMA RequestStep ==
  ASSUME JInv, QInv, BInv, Request
  PROVE  BInv'
<1>1. /\ pc = "request" /\ counter' = counter + i_gate /\ i_gate' = 0 /\ start' = j + 1 /\ j' = j + 1
      /\ pc' = "loop" /\ k' = k /\ i_thread' = i_thread
      /\ before' = before /\ S' = S /\ gates' = gates /\ job' = job
      /\ output' = output /\ wpc' = wpc /\ args' = args
      /\ UNCHANGED running
  BY DEF Request, running, args
<1>2. pc \in Active /\ pc' \in Active /\ pc \notin Ending
  BY <1>1 DEF Active, Ending
<1>3. PICK q \in Pushed(input[i_thread], i_thread) : input' = [input EXCEPT ![i_thread] = q]
  BY DEF Request
<1>4. /\ Types /\ Dispatch /\ Len(args.tuples) \in Nat \ {0}
      /\ \A t \in 0 .. Len(args.tuples) : Upto(args, t) \in Nat
  BY <1>2, InstructionKnows DEF InProgress
<1>5. /\ i_thread \in Workers /\ j \in start .. Len(args.tuples)
      /\ i_gate = Upto(args, j) - Upto(args, start - 1)
      /\ job[i_thread].counter = before.counter + Upto(args, job[i_thread].start - 1)
      /\ counter = before.counter + Upto(args, start - 1)
  BY <1>1, <1>4 DEF Dispatch
<1>6. Idle(i_thread) /\ input[i_thread].running
  <2>1. Turn(i_thread) /\ ~ Asked(i_thread)
    BY <1>1, <1>2, <1>5 DEF BInv, Asked, Workers
  <2> QED BY <2>1 DEF Turn
<1>7. q.items = <<i_thread>> /\ q.running
  <2>1. PICK r : r = input[i_thread]
    OBVIOUS
  <2>2. r \in [items : Seq(Nat), running : BOOLEAN, waiting : SUBSET {i_thread}]
    BY <1>5, <2>1 DEF QInv, Queue
  <2>3. Append(r.items, i_thread) = <<i_thread>> /\ r.running
    <3>1. r.items = <<>> /\ r.running /\ i_thread \in Nat
      BY <1>6, <2>1 DEF Idle, JInv
    <3>2. Append(<<>>, i_thread) = <<i_thread>>
      BY <3>1
    <3> QED BY <3>1, <3>2
  <2>4. PICK p : p = [r EXCEPT !.items = Append(@, i_thread)]
    OBVIOUS
  <2>5. p.items = <<i_thread>> /\ p.running /\ p \in [items : Seq(Nat), running : BOOLEAN, waiting : SUBSET {i_thread}]
    <3>1. <<i_thread>> \in Seq(Nat)
      BY DEF JInv
    <3> QED BY <2>2, <2>3, <2>4, <3>1
  <2>6. q = p \/ \E t \in p.waiting : q = [p EXCEPT !.waiting = @ \ {t}]
    BY <1>3, <2>1, <2>4 DEF Pushed, Signalled
  <2> QED BY <2>5, <2>6
<1>8. /\ input'[i_thread] = q
      /\ \A i \in Workers : i # i_thread => input'[i] = input[i]
  BY <1>3, <1>5 DEF QInv
<1>9. Queued(i_thread)' /\ \A i \in Workers : i # i_thread => (Queued(i)' <=> Queued(i))
  BY <1>1, <1>6, <1>7, <1>8 DEF Queued, Idle, Resting
<1>10. \A i \in Workers : Turn(i)'
  <2> TAKE i \in Workers
  <2>1. CASE i = i_thread
    <3>1. Asked(i)'
      BY <1>1, <1>5, <2>1 DEF Asked, Workers
    <3> QED BY <1>7, <1>8, <1>9, <1>1, <2>1, <3>1 DEF Turn
  <2>2. CASE i # i_thread
    <3>1. Asked(i)' = Asked(i)
      <4>1. i \in Int /\ i_thread \in Int
        BY <1>5 DEF Workers
      <4>2. i <= i_thread <=> i < i_thread
        BY <2>2, <4>1
      <4> QED BY <1>1, <4>2 DEF Asked
    <3>2. Turn(i)
      BY <1>2 DEF BInv
    <3> QED BY <1>1, <1>8, <2>2, <3>1, <3>2 DEF Turn, Queued, Busy, Finished, Idle, Resting
  <2> QED BY <2>1, <2>2
<1>11. PICK l : l = Len(args.tuples) /\ l \in Nat \ {0}
  BY <1>4
<1>12. /\ start \in Nat \ {0} /\ j \in start .. l /\ j \in Nat \ {0} /\ j \in 0 .. l /\ start - 1 \in 0 .. l
       /\ (j + 1) - 1 = j
  BY <1>4, <1>5, <1>11, SMTT(30) DEF Types
<1>13. PICK a, c, d : a = Upto(args, start - 1) /\ c = Upto(args, j) /\ d = before.counter
                      /\ a \in Nat /\ c \in Nat /\ d \in Nat
  BY <1>4, <1>11, <1>12 DEF Types
<1>14. counter' = d + c
  <2>1. counter' = (d + a) + (c - a)
    BY <1>1, <1>5, <1>13
  <2> QED BY <1>13, <2>1
<1>15. Dispatch'
  <2>1. /\ j + 1 <= l + 1 /\ j + 1 \in j + 1 .. l + 1
    BY <1>11, <1>12
  <2>2. 0 = Upto(args, (j + 1) - 1) - Upto(args, (j + 1) - 1)
    BY <1>12, <1>13
  <2>3. counter' = before.counter + Upto(args, (j + 1) - 1)
    BY <1>12, <1>13, <1>14
  <2> QED BY <1>1, <1>4, <1>11, <2>1, <2>2, <2>3 DEF Dispatch, Executing
<1>16. Sent' = Sent
  BY <1>1, <1>12 DEF Sent
<1>17. counter' \in Nat /\ start' \in Nat \ {0}
  BY <1>1, <1>12, <1>13, <1>14
<1>18. Jobs \subseteq Workers
  BY <1>2, JobKnows
<1>19. \A i \in Jobs : Queued(i)' => Queued(i) \/ job[i].counter = before.counter + Upto(args, job[i].start - 1)
  BY <1>5, <1>9, <1>18
<1>20. \A i \in Jobs : Queued(i) => Queued(i)'
  <2> TAKE i \in Jobs
  <2>1. CASE i = i_thread
    BY <1>1, <1>9, <2>1 DEF Queued, Resting
  <2>2. CASE i # i_thread
    BY <1>9, <1>18, <2>2
  <2> QED BY <2>1, <2>2
<1> QED BY <1>1, <1>2, <1>9, <1>10, <1>15, <1>16, <1>17, <1>19, <1>20, MainFrame

(* Completing a job: its tuples are the next ones, its gates the next of the *)
(* buffer, and its worker knows nothing of it yet.                          *)
LEMMA FillStep ==
  ASSUME JInv, JInv', BInv, FillJob
  PROVE  BInv'
<1>1. PICK i : i = i_thread + 1
  OBVIOUS
<1>2. /\ pc = "loop" /\ j <= Len(args.tuples) /\ i_gate' = i_gate + args.upto[j] - Upto(args, j - 1)
      /\ gates' = Skipped(gates, i_gate') /\ i_thread' = i /\ pc' = "request"
      /\ job' = [job EXCEPT ![i] = [start |-> start, end |-> j, gate |-> End(gates), counter |-> counter]]
      /\ j' = j /\ start' = start /\ counter' = counter /\ k' = k /\ before' = before /\ S' = S
      /\ input' = input /\ output' = output /\ wpc' = wpc /\ mine' = mine /\ at' = at /\ labels' = labels
      /\ args' = args
  BY <1>1 DEF FillJob, queues, running, args
<1>3. pc \in Active /\ pc' \in Active /\ pc \notin Ending
  BY <1>2 DEF Active, Ending
<1>4. /\ Types /\ Dispatch /\ Filled /\ Shares /\ Product /\ \A n \in Jobs : AtWork(n)
      /\ Len(args.tuples) \in Nat \ {0} /\ k \in DOMAIN Instrs /\ args = Instrs[k]
      /\ \A t \in 0 .. Len(args.tuples) : Upto(args, t) \in Nat
      /\ \A t \in 1 .. Len(args.tuples) : args.upto[t] = Upto(args, t)
      /\ Base \in Nat
  BY <1>3, InstructionKnows DEF InProgress, Executing, args
<1>5. i \in Workers /\ i_thread \in Nat /\ i \in Nat /\ i = i_thread + 1 /\ i_thread <= NThreads
  <2>1. i_thread \in Nat /\ i_thread <= NThreads /\ i <= NThreads
    BY <1>2 DEF JInv, JobsFit
  <2> QED BY <1>1, <2>1, ThreadsAssumption DEF Workers
<1>6. Idle(i) /\ input[i].running
  <2>1. Turn(i) /\ ~ Asked(i)
    BY <1>2, <1>3, <1>5 DEF BInv, Asked
  <2> QED BY <2>1 DEF Turn
<1>7. PICK l : l = Len(args.tuples) /\ l \in Nat \ {0}
  BY <1>4
<1>8. /\ start \in Nat \ {0} /\ j \in start .. l /\ j \in Nat \ {0} /\ j \in 1 .. l /\ j \in 0 .. l
      /\ start - 1 \in 0 .. l /\ j - 1 \in 0 .. l /\ start <= l + 1
      /\ i_gate = Upto(args, j - 1) - Upto(args, start - 1)
      /\ counter = before.counter + Upto(args, start - 1)
  <2>1. /\ start \in Nat \ {0} /\ j \in start .. l + 1 /\ j <= l /\ start <= l + 1
        /\ i_gate = Upto(args, j - 1) - Upto(args, start - 1)
        /\ counter = before.counter + Upto(args, start - 1)
    BY <1>2, <1>4, <1>7 DEF Dispatch, Types
  <2>2. /\ j \in start .. l /\ j \in Nat \ {0} /\ j \in 1 .. l /\ j \in 0 .. l
        /\ start - 1 \in 0 .. l /\ j - 1 \in 0 .. l
    BY <1>7, <2>1
  <2> QED BY <2>1, <2>2
<1>9. PICK a, b, c, base : /\ a = Upto(args, start - 1) /\ b = Upto(args, j - 1) /\ c = Upto(args, j)
                           /\ base = Base /\ a \in Nat /\ b \in Nat /\ c \in Nat /\ base \in Nat
  BY <1>4, <1>7, <1>8
<1>10. a <= c
  <2>1. start - 1 <= j
    BY <1>8
  <2>2. Upto(args, start - 1) <= Upto(args, j)
    BY <1>4, <1>7, <1>8, <2>1, SizesGrow
  <2> QED BY <1>9, <2>2
<1>11. i_gate' = c - a /\ i_gate' \in Nat
  <2>1. i_gate' = (b - a) + c - b
    BY <1>2, <1>4, <1>7, <1>8, <1>9
  <2> QED BY <1>9, <1>10, <2>1
<1>12. Sent = start - 1 /\ Sent' = j /\ Base' = Base
  BY <1>2 DEF Sent, Base
<1>13. /\ gates' \in Buffers /\ gates'.id = gates.id /\ Len(gates'.slots) = base + c
       /\ Len(gates.slots) = base + a
       /\ \A g \in 1 .. base + a : gates'.slots[g] = gates.slots[g]
  <2>1. gates \in Buffers /\ Len(gates.slots) = base + a
    BY <1>4, <1>9, <1>12 DEF Types, Buffers, Filled
  <2>2. PICK m, r : m = i_gate' /\ r = gates' /\ m \in Nat /\ r = Skipped(gates, m)
    BY <1>2, <1>11
  <2>3. /\ r \in Buffers /\ r.id = gates.id /\ Len(r.slots) = Len(gates.slots) + m
        /\ \A g \in 1 .. Len(gates.slots) : r.slots[g] = gates.slots[g]
    BY ONLY <2>1, <2>2, SkippedFacts
  <2>4. (base + a) + m = base + c
    BY <1>9, <1>11, <2>2
  <2> QED BY <2>1, <2>2, <2>3, <2>4
<1>14. PICK f : f = [start |-> start, end |-> j, gate |-> End(gates), counter |-> counter]
  OBVIOUS
<1>15. /\ f.start = start /\ f.end = j /\ f.gate = [id |-> gates.id, pos |-> base + a]
       /\ f.counter = counter /\ f \in Fields
  <2>1. End(gates) = [id |-> gates.id, pos |-> base + a]
    BY <1>13 DEF End
  <2>2. gates.id \in Nat /\ base + a \in Nat /\ counter \in Nat
    BY <1>4, <1>9 DEF Types
  <2>3. End(gates) \in [id : Nat, pos : Nat]
    BY <2>1, <2>2
  <2> QED BY <1>8, <1>14, <2>1, <2>2, <2>3 DEF Fields
<1>16. /\ job'[i] = f /\ job' \in [Workers -> Fields]
       /\ \A n \in Workers : n # i => job'[n] = job[n]
  <2>1. job \in [Workers -> Fields] /\ job' = [job EXCEPT ![i] = f]
    BY <1>2, <1>4, <1>14 DEF Types
  <2> QED BY <1>5, <1>15, <2>1
<1>17. Types'
  BY <1>2, <1>4, <1>13, <1>16 DEF Types, Buffers
<1>18. \A n \in Workers : Turn(n)'
  <2> TAKE n \in Workers
  <2>1. Asked(n)' <=> Asked(n)
    <3>1. n \in Int
      BY DEF Workers
    <3>2. n < i <=> n <= i_thread
      BY <1>5, <3>1
    <3> QED BY <1>2, <3>2 DEF Asked
  <2>2. Turn(n)
    BY <1>3 DEF BInv
  <2> QED BY <1>2, <2>1, <2>2 DEF Turn, Queued, Busy, Finished, Idle, Resting
<1>19. /\ Jobs = 1 .. i_thread /\ Jobs' = 1 .. i /\ i \notin Jobs /\ i \in 1 .. i
       /\ \A n \in 1 .. i : n = i \/ n \in Jobs
       /\ \A n \in Jobs : n \in Workers /\ n # i /\ n < i
  <2>1. Jobs = 1 .. i_thread /\ Jobs' = 1 .. i
    BY <1>2 DEF Jobs
  <2>2. i \notin 1 .. i_thread /\ i \in 1 .. i /\ \A n \in 1 .. i : n = i \/ n \in 1 .. i_thread
    BY <1>5
  <2>3. \A n \in 1 .. i_thread : n \in Workers /\ n # i /\ n < i
    BY <1>5, ThreadsAssumption DEF Workers
  <2> QED BY <2>1, <2>2, <2>3
<1>20. \A n \in Jobs : /\ job'[n] = job[n] /\ Same(n) /\ Share(n)' = Share(n)
  BY <1>2, <1>16, <1>19 DEF Same, Share
<1>21. \A n \in Jobs : Placed(n) /\ job[n].start \in 1 .. job[n].end /\ job[n].end <= start - 1
                       /\ job[n].end \in Nat
  <2> TAKE n \in Jobs
  <2>1. Placed(n) /\ job[n] \in Fields
    BY <1>4, <1>19 DEF Shares, Types
  <2> QED BY <1>12, <2>1 DEF Placed, Fields
<1>22. Dispatch'
  <2>1. i_gate' = Upto(args, j) - Upto(args, start - 1)
    BY <1>9, <1>11
  <2>2. job'[i].end = j /\ job'[i].counter = before.counter + Upto(args, job'[i].start - 1)
    BY <1>8, <1>15, <1>16
  <2> QED BY <1>2, <1>4, <1>5, <1>7, <1>8, <2>1, <2>2 DEF Dispatch, Executing
<1>23. Filled'
  <2>1. \A g \in 1 .. base : g \in 1 .. base + a
    BY <1>9
  <2>2. \A g \in 1 .. base : gates'.slots[g] = before.gates[g]
    BY <1>4, <1>9, <1>13, <2>1 DEF Filled
  <2> QED BY <1>2, <1>9, <1>12, <1>13, <2>2 DEF Filled
<1>24. Placed(i)'
  <2>1. job'[i].start \in 1 .. job'[i].end /\ job'[i].end <= j
    BY <1>8, <1>15, <1>16
  <2>2. job'[i].gate = [id |-> gates.id, pos |-> Base + Upto(args, job'[i].start - 1)]
    BY <1>9, <1>15, <1>16
  <2>3. /\ \A n : n = i => Placed(n)'
    BY <1>2, <1>12, <1>13, <2>1, <2>2 DEF Placed
  <2> QED BY <2>3
<1>25. \A n \in Jobs : Placed(n)'
  <2> TAKE n \in Jobs
  <2>1. job[n].end <= j
    BY <1>8, <1>21
  <2> QED BY <1>2, <1>12, <1>13, <1>20, <1>21, <2>1 DEF Placed
<1>26. Shares'
  <2>1. \A n, m \in 1 .. i : n < m => job'[n].end < job'[m].start
    <3> TAKE n, m \in 1 .. i
    <3>1. SUFFICES ASSUME n < m PROVE job'[n].end < job'[m].start
      OBVIOUS
    <3>2. n \in Jobs
      BY <1>5, <1>19, <3>1
    <3>3. CASE m = i
      <4>1. job[n].end < start
        BY <1>8, <1>21, <3>2
      <4> QED BY <1>15, <1>16, <1>20, <3>2, <3>3, <4>1
    <3>4. CASE m \in Jobs
      BY <1>4, <1>20, <3>1, <3>2, <3>4 DEF Shares
    <3> QED BY <1>19, <3>3, <3>4
  <2>2. \A t \in 1 .. j : \E n \in 1 .. i : t \in Share(n)'
    <3> TAKE t \in 1 .. j
    <3>1. CASE t \in start .. j
      <4>1. t \in job'[i].start .. job'[i].end
        BY <1>15, <1>16, <3>1
      <4> QED BY <1>19, <4>1 DEF Share
    <3>2. CASE t < start
      <4>1. t \in 1 .. Sent
        BY <1>8, <1>12, <3>2
      <4>2. PICK n \in Jobs : t \in Share(n)
        BY <1>4, <4>1 DEF Shares
      <4>3. n \in 1 .. i /\ t \in Share(n)'
        BY <1>5, <1>19, <1>20, <4>2
      <4> QED BY <4>3
    <3> QED BY <1>8, <3>1, <3>2
  <2> QED BY <1>12, <1>19, <1>24, <1>25, <2>1, <2>2 DEF Shares
<1>27. \A n \in Jobs : \A t \in Share(n) : Garbled(t) => Garbled(t)'
  <2> TAKE n \in Jobs
  <2> TAKE t \in Share(n)
  <2>1. t \in 1 .. start - 1 /\ t \in Nat
    BY <1>8, <1>21 DEF Share
  <2>2. t \in 0 .. l /\ t - 1 \in 0 .. l /\ t <= start - 1
    BY <1>7, <1>8, <2>1
  <2>3. Upto(args, t) <= Upto(args, start - 1)
    BY <1>4, <1>7, <1>8, <2>2, SizesGrow
  <2>4. PICK d, e : d = Upto(args, t - 1) /\ e = Upto(args, t) /\ d \in Nat /\ e \in Nat /\ e <= a
    BY <1>4, <1>7, <1>9, <2>2, <2>3
  <2>5. \A g \in GatesOf(t) : gates'.slots[Base + g] = gates.slots[Base + g]
    <3> TAKE g \in GatesOf(t)
    <3>1. g \in d + 1 .. e
      BY <2>4 DEF GatesOf
    <3>2. base + g \in 1 .. base + a
      BY <1>9, <2>4, <3>1
    <3> QED BY <1>9, <1>13, <3>2
  <2>6. GatesOf(t)' = GatesOf(t)
    BY <1>2 DEF GatesOf
  <2> QED BY <1>2, <1>12, <2>5, <2>6 DEF Garbled
<1>28. Product'
  <2>1. \A n \in Jobs : \A t \in Share(n) : Left(n, t) => Left(n, t)'
    BY <1>2 DEF Left, Queued, Resting
  <2>2. \A t : Left(i, t)'
    BY <1>2 DEF Left
  <2>3. \A n \in 1 .. i : \A t \in Share(n)' : Left(n, t)' \/ Garbled(t)'
    <3> TAKE n \in 1 .. i
    <3>1. CASE n = i
      BY <2>2, <3>1
    <3>2. CASE n \in Jobs
      <4>1. Share(n)' = Share(n)
        BY <1>20, <3>2
      <4>2. \A t \in Share(n) : Left(n, t) \/ Garbled(t)
        BY <1>4, <3>2 DEF Product
      <4> QED BY <1>27, <2>1, <3>2, <4>1, <4>2
    <3> QED BY <1>19, <3>1, <3>2
  <2> QED BY <1>2, <1>4, <1>19, <2>3 DEF Product, NotWritten
<1>29. \A n \in 1 .. i : AtWork(n)'
  <2> TAKE n \in 1 .. i
  <2>1. CASE n = i
    <3>1. /\ wpc'[n] \notin {"popped", "labels", "garble"} /\ ~ Queued(n)'
      <4>1. wpc'[n] \in {"pop", "waiting"} /\ input'[n].items = <<>>
        BY <1>2, <1>6, <2>1 DEF Idle, Resting
      <4>2. <<n>> # <<>>
        OBVIOUS
      <4> QED BY <4>1, <4>2 DEF Queued
    <3> QED BY <3>1 DEF AtWork
  <2>2. CASE n \in Jobs
    <3>1. Same(n) /\ AtWork(n)
      BY <1>4, <1>20, <2>2
    <3> QED BY <1>2, <3>1, AtWorkSame
  <2> QED BY <1>19, <2>1, <2>2
<1>30. InProgress'
  BY <1>19, <1>22, <1>23, <1>26, <1>28, <1>29 DEF InProgress
<1> QED BY <1>2, <1>17, <1>18, <1>30 DEF BInv, Active, Ending

(* The job that the main thread counts off has been done.                   *)
LEMMA DoneKnows ==
  ASSUME JInv, QInv, BInv, JobDone
  PROVE  /\ pc \in {"wait", "waiting"} /\ pc \in Active /\ Done(j) /\ j \in Jobs /\ j \in Workers
         /\ Finished(j) /\ input[j].running
<1>1. Done(j) /\ ((pc = "wait" /\ ~ MustWait(output[j])) \/ (pc = "waiting" /\ Woken(output[j], Main)))
  BY DEF JobDone
<1>2. pc \in {"wait", "waiting"} /\ pc \in Active /\ pc \notin Ending
  BY <1>1 DEF Active, Ending
<1>3. j \in Jobs /\ j \in Workers
  <2>1. j \in 1 .. i_thread
    BY <1>2 DEF QInv
  <2> QED BY <2>1, ThreadsAssumption DEF Jobs, Workers, JInv, JobsFit
<1>4. output[j].items # <<>>
  <2>1. output[j].running
    BY <1>3 DEF QInv
  <2> QED BY <1>1, <2>1 DEF MustWait, QInv, PopFindsItem
<1>5. Turn(j) /\ Asked(j)
  BY <1>2, <1>3 DEF BInv, Asked, Jobs, JInv
<1>6. Finished(j) /\ input[j].running
  BY <1>4, <1>5 DEF Turn, Queued, Busy
<1> QED BY <1>1, <1>2, <1>3, <1>6

LEMMA DoneStep ==
  ASSUME JInv, QInv, BInv, JobDone
  PROVE  BInv'
<1>1. /\ pc \in {"wait", "waiting"} /\ pc \in Active /\ pc \notin Ending /\ Done(j) /\ j \in Jobs
      /\ j \in Workers /\ Finished(j) /\ input[j].running
  BY DoneKnows DEF Active, Ending
<1>2. /\ output' = [output EXCEPT ![j] = Popped(@)]
      /\ start' = start /\ i_thread' = i_thread /\ counter' = counter /\ gates' = gates /\ S' = S
      /\ job' = job /\ input' = input /\ wpc' = wpc /\ mine' = mine /\ at' = at /\ labels' = labels
      /\ UNCHANGED running
  BY <1>1 DEF Done, running
<1>3. Types /\ Dispatch /\ start = Len(args.tuples) + 1
  <2>1. Types /\ Dispatch
    BY <1>1, InstructionKnows DEF InProgress
  <2> QED BY <1>1, <2>1 DEF Dispatch
<1>4. PICK n : n = j /\ n \in Nat /\ n <= i_thread /\ n \in 1 .. i_thread /\ i_thread \in Nat
  BY <1>1 DEF Jobs, JInv
<1>5. /\ output'[n].items = <<>>
      /\ \A i \in Workers : i # n => output'[i] = output[i]
  <2>1. output[n] \in [items : Seq(Nat), running : BOOLEAN, waiting : SUBSET {Main}] /\ output[n].running
    BY <1>1, <1>4 DEF QInv, Queue
  <2>2. output[n].items = <<0>> /\ <<0>> # <<>> /\ Tail(<<0>>) = <<>>
    BY <1>1, <1>4 DEF Finished
  <2>3. Popped(output[n]).items = <<>>
    BY <2>1, <2>2 DEF Popped
  <2> QED BY <1>1, <1>2, <1>4, <2>3 DEF QInv
<1>6. Idle(n)' /\ ~ Queued(n)' /\ ~ Queued(n)
  <2>1. input[n].items = <<>> /\ wpc[n] \in {"pop", "waiting"} /\ output[n].items = <<0>> /\ <<0>> # <<>>
    BY <1>1, <1>4 DEF Finished, Resting
  <2>2. input[n].items # <<n>>
    <3>1. <<n>> # <<>>
      OBVIOUS
    <3> QED BY <2>1, <3>1
  <2> QED BY <1>2, <1>5, <2>1, <2>2 DEF Idle, Queued, Resting
<1>7. CASE j < i_thread
  <2>1. pc' = "wait" /\ j' = n + 1 /\ k' = k /\ before' = before /\ args' = args /\ pc' \in Active
    BY <1>1, <1>4, <1>7 DEF Done, args, Active
  <2>2. \A i \in Workers : Turn(i)'
    <3> TAKE i \in Workers
    <3>1. CASE i = n
      <4>1. ~ Asked(i)'
        BY <1>4, <2>1, <3>1 DEF Asked
      <4> QED BY <1>1, <1>2, <1>4, <1>6, <3>1, <4>1 DEF Turn
    <3>2. CASE i # n
      <4>1. Asked(i)' <=> Asked(i)
        <5>1. i \in Int
          BY DEF Workers
        <5>2. i \in n + 1 .. i_thread <=> i \in n .. i_thread
          BY <1>4, <3>2, <5>1
        <5> QED BY <1>1, <1>2, <1>4, <2>1, <5>2 DEF Asked
      <4>2. Turn(i)
        BY <1>1 DEF BInv
      <4> QED BY <1>2, <1>5, <3>2, <4>1, <4>2 DEF Turn, Queued, Busy, Finished, Idle, Resting
    <3> QED BY <3>1, <3>2
  <2>3. \A i \in Jobs : Queued(i)' <=> Queued(i)
    <3> TAKE i \in Jobs
    <3>1. i \in Workers
      BY <1>1, JobKnows
    <3> QED BY <1>2, <1>5, <1>6, <3>1 DEF Queued, Resting
  <2>4. Dispatch'
    <3>1. n + 1 \in 1 .. i_thread
      BY <1>4, <1>7
    <3> QED BY <1>2, <1>3, <2>1, <3>1 DEF Dispatch, Executing, Jobs
  <2>5. Sent' = Sent /\ counter' \in Nat /\ start' \in Nat \ {0}
    BY <1>1, <1>2, <1>3, <2>1 DEF Sent, Types
  <2> QED BY <1>1, <1>2, <2>1, <2>2, <2>3, <2>4, <2>5, MainFrame
<1>8. CASE ~ (j < i_thread)
  <2>1. pc' = "next" /\ before' = [S |-> S, gates |-> gates.slots, counter |-> counter]
    BY <1>1, <1>8 DEF Done
  <2>2. \A i \in Workers : Turn(i)'
    <3> TAKE i \in Workers
    <3>1. ~ Asked(i)'
      BY <2>1 DEF Asked
    <3>2. CASE i = n
      BY <1>1, <1>2, <1>4, <1>6, <3>1, <3>2 DEF Turn
    <3>3. CASE i # n
      <4>1. ~ Asked(i)
        <5>1. i \in Int /\ ~ (i \in n .. i_thread)
          BY <1>4, <1>8, <3>3 DEF Workers
        <5> QED BY <1>1, <1>4, <5>1 DEF Asked
      <4>2. Turn(i)
        BY <1>1 DEF BInv
      <4> QED BY <1>2, <1>5, <3>1, <3>3, <4>1, <4>2 DEF Turn, Idle, Resting
    <3> QED BY <3>2, <3>3
  <2>3. Types'
    <3>1. before' \in [S : [Reg -> Nat], gates : Seq(Known), counter : Nat]
      <4>1. S \in [Reg -> Nat] /\ gates.slots \in Seq(Known) /\ counter \in Nat
        BY <1>3 DEF Types
      <4> QED BY <2>1, <4>1
    <3> QED BY <1>2, <1>3, <3>1 DEF Types
  <2>4. S' = before'.S /\ gates'.slots = before'.gates /\ counter' = before'.counter
    BY <1>2, <2>1
  <2> QED BY <2>1, <2>2, <2>3, <2>4 DEF BInv, Active, Ending
<1> QED BY <1>7, <1>8

-----------------------------------------------------------------------------
(* The invariant.                                                           *)
LEMMA BInvInit == Init => BInv
<1> SUFFICES ASSUME Init PROVE BInv
  OBVIOUS
<1>1. Types
  <2>1. gates \in [id : Nat, max_len : Nat, slots : Seq(Known)]
    <3>1. <<>> \in Seq(Known)
      OBVIOUS
    <3> QED BY <3>1 DEF Init
  <2>2. NoJob \in Fields
    BY DEF NoJob, Fields
  <2>3. S \in [Reg -> Nat] /\ S = [r \in Reg |-> 0]
    BY DEF Init
  <2>4. before \in [S : [Reg -> Nat], gates : Seq(Known), counter : Nat]
    <3>1. <<>> \in Seq(Known) /\ before = [S |-> S, gates |-> <<>>, counter |-> 0]
      BY DEF Init
    <3> QED BY <2>3, <3>1
  <2>5. job \in [Workers -> Fields] /\ mine \in [Workers -> Fields]
    BY <2>2 DEF Init
  <2>6. at \in [Workers -> Nat] /\ labels \in [Workers -> Seq(Label)] /\ counter \in Nat /\ start \in Nat \ {0}
    <3>1. <<>> \in Seq(Label)
      OBVIOUS
    <3> QED BY <3>1 DEF Init
  <2> QED BY <2>1, <2>3, <2>4, <2>5, <2>6 DEF Types
<1>2. \A i \in Workers : Turn(i)
  <2> TAKE i \in Workers
  <2>1. input[i] = NewQueue /\ output[i] = NewQueue /\ wpc[i] = "pop" /\ pc = "next"
    BY DEF Init
  <2> QED BY <2>1 DEF Turn, Asked, Idle, Resting, NewQueue
<1>3. pc = "next" /\ S = before.S /\ gates.slots = before.gates /\ counter = before.counter
  BY DEF Init
<1> QED BY <1>1, <1>2, <1>3 DEF BInv, Active, Ending

LEMMA BInvWorker ==
  ASSUME JInv, QInv, BInv, NEW i \in Workers, WorkerNext(i)
  PROVE  BInv'
<1>1. CASE pc \in Ending
  <2>1. pc' = pc
    BY DEF WorkerNext, WorkerWait, WorkerPop, WorkerRun, WorkerExit, WorkerLabels,
           WorkerGarble, WorkerPush, shared
  <2> QED BY <1>1, <2>1 DEF BInv, Ending, Active
<1>2. CASE pc \notin Ending
  <2>1. ~ WorkerExit(i)
    <3>1. wpc[i] = "popped" => input[i].running
      BY <1>2, WorkingKnows DEF Resting
    <3> QED BY <3>1 DEF WorkerExit
  <2>2. CASE WorkerWait(i)
    BY <1>2, <2>2, WaitStep
  <2>3. CASE WorkerPop(i)
    BY <1>2, <2>3, PopStep
  <2>4. CASE WorkerRun(i)
    BY <1>2, <2>4, RunJobStep
  <2>5. CASE WorkerLabels(i)
    BY <1>2, <2>5, LabelsStep
  <2>6. CASE WorkerGarble(i)
    BY <1>2, <2>6, GarbleStep
  <2>7. CASE WorkerPush(i)
    BY <1>2, <2>7, PushStep
  <2> QED BY <2>1, <2>2, <2>3, <2>4, <2>5, <2>6, <2>7 DEF WorkerNext
<1> QED BY <1>1, <1>2

LEMMA BInvNext == JInv /\ JInv' /\ QInv /\ BInv /\ [Next]_vars => BInv'
<1> SUFFICES ASSUME JInv, JInv', QInv, BInv, [Next]_vars PROVE BInv'
  OBVIOUS
<1>1. CASE GarbleAlone
  BY <1>1, AloneStep
<1>2. CASE Prepare
  BY <1>2, PrepareStep
<1>3. CASE CountTuple
  BY <1>3, CountStep
<1>4. CASE FillJob
  BY <1>4, FillStep
<1>5. CASE Request
  BY <1>5, RequestStep
<1>6. CASE StartWaiting
  BY <1>6, StartWaitingStep
<1>7. CASE WaitForJob
  BY <1>7, WaitForJobStep
<1>8. CASE JobDone
  BY <1>8, DoneStep
<1>9. CASE BeginDelete
  BY <1>9 DEF BeginDelete, BInv, Active, Ending
<1>10. CASE StopWorker
  BY <1>10 DEF StopWorker, BInv, Active, Ending
<1>11. CASE JoinWorker
  BY <1>11 DEF JoinWorker, BInv, Active, Ending
<1>12. CASE \E i \in Workers : WorkerNext(i)
  BY <1>12, BInvWorker
<1>13. CASE UNCHANGED vars
  <2>1. /\ pc' = pc /\ k' = k /\ j' = j /\ start' = start /\ i_gate' = i_gate /\ i_thread' = i_thread
        /\ counter' = counter /\ gates' = gates /\ S' = S /\ job' = job /\ input' = input
        /\ output' = output /\ wpc' = wpc /\ mine' = mine /\ at' = at /\ labels' = labels
        /\ before' = before
    BY <1>13 DEF vars, dispatching, queues, running
  <2>2. args' = args
    BY <2>1 DEF args
  <2>3. /\ Jobs' = Jobs /\ Sent' = Sent /\ Base' = Base /\ \A t : GatesOf(t)' = GatesOf(t)
        /\ \A i : Share(i)' = Share(i)
    BY <2>1, <2>2 DEF Jobs, Sent, Base, GatesOf, Share
  <2>4. Types => Types'
    BY <2>1 DEF Types
  <2>5. \A i : Turn(i) => Turn(i)'
    BY <2>1 DEF Turn, Asked, Queued, Busy, Finished, Idle, Resting
  <2>6. \A i : AtWork(i) => AtWork(i)'
    <3> TAKE i
    <3>1. Same(i)
      BY <2>1 DEF Same
    <3> QED BY <2>1, <2>2, <3>1, AtWorkSame
  <2>7. Product => Product'
    <3>1. \A i, t : Left(i, t) => Left(i, t)'
      BY <2>1 DEF Left, Queued, Resting
    <3>2. \A t : Garbled(t) => Garbled(t)'
      BY <2>1, <2>2, <2>3 DEF Garbled
    <3> QED BY <2>1, <2>2, <2>3, <3>1, <3>2 DEF Product, NotWritten
  <2>8. Dispatch => Dispatch'
    BY <2>1, <2>2, <2>3 DEF Dispatch, Executing
  <2>9. Filled => Filled'
    BY <2>1, <2>2, <2>3 DEF Filled
  <2>10. Shares => Shares'
    BY <2>1, <2>2, <2>3 DEF Shares, Placed
  <2>11. InProgress => InProgress'
    BY <2>3, <2>6, <2>7, <2>8, <2>9, <2>10 DEF InProgress
  <2> QED BY <2>1, <2>4, <2>5, <2>11 DEF BInv
<1> QED BY <1>1, <1>2, <1>3, <1>4, <1>5, <1>6, <1>7, <1>8, <1>9, <1>10, <1>11, <1>12, <1>13 DEF Next, MainNext

(* Where an instruction stands, at every moment of its dispatch, of each     *)
(* worker's two loops and of the wait: what the buffer and the registers     *)
(* hold for the tuples passed, and what the jobs still owe.                  *)
THEOREM Progress == Spec => []BInv
<1>1. Init => JInv /\ QInv /\ BInv
  BY JInvInit, QInvInit, BInvInit
<1>2. JInv /\ QInv /\ BInv /\ [Next]_vars => (JInv /\ QInv /\ BInv)'
  BY JInvNext, QInvNext, BInvNext
<1> QED BY <1>1, <1>2, PTL DEF Spec

-----------------------------------------------------------------------------
(* The refinement: an instruction takes effect at once, when it has been     *)
(* garbled alone or its last job counted off.                               *)
LEMMA SameBatches ==
  ASSUME NEW x, NEW keys, NEW c
  PROVE  /\ A!Batch(x, keys, c) = Batch(x, keys, c) /\ A!Written(x, keys, c) = Written(x, keys, c)
         /\ A!Total(x) = Total(x)
BY DEF A!Batch, A!Written, A!Total, A!GateTuple, A!Gate, A!Inputs, A!Upto,
       Batch, Written, Total, GateTuple, Gate, Inputs, Upto

LEMMA OneMore ==
  ASSUME JInv, pc \notin {"stop", "join"}, Executing, k' = k + 1,
         before'.gates = before.gates \o Batch(args, before.S, before.counter),
         before'.S = Written(args, before.S, before.counter),
         before'.counter = before.counter + Total(args)
  PROVE  A!Next
<1>1. k \in Nat \ {0} /\ k \in 1 .. Len(Instrs) /\ Len(Instrs) \in Nat
  BY InstrsAssumption DEF JInv, Executing
<1>2. k - 1 < Len(Instrs) /\ (k - 1) + 1 = k /\ k' - 1 = (k - 1) + 1
  BY <1>1
<1>3. Instrs[(k - 1) + 1] = args
  BY <1>2 DEF args
<1> QED BY <1>2, <1>3, SameBatches, ZenonT(60) DEF A!Next

LEMMA AloneIsBatch ==
  ASSUME JInv, BInv, GarbleAlone
  PROVE  A!Next
<1>1. /\ pc = "next" /\ Executing /\ k' = k + 1 /\ args = Instrs[k] /\ k \in DOMAIN Instrs
      /\ gates' = Appended(Allocated(gates, Total(args)), Batch(args, S, counter))
      /\ S' = Written(args, S, counter) /\ counter' = counter + Total(args)
      /\ before' = [S |-> S', gates |-> gates'.slots, counter |-> counter']
  BY DEF GarbleAlone, Executing, args
<1>2. Types /\ S = before.S /\ gates.slots = before.gates /\ counter = before.counter
  BY <1>1, BetweenKnows
<1>3. PICK b, gs, n, r : b = Allocated(gates, n) /\ gs = Batch(args, S, counter) /\ n = Total(args) /\ r = gates'
  OBVIOUS
<1>4. gs \in [1 .. n -> Known] /\ n \in Nat
  <2>1. S \in [Reg -> Nat] /\ counter \in Nat
    BY <1>2 DEF Types
  <2> QED BY <1>1, <1>3, <2>1, BatchType
<1>5. b \in Buffers /\ b.slots = gates.slots
  <2>1. gates \in Buffers
    BY <1>2 DEF Types, Buffers
  <2> QED BY <1>3, <1>4, <2>1, AllocatedFacts
<1>6. r = Appended(b, gs)
  BY <1>1, <1>3
<1>7. r.slots = b.slots \o gs
  BY <1>4, <1>5, <1>6, AppendedFacts, ZenonT(60)
<1>8. before'.gates = before.gates \o Batch(args, before.S, before.counter)
  BY <1>1, <1>2, <1>3, <1>5, <1>7
<1>9. /\ before'.S = Written(args, before.S, before.counter)
      /\ before'.counter = before.counter + Total(args)
  BY <1>1, <1>2
<1> QED BY <1>1, <1>8, <1>9, OneMore

(* When the last job is counted off, every tuple has been garbled.          *)
LEMMA AllGarbled ==
  ASSUME JInv, QInv, BInv, JobDone, ~ (j < i_thread)
  PROVE  /\ \A t \in 1 .. Len(args.tuples) : Garbled(t)
         /\ Sent = Len(args.tuples) /\ start = Len(args.tuples) + 1
<1>1. pc \in {"wait", "waiting"} /\ pc \in Active /\ pc \notin Ending /\ j \in Jobs /\ Finished(j)
  BY DoneKnows DEF Active, Ending
<1>2. Dispatch /\ Shares /\ Product /\ Len(args.tuples) \in Nat
  BY <1>1, InstructionKnows DEF InProgress
<1>3. start = Len(args.tuples) + 1 /\ Sent = Len(args.tuples)
  BY <1>1, <1>2 DEF Dispatch, Sent
<1>4. j = i_thread
  BY <1>1 DEF Jobs, JInv
<1>5. ASSUME NEW i \in Jobs, NEW t PROVE ~ Left(i, t)
  <2>1. Idle(i) \/ Finished(i)
    <3>1. CASE i = j
      BY <1>1, <3>1
    <3>2. CASE i # j
      <4>1. ~ Asked(i)
        <5>1. i \in Int /\ ~ (i \in j .. i_thread)
          BY <1>4, <3>2 DEF Jobs
        <5> QED BY <1>1, <5>1 DEF Asked
      <4>2. Turn(i)
        BY <1>1, JobKnows DEF BInv
      <4> QED BY <4>1, <4>2 DEF Turn
    <3> QED BY <3>1, <3>2
  <2>2. input[i].items = <<>> /\ wpc[i] \in {"pop", "waiting"}
    BY <2>1 DEF Idle, Finished, Resting
  <2>3. ~ Queued(i)
    <3>1. <<i>> # <<>>
      OBVIOUS
    <3> QED BY <2>2, <3>1 DEF Queued
  <2> QED BY <1>1, <2>2, <2>3 DEF Left
<1>6. ASSUME NEW t \in 1 .. Len(args.tuples) PROVE Garbled(t)
  <2>1. PICK i \in Jobs : t \in Share(i)
    BY <1>2, <1>3 DEF Shares
  <2> QED BY <1>2, <1>5, <2>1 DEF Product
<1> QED BY <1>3, <1>6

LEMMA LastDoneIsBatch ==
  ASSUME JInv, QInv, BInv, JobDone, ~ (j < i_thread)
  PROVE  A!Next
<1>1. pc \in Active /\ pc \notin {"stop", "join"} /\ Done(j)
  BY DoneKnows DEF Active
<1>2. k' = k + 1 /\ before' = [S |-> S, gates |-> gates.slots, counter |-> counter]
  BY <1>1 DEF Done
<1>3. /\ Types /\ Dispatch /\ Filled /\ Product /\ Executing /\ k \in DOMAIN Instrs /\ args = Instrs[k]
      /\ Len(args.tuples) \in Nat \ {0} /\ Upto(args, Len(args.tuples)) = Total(args)
      /\ Base \in Nat /\ before.counter \in Nat /\ before.S \in [Reg -> Nat]
  BY <1>1, InstructionKnows DEF InProgress, Executing, args
<1>4. PICK l, n, base, x, c, keys : /\ l = Len(args.tuples) /\ n = Total(args) /\ base = Base /\ x = args
                                    /\ c = before.counter /\ keys = before.S
  OBVIOUS
<1>5. /\ \A t \in 1 .. l : Garbled(t)
      /\ Sent = l /\ start = l + 1
  BY <1>4, AllGarbled
<1>6. before'.counter = c + n
  <2>1. (l + 1) - 1 = l
    BY <1>3, <1>4
  <2>2. counter = before.counter + Upto(args, (l + 1) - 1)
    BY <1>3, <1>5 DEF Dispatch
  <2> QED BY <1>2, <1>3, <1>4, <2>1, <2>2
<1>7. before'.S = Written(x, keys, c)
  <2>1. PICK f : f = Written(x, keys, c) /\ f = [r \in Reg |-> f[r]]
    BY DEF Written
  <2>2. S \in [Reg -> Nat]
    BY <1>3 DEF Types
  <2>3. \A r \in Reg : S[r] = f[r]
    <3> TAKE r \in Reg
    <3>1. CASE \E t \in 1 .. l : x.tuples[t].out = r
      <4>1. PICK t \in 1 .. l : x.tuples[t].out = r
        BY <3>1
      <4>2. S[r] = c + Upto(x, t - 1) + 1
        BY <1>4, <1>5, <4>1 DEF Garbled
      <4>3. f[r] = c + Upto(x, t - 1) + 1
        BY <1>3, <1>4, <2>1, <4>1, WrittenFacts
      <4> QED BY <4>2, <4>3
    <3>2. CASE \A t \in 1 .. l : x.tuples[t].out # r
      <4>1. S[r] = keys[r]
        BY <1>3, <1>4, <3>2 DEF Product, NotWritten
      <4>2. f[r] = keys[r]
        <5>1. k \in DOMAIN Instrs /\ x = Instrs[k] /\ \A t \in 1 .. Len(x.tuples) : x.tuples[t].out # r
          BY <1>3, <1>4, <3>2
        <5>2. Written(x, keys, c)[r] = keys[r]
          BY <5>1, WrittenFacts
        <5> QED BY <2>1, <5>2
      <4> QED BY <4>1, <4>2
    <3> QED BY <3>1, <3>2
  <2>4. S = f
    BY <2>1, <2>2, <2>3
  <2> QED BY <1>2, <2>1, <2>4
<1>8. PICK s, old, gs : s = gates.slots /\ old = before.gates /\ gs = Batch(x, keys, c)
  OBVIOUS
<1>9. s \in Seq(Known) /\ old \in Seq(Known) /\ gs \in [1 .. n -> Known] /\ n \in Nat
  <2>1. s \in Seq(Known) /\ old \in Seq(Known)
    BY <1>3, <1>8 DEF Types
  <2> QED BY <1>3, <1>4, <1>8, <2>1, BatchType
<1>10. /\ Len(s) = base + n /\ Len(old) = base /\ base \in Nat
       /\ \A g \in 1 .. base : s[g] = old[g]
  <2>1. Len(s) = base + n
    BY <1>3, <1>4, <1>5, <1>8 DEF Filled
  <2>2. Len(old) = base /\ base \in Nat
    BY <1>3, <1>4, <1>8 DEF Base
  <2>3. \A g \in 1 .. base : s[g] = old[g]
    BY <1>3, <1>4, <1>8 DEF Filled
  <2> QED BY <2>1, <2>2, <2>3
<1>11. \A g \in 1 .. n : s[base + g] = gs[g]
  <2> TAKE g \in 1 .. n
  <2>1. PICK t \in 1 .. l : g \in Upto(x, t - 1) + 1 .. Upto(x, t)
    BY <1>3, <1>4, GateHasTuple
  <2>2. gs[g] = Gate(Inputs(x, t, keys), Inputs(x, t, keys), c + Upto(x, t - 1) + 1, c + g)
    BY <1>3, <1>4, <1>8, <2>1, BatchFacts
  <2>3. s[base + g] = Gate(Inputs(x, t, keys), Inputs(x, t, keys), c + Upto(x, t - 1) + 1, c + g)
    BY <1>4, <1>5, <1>8, <2>1 DEF Garbled, GatesOf
  <2> QED BY <2>2, <2>3
<1>12. s = old \o gs
  <2>1. IsSeq(old) /\ IsSeq(gs) /\ gs \in Seq(Known) /\ Len(gs) = n
    BY <1>9 DEF IsSeq
  <2>2. PICK r : r = Cat(old, gs)
    OBVIOUS
  <2>3. /\ Len(r) = base + n
        /\ \A g \in 1 .. base : r[g] = old[g]
        /\ \A g \in 1 .. n : r[base + g] = gs[g]
    <3>1. /\ Len(Cat(old, gs)) = Len(old) + Len(gs)
          /\ \A g \in 1 .. Len(old) : Cat(old, gs)[g] = old[g]
          /\ \A g \in 1 .. Len(gs) : Cat(old, gs)[Len(old) + g] = gs[g]
      BY <2>1, CatElements
    <3> QED BY <1>10, <2>1, <2>2, <3>1
  <2>4. r = old \o gs
    BY <2>2 DEF Cat
  <2>5. r \in Seq(Known)
    BY <1>9, <2>1, <2>4
  <2>6. \A g \in 1 .. base + n : s[g] = r[g]
    <3> TAKE g \in 1 .. base + n
    <3>1. CASE g \in 1 .. base
      BY <1>10, <2>3, <3>1
    <3>2. CASE g \notin 1 .. base
      <4>1. PICK m : m = g - base
        OBVIOUS
      <4>2. m \in 1 .. n /\ g = base + m
        BY <1>9, <1>10, <3>2, <4>1
      <4> QED BY <1>11, <2>3, <4>2
    <3> QED BY <3>1, <3>2
  <2>7. s = r
    BY <1>9, <1>10, <2>3, <2>5, <2>6
  <2> QED BY <2>4, <2>7
<1>13. before'.gates = old \o gs
  BY <1>2, <1>8, <1>12
<1> QED BY <1>1, <1>2, <1>3, <1>4, <1>6, <1>7, <1>8, <1>13, OneMore

LEMMA StepImplements == JInv /\ QInv /\ BInv /\ [Next]_vars => [A!Next]_(A!vars)
<1> SUFFICES ASSUME JInv, QInv, BInv, [Next]_vars PROVE [A!Next]_(A!vars)
  OBVIOUS
<1>1. CASE GarbleAlone
  BY <1>1, AloneIsBatch
<1>2. CASE JobDone /\ ~ (j < i_thread)
  BY <1>2, LastDoneIsBatch
<1>3. ASSUME k' = k, before' = before PROVE A!vars' = A!vars
  BY <1>3 DEF A!vars
<1>4. CASE JobDone /\ j < i_thread
  <2>1. Done(j)
    BY <1>4 DEF JobDone
  <2>2. k' = k /\ before' = before
    BY <1>4, <2>1 DEF Done
  <2> QED BY <1>3, <2>2
<1>5. CASE Prepare \/ CountTuple \/ FillJob \/ Request \/ StartWaiting \/ WaitForJob
             \/ BeginDelete \/ StopWorker \/ JoinWorker
  <2>1. k' = k /\ before' = before
    BY <1>5 DEF Prepare, CountTuple, FillJob, Request, StartWaiting, WaitForJob, BeginDelete,
                StopWorker, JoinWorker
  <2> QED BY <1>3, <2>1
<1>6. CASE \E i \in Workers : WorkerNext(i)
  <2>1. k' = k /\ before' = before
    BY <1>6 DEF WorkerNext, WorkerWait, WorkerPop, WorkerRun, WorkerExit, WorkerLabels,
                WorkerGarble, WorkerPush, shared
  <2> QED BY <1>3, <2>1
<1>7. CASE UNCHANGED vars
  <2>1. k' = k /\ before' = before
    BY <1>7 DEF vars
  <2> QED BY <1>3, <2>1
<1> QED BY <1>1, <1>2, <1>4, <1>5, <1>6, <1>7 DEF Next, MainNext

(* However many threads garble a program and however they are interleaved,   *)
(* the buffer, the registers and the counter come out as if its instructions *)
(* were garbled one by one.                                                 *)
THEOREM BatchesImplemented == Spec => ImplementsBatches
<1>1. Init => A!Init
  BY DEF Init, A!Init
<1>2. JInv /\ QInv /\ BInv /\ [Next]_vars => [A!Next]_(A!vars)
  BY StepImplements
<1>3. Init => JInv /\ QInv /\ BInv
  BY JInvInit, QInvInit, BInvInit
<1>4. JInv /\ QInv /\ BInv /\ [Next]_vars => (JInv /\ QInv /\ BInv)'
  BY JInvNext, QInvNext, BInvNext
<1> QED BY <1>1, <1>2, <1>3, <1>4, PTL DEF Spec, ImplementsBatches, A!Spec

-----------------------------------------------------------------------------
(* The threads of OtTriples.                                               *)

L == Len(Phases[machine.mode])

(* The number of the round of loop kk and phase ph, with l phases a loop;   *)
(* that of generator g, and whether multiplier m has put it out.            *)
Number(kk, ph, l) == (kk - 1) * l + ph
Current(g) == Number(gen_k[g], phase[g], L)
Put(g, m) == LET now == <<gen_k[g], phase[g]>> IN outputs[m] = <<Current(g), now, now, now>>

Extending == {"extend", "extending", "lock"}

(* Multiplier m of g, by who holds its mutex, who waits, and where it is.   *)
Locked(g, m, w, r) == owner[m] = g /\ waiting[m] = w /\ mpc[m] = "waiting" /\ round[m] = r
Free(m, w, r) == owner[m] = Nobody /\ waiting[m] = w /\ mpc[m] = "waiting" /\ round[m] = r
Runs(m, w, here, r) == owner[m] = m /\ waiting[m] = w /\ mpc[m] = here /\ round[m] = r

(* What g expects of its n-th multiplier, m.                                *)
Handshake(g, n, m) ==
  /\ (gpc[g] = "progress" /\ gen_i[g] <= n) \/ (gpc[g] = "progressing" /\ gen_i[g] < n) =>
       owner[m] = g /\ waiting[m] = {} /\ mpc[m] \in Extending /\ round[m] = 0
  /\ gpc[g] = "progressing" /\ gen_i[g] = n =>
       \/ owner[m] = Nobody /\ waiting[m] = {g} /\ mpc[m] \in Extending /\ round[m] = 0
       \/ Free(m, {m}, 0)
  /\ (gpc[g] \in {"progress", "progressing"} /\ n < gen_i[g]) \/ gpc[g] \in {"report", "reporting"} =>
       Locked(g, m, {m}, 0)
  /\ gpc[g] = "fill" => Locked(g, m, IF phase[g] = 1 THEN {} ELSE {m}, Current(g) - 1)
  /\ (gpc[g] = "await" /\ gen_i[g] <= n) \/ (gpc[g] = "awaiting" /\ gen_i[g] < n) =>
       Locked(g, m, {}, Current(g) - 1)
  /\ gpc[g] = "awaiting" /\ gen_i[g] = n =>
       \/ Free(m, {g}, Current(g) - 1)
       \/ Runs(m, {g}, "multiply", Current(g) - 1)
       \/ Runs(m, {g}, "multiplying", Current(g))
       \/ Free(m, {m}, Current(g)) /\ Put(g, m)
  /\ (gpc[g] \in {"await", "awaiting"} /\ n < gen_i[g]) \/ gpc[g] \in {"add", "meet", "meeting", "end"} =>
       Locked(g, m, {m}, Current(g)) /\ Put(g, m)
  /\ (gpc[g] = "unlock" /\ gen_i[g] <= n) \/ (gpc[g] = "join" /\ gen_i[g] < n) =>
       Locked(g, m, {}, NRounds)
  /\ gpc[g] = "join" /\ gen_i[g] = n =>
       Free(m, {}, NRounds) \/ Runs(m, {}, "unlock", NRounds) \/ mpc[m] = "done"
  /\ (gpc[g] \in {"unlock", "join"} /\ n < gen_i[g]) \/ gpc[g] = "done" =>
       mpc[m] = "done"

GeneratorPlaces == {"progress", "progressing", "report", "reporting", "fill", "await", "awaiting",
                    "add", "meet", "meeting", "end", "unlock", "join", "done"}

GeneratorInv(g) ==
  /\ gpc[g] \in GeneratorPlaces
  /\ gen_i[g] \in 1 .. NOthers /\ phase[g] \in 1 .. L /\ gen_k[g] \in 1 .. NLoops + 1
  /\ gpc[g] \in {"progress", "progressing", "report", "reporting"} => gen_k[g] = 1 /\ phase[g] = 1
  /\ gpc[g] \in {"fill", "await", "awaiting", "add", "meet", "meeting", "end"} => gen_k[g] <= NLoops
  /\ gpc[g] \in {"await", "awaiting", "add", "meet", "meeting", "end"} => valueBits[g] = <<gen_k[g], phase[g]>>
  /\ gpc[g] \in {"report", "reporting", "fill", "add", "meet", "meeting", "end"} => gen_i[g] = 1
  /\ gpc[g] = "end" => phase[g] = L

(* What a multiplier has sent: the message of the extension, then the bits  *)
(* of every round it has begun.                                             *)
SentInv(m) ==
  /\ sent[m] \in Seq(Nat \X Nat)
  /\ Len(sent[m]) = IF mpc[m] = "extend" THEN 0 ELSE round[m] + 1
  /\ \A kk \in Nat \ {0}, ph \in 1 .. L :
       Number(kk, ph, L) <= round[m] => sent[m][Number(kk, ph, L) + 1] = <<kk, ph>>

OtTypes ==
  /\ machine \in Machines
  /\ DOMAIN gpc = Generator /\ DOMAIN gen_i = Generator /\ DOMAIN gen_k = Generator /\ DOMAIN phase = Generator
  /\ DOMAIN valueBits = Generator
  /\ DOMAIN mpc = Multiplier /\ round \in [Multiplier -> Nat]
  /\ DOMAIN sent = Multiplier /\ DOMAIN outputs = Multiplier
  /\ DOMAIN owner = Generator \cup Multiplier /\ DOMAIN waiting = Generator \cup Multiplier

IInv ==
  /\ OtTypes
  /\ \A g \in Generator : GeneratorInv(g) /\ \A n \in 1 .. NOthers : Handshake(g, n, MultOf(g, n))
  /\ \A m \in Multiplier : SentInv(m)

-----------------------------------------------------------------------------
(* Rounds are numbered from 1 to NRounds, in order of loop and phase; there *)
(* are one or two phases.                                                   *)
LEMMA PhasesFacts ==
  ASSUME machine \in Machines
  PROVE  L \in {1, 2} /\ NRounds = NLoops * L
  BY MachinesAssumption DEF L, Phases, NRounds

LEMMA NumberFacts ==
  ASSUME NEW l \in {1, 2}
  PROVE  /\ \A kk \in Nat \ {0}, ph \in 1 .. l : Number(kk, ph, l) \in Nat \ {0}
         /\ \A kk \in 1 .. NLoops, ph \in 1 .. l : Number(kk, ph, l) <= NLoops * l
         /\ \A a, c \in Nat \ {0}, b, d \in 1 .. l :
              Number(a, b, l) = Number(c, d, l) => a = c /\ b = d
         /\ Number(1, 1, l) = 1
         /\ \A kk \in Nat \ {0}, ph \in 1 .. l : ph < l => Number(kk, ph + 1, l) = Number(kk, ph, l) + 1
         /\ \A kk \in Nat \ {0} : Number(kk + 1, 1, l) = Number(kk, l, l) + 1
         /\ Number(NLoops + 1, 1, l) = NLoops * l + 1
  <1>1. CASE l = 1
    BY <1>1, MachinesAssumption DEF Number
  <1>2. CASE l = 2
    BY <1>2, MachinesAssumption DEF Number
  <1>3. QED
    BY <1>1, <1>2

LEMMA RoundsDiffer ==
  ASSUME NEW l \in {1, 2}, NEW a \in Nat \ {0}, NEW c \in Nat \ {0}, NEW b \in 1 .. l, NEW d \in 1 .. l,
         Number(a, b, l) = Number(c, d, l)
  PROVE  a = c /\ b = d
  <1>1. CASE l = 1
    BY <1>1 DEF Number
  <1>2. CASE l = 2
    BY <1>2 DEF Number
  <1>3. QED
    BY <1>1, <1>2

(* Tuples of different lengths are different.                               *)
LEMMA TuplesDiffer == \A p, t, q : <<p, t, q>> # <<p, t>> /\ <<p, t, q>> # <<>> /\ <<p, t>> # <<>>
  OBVIOUS

(* The multipliers of a generator are one for each other player.            *)
LEMMA MultFacts ==
  ASSUME machine \in Machines, NEW g \in Generator, NEW n \in 1 .. NOthers
  PROVE  /\ MultOf(g, n) \in Multiplier
         /\ Counterpart(MultOf(g, n)) \in Multiplier
         /\ GeneratorOf(MultOf(g, n)) = g
         /\ MultOf(g, n) # g /\ MultOf(g, n) # Nobody /\ g # Nobody
         /\ MultOf(g, n) \notin Generator
         /\ \A q \in 1 .. NOthers : MultOf(g, n) = MultOf(g, q) => n = q
  <1>1. machine.players \in Nat \ {0, 1} /\ machine.threads \in Nat \ {0}
    BY MachinesAssumption
  <1>2. PICK p \in Players, t \in 1 .. machine.threads : g = <<p, t>>
    BY DEF Generator
  <1>3. g[1] = p /\ g[2] = t
    BY <1>2
  <1>4. p \in 0 .. machine.players - 1
    BY DEF Players
  <1>5. \A q \in 1 .. NOthers : OtherPlayer(g, q) \in Players /\ OtherPlayer(g, q) # p
    BY <1>1, <1>3, <1>4 DEF OtherPlayer, NOthers, Players
  <1>6. \A q \in 1 .. NOthers : OtherPlayer(g, q) = OtherPlayer(g, n) => q = n
    BY <1>1, <1>3, <1>4 DEF OtherPlayer, NOthers
  <1>7. \A q \in 1 .. NOthers : MultOf(g, q) = <<p, t, OtherPlayer(g, q)>>
    BY <1>3 DEF MultOf, Mult
  <1>8. MultOf(g, n) \in Multiplier /\ Counterpart(MultOf(g, n)) \in Multiplier
    BY <1>5, <1>7 DEF Multiplier, Counterpart
  <1>9. GeneratorOf(MultOf(g, n)) = g
    BY <1>2, <1>7 DEF GeneratorOf
  <1>10. MultOf(g, n) # g /\ MultOf(g, n) # Nobody /\ g # Nobody
    <2>1. PICK q : q = OtherPlayer(g, n)
      OBVIOUS
    <2>2. MultOf(g, n) = <<p, t, q>> /\ g = <<p, t>>
      BY <1>2, <1>7, <2>1
    <2>3. QED
      BY ONLY <2>2, TuplesDiffer DEF Nobody
  <1>11. MultOf(g, n) \notin Generator
    BY <1>7 DEF Generator
  <1>12. \A q \in 1 .. NOthers : MultOf(g, n) = MultOf(g, q) => n = q
    BY <1>6, <1>7
  <1>13. QED
    BY <1>8, <1>9, <1>10, <1>11, <1>12

LEMMA MultiplierFacts ==
  ASSUME machine \in Machines, NEW m \in Multiplier
  PROVE  /\ GeneratorOf(m) \in Generator
         /\ \E n \in 1 .. NOthers : m = MultOf(GeneratorOf(m), n)
  <1>1. machine.players \in Nat \ {0, 1} /\ machine.threads \in Nat \ {0}
    BY MachinesAssumption
  <1>2. PICK p \in Players, t \in 1 .. machine.threads, q \in Players : m = <<p, t, q>> /\ p # q
    BY DEF Multiplier
  <1>3. GeneratorOf(m) = <<p, t>>
    BY <1>2 DEF GeneratorOf
  <1>4. p \in 0 .. machine.players - 1 /\ q \in 0 .. machine.players - 1
    BY DEF Players
  <1>5. \E n \in 1 .. NOthers : (IF n <= p THEN n - 1 ELSE n) = q
    <2>1. CASE q < p
      <3>1. PICK n : n = q + 1
        OBVIOUS
      <3>2. n \in 1 .. NOthers /\ (IF n <= p THEN n - 1 ELSE n) = q
        BY <1>1, <1>4, <2>1, <3>1 DEF NOthers
      <3>3. QED
        BY <3>2
    <2>2. CASE q > p
      <3>1. q \in 1 .. NOthers /\ (IF q <= p THEN q - 1 ELSE q) = q
        BY <1>1, <1>4, <2>2 DEF NOthers
      <3>2. QED
        BY <3>1
    <2>3. QED
      BY <1>2, <1>4, <2>1, <2>2
  <1>6. \A n : MultOf(<<p, t>>, n) = <<p, t, IF n <= p THEN n - 1 ELSE n>>
    BY DEF MultOf, Mult, OtherPlayer
  <1>7. GeneratorOf(m) \in Generator
    BY <1>3 DEF Generator
  <1>8. QED
    BY <1>2, <1>3, <1>5, <1>6, <1>7

(* A signal wakes the only one who waits.                                   *)
LEMMA SignalFacts ==
  ASSUME NEW w, NEW X, NEW x \in DOMAIN w
  PROVE  /\ DOMAIN AfterSignal(w, X) = DOMAIN w
         /\ x \notin X => AfterSignal(w, X)[x] = w[x]
         /\ w[x] = {} => AfterSignal(w, X)[x] = {}
         /\ \A t : w[x] = {t} /\ x \in X => AfterSignal(w, X)[x] = {}
  <1>1. AfterSignal(w, X)[x] = IF x \in X /\ w[x] # {} THEN w[x] \ {CHOOSE t \in w[x] : TRUE} ELSE w[x]
    BY DEF AfterSignal
  <1>2. ASSUME NEW t, w[x] = {t}, x \in X
        PROVE  AfterSignal(w, X)[x] = {}
    <2>1. (CHOOSE u \in w[x] : TRUE) \in w[x]
      BY <1>2
    <2>2. w[x] \ {CHOOSE u \in w[x] : TRUE} = {}
      BY <1>2, <2>1
    <2>3. QED
      BY <1>1, <1>2, <2>2
  <1>3. DOMAIN AfterSignal(w, X) = DOMAIN w
    BY DEF AfterSignal
  <1>4. QED
    BY <1>1, <1>2, <1>3

-----------------------------------------------------------------------------
(* What depends on the machine alone stays.                                 *)
LEMMA MachineKept ==
  ASSUME machine' = machine
  PROVE  /\ Players' = Players /\ Generator' = Generator /\ Multiplier' = Multiplier
         /\ NOthers' = NOthers /\ L' = L /\ NRounds' = NRounds
  <1>1. Players' = Players
    BY DEF Players
  <1>2. QED
    BY <1>1 DEF Generator, Multiplier, NOthers, L, NRounds

(* A generator and a multiplier that do not move still agree.               *)
LEMMA HandshakeKept ==
  ASSUME machine' = machine, NEW g, NEW n, NEW m, Handshake(g, n, m),
         gpc'[g] = gpc[g], gen_i'[g] = gen_i[g], gen_k'[g] = gen_k[g], phase'[g] = phase[g],
         owner'[m] = owner[m], waiting'[m] = waiting[m],
         mpc'[m] = mpc[m], round'[m] = round[m], outputs'[m] = outputs[m]
  PROVE  Handshake(g, n, m)'
  <1>1. L' = L /\ NRounds' = NRounds
    BY MachineKept
  <1>2. Current(g)' = Current(g)
    BY <1>1 DEF Current
  <1>3. QED
    BY <1>1, <1>2 DEF Handshake, Locked, Free, Runs, Put

LEMMA GeneratorKept ==
  ASSUME machine' = machine, NEW g, GeneratorInv(g), gpc'[g] = gpc[g], gen_i'[g] = gen_i[g],
         gen_k'[g] = gen_k[g], phase'[g] = phase[g], valueBits'[g] = valueBits[g]
  PROVE  GeneratorInv(g)'
  BY MachineKept DEF GeneratorInv

LEMMA SentKept ==
  ASSUME machine' = machine, NEW m, SentInv(m), mpc'[m] = mpc[m], round'[m] = round[m],
         sent'[m] = sent[m]
  PROVE  SentInv(m)'
  BY MachineKept DEF SentInv

(* A step of one generator leaves alone the others and their multipliers.   *)
LEMMA GeneratorAlone ==
  ASSUME IInv, machine' = machine, NEW g \in Generator, UNCHANGED multipliers, OtTypes',
         \A x \in Generator \ {g} :
           /\ gpc'[x] = gpc[x] /\ gen_i'[x] = gen_i[x] /\ gen_k'[x] = gen_k[x] /\ phase'[x] = phase[x]
           /\ valueBits'[x] = valueBits[x],
         \A x \in Multiplier : GeneratorOf(x) # g => owner'[x] = owner[x] /\ waiting'[x] = waiting[x],
         GeneratorInv(g)',
         \A n \in 1 .. NOthers : \A m : m = MultOf(g, n) => Handshake(g, n, m)'
  PROVE  IInv'
  <1>1. \A x \in Generator : GeneratorInv(x) /\ \A n \in 1 .. NOthers : Handshake(x, n, MultOf(x, n))
    BY DEF IInv
  <1>2. mpc' = mpc /\ round' = round /\ sent' = sent /\ outputs' = outputs
    BY DEF multipliers
  <1>3. machine \in Machines
    BY DEF IInv, OtTypes
  <1>4. ASSUME NEW x \in Generator, x # g
        PROVE  GeneratorInv(x)' /\ \A n \in 1 .. NOthers : Handshake(x, n, MultOf(x, n))'
    <2>1. /\ gpc'[x] = gpc[x] /\ gen_i'[x] = gen_i[x] /\ gen_k'[x] = gen_k[x] /\ phase'[x] = phase[x]
          /\ valueBits'[x] = valueBits[x]
      BY <1>4
    <2>2. GeneratorInv(x)'
      BY <1>1, <2>1, GeneratorKept
    <2>3. ASSUME NEW n \in 1 .. NOthers
          PROVE  Handshake(x, n, MultOf(x, n))'
      <3>1. MultOf(x, n) \in Multiplier /\ GeneratorOf(MultOf(x, n)) = x
        BY <1>3, MultFacts
      <3>2. PICK m : m = MultOf(x, n)
        OBVIOUS
      <3>3. owner'[m] = owner[m] /\ waiting'[m] = waiting[m]
        BY <1>4, <3>1, <3>2
      <3>4. Handshake(x, n, m)
        BY <1>1, <3>2
      <3>5. Handshake(x, n, m)'
        BY <1>2, <2>1, <3>3, <3>4, HandshakeKept
      <3>6. QED
        BY <3>2, <3>5
    <2>4. QED
      BY <2>2, <2>3
  <1>5. \A x \in Multiplier : SentInv(x)'
    <2>1. \A x \in Multiplier : SentInv(x)
      BY DEF IInv
    <2>2. QED
      BY <1>2, <2>1, SentKept
  <1>6. Generator' = Generator /\ Multiplier' = Multiplier /\ NOthers' = NOthers
    BY MachineKept
  <1>7. \A x \in Generator : GeneratorInv(x)' /\ \A n \in 1 .. NOthers : Handshake(x, n, MultOf(x, n))'
    BY <1>4
  <1>8. QED
    BY <1>5, <1>6, <1>7 DEF IInv

(* A step of one multiplier leaves alone the others and all generators.     *)
LEMMA MultiplierAlone ==
  ASSUME IInv, machine' = machine, NEW g \in Generator, NEW n \in 1 .. NOthers,
         NEW m, m = MultOf(g, n), UNCHANGED generators, OtTypes',
         \A x \in Multiplier \ {m} :
           /\ owner'[x] = owner[x] /\ waiting'[x] = waiting[x] /\ mpc'[x] = mpc[x]
           /\ round'[x] = round[x] /\ sent'[x] = sent[x] /\ outputs'[x] = outputs[x],
         SentInv(m)', Handshake(g, n, m)'
  PROVE  IInv'
  <1>1. \A x \in Generator : GeneratorInv(x) /\ \A q \in 1 .. NOthers : Handshake(x, q, MultOf(x, q))
    BY DEF IInv
  <1>2. gpc' = gpc /\ gen_i' = gen_i /\ gen_k' = gen_k /\ phase' = phase /\ valueBits' = valueBits
    BY DEF generators
  <1>3. machine \in Machines
    BY DEF IInv, OtTypes
  <1>4. \A x \in Generator : GeneratorInv(x)'
    BY <1>1, <1>2, GeneratorKept
  <1>5. ASSUME NEW x \in Generator, NEW q \in 1 .. NOthers
        PROVE  Handshake(x, q, MultOf(x, q))'
    <2>1. CASE x = g /\ q = n
      BY <2>1
    <2>2. CASE ~(x = g /\ q = n)
      <3>1. MultOf(x, q) \in Multiplier /\ GeneratorOf(MultOf(x, q)) = x
        BY <1>3, MultFacts
      <3>2. GeneratorOf(m) = g /\ (x = g => MultOf(g, n) # MultOf(g, q))
        BY <1>3, <2>2, MultFacts
      <3>3. MultOf(x, q) # m
        BY <3>1, <3>2
      <3>4. PICK y : y = MultOf(x, q)
        OBVIOUS
      <3>5. /\ owner'[y] = owner[y] /\ waiting'[y] = waiting[y] /\ mpc'[y] = mpc[y]
            /\ round'[y] = round[y] /\ outputs'[y] = outputs[y]
        BY <3>1, <3>3, <3>4
      <3>6. Handshake(x, q, y)
        BY <1>1, <3>4
      <3>7. Handshake(x, q, y)'
        BY <1>2, <3>5, <3>6, HandshakeKept
      <3>8. QED
        BY <3>4, <3>7
    <2>3. QED
      BY <2>1, <2>2
  <1>6. \A x \in Multiplier : SentInv(x)'
    <2>1. \A x \in Multiplier : SentInv(x)
      BY DEF IInv
    <2>2. QED
      BY <2>1, SentKept
  <1>7. Generator' = Generator /\ Multiplier' = Multiplier /\ NOthers' = NOthers
    BY MachineKept
  <1>8. QED
    BY <1>4, <1>5, <1>6, <1>7 DEF IInv

-----------------------------------------------------------------------------
(* A generator waits on its multipliers, one after the other.  What holds   *)
(* of the one it waits for moves on, the others stay.                       *)
LEMMA NextOneFacts ==
  ASSUME NEW g, NEW same, NEW then, NextOne(g, same, then), g \in DOMAIN gpc, g \in DOMAIN gen_i,
         NOthers \in Nat, gen_i[g] \in 1 .. NOthers
  PROVE  /\ DOMAIN gpc' = DOMAIN gpc /\ DOMAIN gen_i' = DOMAIN gen_i
         /\ \A x \in DOMAIN gpc \ {g} : gpc'[x] = gpc[x]
         /\ \A x \in DOMAIN gen_i \ {g} : gen_i'[x] = gen_i[x]
         /\ gen_i'[g] \in 1 .. NOthers
         /\ \/ gen_i[g] = NOthers /\ gpc'[g] = then /\ gen_i'[g] = 1
            \/ gen_i[g] # NOthers /\ gpc'[g] = same /\ gen_i'[g] = gen_i[g] + 1
  <1>1. CASE gen_i[g] = NOthers
    BY <1>1 DEF NextOne, To
  <1>2. CASE gen_i[g] # NOthers
    BY <1>2 DEF NextOne, To
  <1>3. QED
    BY <1>1, <1>2

(* What the proofs about a step of g start from, and of its n-th multiplier.*)
LEMMA GeneratorKnows ==
  ASSUME IInv, machine' = machine, NEW g \in Generator
  PROVE  /\ machine \in Machines /\ NOthers \in Nat /\ L \in {1, 2} /\ NRounds = NLoops * L
         /\ OtTypes /\ GeneratorInv(g)
         /\ gen_i[g] \in 1 .. NOthers /\ phase[g] \in 1 .. L /\ gen_k[g] \in Nat \ {0} /\ gen_k[g] <= NLoops + 1
         /\ DOMAIN gpc = Generator /\ DOMAIN gen_i = Generator /\ DOMAIN gen_k = Generator
         /\ DOMAIN phase = Generator /\ DOMAIN valueBits = Generator
         /\ DOMAIN owner = Generator \cup Multiplier /\ DOMAIN waiting = Generator \cup Multiplier
         /\ L' = L /\ NOthers' = NOthers /\ NRounds' = NRounds
  <1>1. machine \in Machines /\ OtTypes /\ GeneratorInv(g)
    BY DEF IInv, OtTypes
  <1>2. NOthers \in Nat
    BY <1>1, MachinesAssumption DEF NOthers
  <1>3. gen_i[g] \in 1 .. NOthers /\ phase[g] \in 1 .. L /\ gen_k[g] \in 1 .. NLoops + 1
    BY <1>1 DEF GeneratorInv
  <1>4. gen_k[g] \in Nat \ {0} /\ gen_k[g] <= NLoops + 1
    BY <1>3, MachinesAssumption
  <1>5. L \in {1, 2} /\ NRounds = NLoops * L
    BY <1>1, PhasesFacts
  <1>6. QED
    BY <1>1, <1>2, <1>3, <1>4, <1>5, MachineKept DEF OtTypes

LEMMA NthKnows ==
  ASSUME IInv, NEW g \in Generator, NEW n \in 1 .. NOthers, NEW m, m = MultOf(g, n)
  PROVE  /\ Handshake(g, n, m)
         /\ m \in Multiplier /\ GeneratorOf(m) = g
         /\ m # g /\ m # Nobody /\ g # Nobody
         /\ \A q \in 1 .. NOthers : m = MultOf(g, q) => n = q
  <1>1. machine \in Machines
    BY DEF IInv, OtTypes
  <1>2. Handshake(g, n, MultOf(g, n))
    BY DEF IInv
  <1>3. QED
    BY <1>1, <1>2, MultFacts

LEMMA WaitKeeps ==
  ASSUME IInv, machine' = machine, NEW g \in Generator, UNCHANGED multipliers,
         UNCHANGED <<gen_k, phase, valueBits, met>>, NEW here, NEW there,
         (here = "progress" /\ there = "progressing") \/ (here = "await" /\ there = "awaiting"),
         GenAt(g, here), Wait(MultOf(g, gen_i[g]), g), To(g, there), UNCHANGED gen_i
  PROVE  IInv'
  <1>1. /\ OtTypes /\ GeneratorInv(g) /\ gen_i[g] \in 1 .. NOthers /\ NOthers \in Nat
        /\ DOMAIN gpc = Generator /\ DOMAIN owner = Generator \cup Multiplier
        /\ DOMAIN waiting = Generator \cup Multiplier /\ L' = L /\ NOthers' = NOthers
    BY GeneratorKnows
  <1>2. PICK m : m = MultOf(g, gen_i[g])
    OBVIOUS
  <1>3. m \in Multiplier /\ GeneratorOf(m) = g
    BY <1>1, <1>2, NthKnows
  <1>4. gpc[g] = here /\ gpc' = [gpc EXCEPT ![g] = there] /\ gpc'[g] = there
    BY <1>1 DEF GenAt, To
  <1>5. /\ owner[m] = g /\ owner' = [owner EXCEPT ![m] = Nobody]
        /\ waiting' = [waiting EXCEPT ![m] = @ \cup {g}]
    BY <1>2 DEF Wait
  <1>6. OtTypes'
    BY <1>1, <1>4, <1>5, MachineKept DEF OtTypes, multipliers
  <1>7. GeneratorInv(g)'
    BY <1>1, <1>4 DEF GeneratorInv, GeneratorPlaces
  <1>8. Current(g)' = Current(g)
    BY <1>1 DEF Current
  <1>9. ASSUME NEW n \in 1 .. NOthers, NEW x, x = MultOf(g, n)
        PROVE  Handshake(g, n, x)'
    <2>1. x \in Multiplier /\ (n # gen_i[g] => x # m) /\ Handshake(g, n, x)
      BY <1>1, <1>2, <1>9, NthKnows
    <2>2. CASE n = gen_i[g]
      <3>1. x = m
        BY <1>2, <1>9, <2>2
      <3>2. waiting[m] = {}
        BY <1>1, <1>4, <2>1, <2>2, <3>1 DEF Handshake, Locked
      <3>3. owner'[m] = Nobody /\ waiting'[m] = {g}
        BY <1>1, <1>3, <1>5, <3>2
      <3>4. QED
        BY <1>1, <1>4, <1>8, <2>1, <2>2, <3>1, <3>3 DEF Handshake, multipliers, Locked, Free
    <2>3. CASE n # gen_i[g]
      <3>1. owner'[x] = owner[x] /\ waiting'[x] = waiting[x]
        BY <1>1, <1>5, <2>1, <2>3
      <3>2. QED
        BY <1>1, <1>4, <1>8, <2>1, <2>3, <3>1 DEF Handshake, multipliers, Locked, Put
    <2>4. QED
      BY <2>2, <2>3
  <1>10. \A x \in Generator \ {g} : gpc'[x] = gpc[x]
    BY <1>1, <1>4
  <1>11. \A x \in Multiplier : GeneratorOf(x) # g => owner'[x] = owner[x] /\ waiting'[x] = waiting[x]
    BY <1>1, <1>3, <1>5
  <1>12. QED
    BY <1>6, <1>7, <1>9, <1>10, <1>11, GeneratorAlone

LEMMA WokenStep ==
  ASSUME IInv, machine' = machine, NEW g \in Generator, UNCHANGED multipliers,
         UNCHANGED <<gen_k, phase, valueBits, met>>, NEW here, NEW same, NEW then,
         \/ here = "progressing" /\ same = "progress" /\ then = "report"
         \/ here = "awaiting" /\ same = "await" /\ then = "add",
         GenAt(g, here), Wake(MultOf(g, gen_i[g]), g), NextOne(g, same, then)
  PROVE  IInv'
  <1>1. /\ OtTypes /\ GeneratorInv(g) /\ gen_i[g] \in 1 .. NOthers /\ NOthers \in Nat
        /\ DOMAIN gpc = Generator /\ DOMAIN gen_i = Generator /\ DOMAIN owner = Generator \cup Multiplier
        /\ L' = L /\ NOthers' = NOthers
    BY GeneratorKnows
  <1>2. PICK m : m = MultOf(g, gen_i[g])
    OBVIOUS
  <1>3. m \in Multiplier /\ GeneratorOf(m) = g /\ m # Nobody /\ g # Nobody /\ m # g
        /\ Handshake(g, gen_i[g], m)
    BY <1>1, <1>2, NthKnows
  <1>4. gpc[g] = here
    BY DEF GenAt
  <1>5. /\ DOMAIN gpc' = Generator /\ DOMAIN gen_i' = Generator /\ gen_i'[g] \in 1 .. NOthers
        /\ \A x \in Generator \ {g} : gpc'[x] = gpc[x] /\ gen_i'[x] = gen_i[x]
        /\ \/ gen_i[g] = NOthers /\ gpc'[g] = then /\ gen_i'[g] = 1
           \/ gen_i[g] # NOthers /\ gpc'[g] = same /\ gen_i'[g] = gen_i[g] + 1
    BY <1>1, NextOneFacts
  <1>6. /\ g \notin waiting[m] /\ owner[m] = Nobody
        /\ owner' = [owner EXCEPT ![m] = g] /\ waiting' = waiting
    BY <1>2 DEF Wake
  <1>7. OtTypes'
    BY <1>1, <1>5, <1>6, MachineKept DEF OtTypes, multipliers
  <1>8. GeneratorInv(g)'
    BY <1>1, <1>4, <1>5 DEF GeneratorInv, GeneratorPlaces
  <1>9. Current(g)' = Current(g)
    BY <1>1 DEF Current
  <1>10. /\ here = "progressing" => Free(m, {m}, 0)
         /\ here = "awaiting" => Free(m, {m}, Current(g)) /\ Put(g, m)
    BY <1>1, <1>3, <1>4, <1>6 DEF Handshake, Free, Runs
  <1>11. ASSUME NEW n \in 1 .. NOthers, NEW x, x = MultOf(g, n)
         PROVE  Handshake(g, n, x)'
    <2>1. x \in Multiplier /\ (n # gen_i[g] => x # m) /\ Handshake(g, n, x)
      BY <1>1, <1>2, <1>11, NthKnows
    <2>2. CASE n = gen_i[g]
      <3>1. x = m
        BY <1>2, <1>11, <2>2
      <3>2. owner'[m] = g /\ waiting'[m] = waiting[m]
        BY <1>1, <1>3, <1>6
      <3>3. /\ here = "progressing" => Locked(g, m, {m}, 0)'
            /\ here = "awaiting" => Locked(g, m, {m}, Current(g))' /\ Put(g, m)'
        BY <1>9, <1>10, <3>2 DEF Free, Locked, Put, multipliers
      <3>4. QED
        BY <1>1, <1>5, <2>2, <3>1, <3>3 DEF Handshake
    <2>3. CASE n # gen_i[g]
      <3>1. owner'[x] = owner[x] /\ waiting'[x] = waiting[x]
        BY <1>1, <1>6, <2>1, <2>3
      <3>2. /\ n < gen_i[g] /\ here = "progressing" => Locked(g, x, {x}, 0)'
            /\ n < gen_i[g] /\ here = "awaiting" => Locked(g, x, {x}, Current(g))' /\ Put(g, x)'
            /\ n > gen_i[g] /\ here = "progressing" =>
                 owner'[x] = g /\ waiting'[x] = {} /\ mpc'[x] \in Extending /\ round'[x] = 0
            /\ n > gen_i[g] /\ here = "awaiting" => Locked(g, x, {}, Current(g) - 1)'
        BY <1>1, <1>4, <1>9, <2>1, <3>1 DEF Handshake, Locked, Put, multipliers
      <3>3. QED
        BY <1>1, <1>5, <2>3, <3>2 DEF Handshake
    <2>4. QED
      BY <2>2, <2>3
  <1>12. \A x \in Multiplier : GeneratorOf(x) # g => owner'[x] = owner[x] /\ waiting'[x] = waiting[x]
    BY <1>1, <1>3, <1>6
  <1>13. QED
    BY <1>5, <1>7, <1>8, <1>11, <1>12, GeneratorAlone

(* Steps of a generator that leave its multipliers alone: to report, to add *)
(* up, to meet the other players, and to join.                              *)
LEMMA ApartFacts ==
  ASSUME machine \in Machines, NEW m \in Multiplier
  PROVE  m \notin Generator
  BY MultFacts, MultiplierFacts

LEMMA ReportStep ==
  ASSUME IInv, machine' = machine, NEW g \in Generator, UNCHANGED multipliers,
         UNCHANGED <<gen_k, phase, valueBits, met>>, Report(g)
  PROVE  IInv'
  <1>1. /\ OtTypes /\ GeneratorInv(g) /\ gen_i[g] \in 1 .. NOthers /\ NOthers \in Nat
        /\ DOMAIN gpc = Generator /\ DOMAIN gen_i = Generator /\ DOMAIN gen_k = Generator
        /\ DOMAIN phase = Generator /\ DOMAIN valueBits = Generator
        /\ DOMAIN owner = Generator \cup Multiplier /\ DOMAIN waiting = Generator \cup Multiplier
        /\ L' = L /\ NOthers' = NOthers /\ NRounds' = NRounds /\ machine \in Machines
    BY GeneratorKnows
  <1>2. /\ gpc[g] = "report" /\ gpc' = [gpc EXCEPT ![g] = "reporting"] /\ gpc'[g] = "reporting"
        /\ owner' = [owner EXCEPT ![g] = Nobody] /\ gen_i' = gen_i
        /\ waiting' = [AfterSignal(waiting, {g}) EXCEPT ![g] = @ \cup {g}]
    BY <1>1 DEF Report, GenAt, To, SignalAndWait
  <1>3. ASSUME NEW x \in Multiplier
        PROVE  owner'[x] = owner[x] /\ waiting'[x] = waiting[x]
    <2>1. x # g
      BY <1>1, ApartFacts
    <2>2. DOMAIN AfterSignal(waiting, {g}) = DOMAIN waiting /\ AfterSignal(waiting, {g})[x] = waiting[x]
      BY <1>1, <2>1, SignalFacts
    <2>3. QED
      BY <1>1, <1>2, <2>1, <2>2
  <1>4. OtTypes'
    <2>1. DOMAIN AfterSignal(waiting, {g}) = DOMAIN waiting
      BY DEF AfterSignal
    <2>2. QED
      BY <1>1, <1>2, <2>1, MachineKept DEF OtTypes, multipliers
  <1>5. GeneratorInv(g)'
    BY <1>1, <1>2 DEF GeneratorInv, GeneratorPlaces
  <1>6. ASSUME NEW n \in 1 .. NOthers, NEW m, m = MultOf(g, n)
        PROVE  Handshake(g, n, m)'
    <2>1. m \in Multiplier /\ Handshake(g, n, m)
      BY <1>6, NthKnows
    <2>2. owner'[m] = owner[m] /\ waiting'[m] = waiting[m]
      BY <1>3, <2>1
    <2>3. QED
      BY <1>2, <2>1, <2>2 DEF Handshake, Locked, multipliers
  <1>7. \A x \in Generator \ {g} : gpc'[x] = gpc[x]
    BY <1>1, <1>2
  <1>8. QED
    BY <1>2, <1>3, <1>4, <1>5, <1>6, <1>7, GeneratorAlone

LEMMA AddUpStep ==
  ASSUME IInv, machine' = machine, NEW g \in Generator, UNCHANGED multipliers, AddUp(g) \/ Meet(g)
  PROVE  IInv'
  <1>1. /\ OtTypes /\ GeneratorInv(g) /\ gen_i[g] \in 1 .. NOthers /\ NOthers \in Nat
        /\ DOMAIN gpc = Generator /\ DOMAIN gen_i = Generator /\ DOMAIN gen_k = Generator
        /\ DOMAIN phase = Generator /\ DOMAIN valueBits = Generator
        /\ DOMAIN owner = Generator \cup Multiplier /\ DOMAIN waiting = Generator \cup Multiplier
        /\ L' = L /\ NOthers' = NOthers /\ NRounds' = NRounds /\ machine \in Machines
    BY GeneratorKnows
  <1>2. /\ gpc[g] \in {"add", "meet"} /\ gpc'[g] \in {"meet", "meeting", "end"}
        /\ gpc'[g] = "end" => machine.mode = "triples"
        /\ DOMAIN gpc' = Generator /\ \A x \in Generator \ {g} : gpc'[x] = gpc[x]
        /\ gen_i' = gen_i /\ gen_k' = gen_k /\ phase' = phase /\ valueBits' = valueBits
        /\ owner' = owner /\ waiting' = waiting
    BY <1>1 DEF AddUp, Meet, GenAt, To, locks
  <1>3. machine.mode = "triples" => L = 1
    BY DEF L, Phases
  <1>4. OtTypes'
    BY <1>1, <1>2, MachineKept DEF OtTypes, multipliers
  <1>5. GeneratorInv(g)'
    BY <1>1, <1>2, <1>3 DEF GeneratorInv, GeneratorPlaces
  <1>6. Current(g)' = Current(g)
    BY <1>1, <1>2 DEF Current
  <1>7. ASSUME NEW n \in 1 .. NOthers, NEW m, m = MultOf(g, n)
        PROVE  Handshake(g, n, m)'
    <2>1. m \in Multiplier /\ Handshake(g, n, m)
      BY <1>7, NthKnows
    <2>2. owner'[m] = owner[m] /\ waiting'[m] = waiting[m]
      BY <1>2
    <2>3. QED
      BY <1>2, <1>6, <2>1, <2>2 DEF Handshake, Locked, Put, multipliers
  <1>8. QED
    BY <1>2, <1>4, <1>5, <1>7, GeneratorAlone

LEMMA MetStep ==
  ASSUME IInv, machine' = machine, NEW g \in Generator, UNCHANGED multipliers, Met(g)
  PROVE  IInv'
  <1>1. /\ OtTypes /\ GeneratorInv(g) /\ gen_i[g] \in 1 .. NOthers /\ NOthers \in Nat
        /\ DOMAIN gpc = Generator /\ DOMAIN gen_i = Generator /\ DOMAIN gen_k = Generator
        /\ DOMAIN phase = Generator /\ DOMAIN valueBits = Generator
        /\ DOMAIN owner = Generator \cup Multiplier /\ DOMAIN waiting = Generator \cup Multiplier
        /\ L' = L /\ NOthers' = NOthers /\ NRounds' = NRounds /\ machine \in Machines
    BY GeneratorKnows
  <1>2. /\ gpc[g] = "meeting" /\ DOMAIN gpc' = Generator /\ DOMAIN phase' = Generator
        /\ \A x \in Generator \ {g} : gpc'[x] = gpc[x] /\ phase'[x] = phase[x]
        /\ gen_i' = gen_i /\ gen_k' = gen_k /\ valueBits' = valueBits
        /\ owner' = owner /\ waiting' = waiting
        /\ \/ phase[g] < L /\ gpc'[g] = "fill" /\ phase'[g] = phase[g] + 1
           \/ ~(phase[g] < L) /\ gpc'[g] = "end" /\ phase'[g] = phase[g]
    <2>1. CASE phase[g] < L
      BY <1>1, <2>1 DEF Met, GenAt, To, locks, L
    <2>2. CASE ~(phase[g] < L)
      BY <1>1, <2>2 DEF Met, GenAt, To, locks, L
    <2>3. QED
      BY <2>1, <2>2
  <1>3. L \in {1, 2} /\ phase[g] \in 1 .. L /\ gen_k[g] \in Nat \ {0}
    BY GeneratorKnows
  <1>4. OtTypes'
    BY <1>1, <1>2, MachineKept DEF OtTypes, multipliers
  <1>5. GeneratorInv(g)'
    BY <1>1, <1>2, <1>3 DEF GeneratorInv, GeneratorPlaces
  <1>6. Current(g) \in Nat /\ (phase[g] < L => Current(g)' = Current(g) + 1)
    <2>1. PICK a, b : a = gen_k[g] /\ b = phase[g]
      OBVIOUS
    <2>2. Number(a, b, L) \in Nat \ {0} /\ (b < L => Number(a, b + 1, L) = Number(a, b, L) + 1)
      BY <1>3, <2>1, NumberFacts
    <2>3. QED
      BY <1>1, <1>2, <2>1, <2>2 DEF Current
  <1>7. ~(phase[g] < L) => Current(g)' = Current(g)
    BY <1>1, <1>2, <1>3 DEF Current
  <1>8. ASSUME NEW n \in 1 .. NOthers, NEW m, m = MultOf(g, n)
        PROVE  Handshake(g, n, m)'
    <2>1. m \in Multiplier /\ Handshake(g, n, m)
      BY <1>8, NthKnows
    <2>2. owner'[m] = owner[m] /\ waiting'[m] = waiting[m]
      BY <1>2
    <2>3. CASE phase[g] < L
      <3>1. phase'[g] # 1 /\ Current(g)' - 1 = Current(g)
        BY <1>2, <1>3, <1>6, <2>3
      <3>2. QED
        BY <1>2, <2>1, <2>2, <2>3, <3>1 DEF Handshake, Locked, multipliers
    <2>4. CASE ~(phase[g] < L)
      BY <1>2, <1>7, <2>1, <2>2, <2>4 DEF Handshake, Locked, Put, multipliers
    <2>5. QED
      BY <2>3, <2>4
  <1>9. QED
    BY <1>2, <1>4, <1>5, <1>8, GeneratorAlone

LEMMA JoinStep ==
  ASSUME IInv, machine' = machine, NEW g \in Generator, UNCHANGED multipliers,
         UNCHANGED <<gen_k, phase, valueBits, met>>, Join(g)
  PROVE  IInv'
  <1>1. /\ OtTypes /\ GeneratorInv(g) /\ gen_i[g] \in 1 .. NOthers /\ NOthers \in Nat
        /\ DOMAIN gpc = Generator /\ DOMAIN gen_i = Generator /\ DOMAIN gen_k = Generator
        /\ DOMAIN phase = Generator /\ DOMAIN valueBits = Generator
        /\ DOMAIN owner = Generator \cup Multiplier /\ DOMAIN waiting = Generator \cup Multiplier
        /\ L' = L /\ NOthers' = NOthers /\ NRounds' = NRounds /\ machine \in Machines
    BY GeneratorKnows
  <1>2. gpc[g] = "join" /\ mpc[MultOf(g, gen_i[g])] = "done" /\ owner' = owner /\ waiting' = waiting
    BY DEF Join, GenAt, locks
  <1>3. /\ DOMAIN gpc' = Generator /\ DOMAIN gen_i' = Generator /\ gen_i'[g] \in 1 .. NOthers
        /\ \A x \in Generator \ {g} : gpc'[x] = gpc[x] /\ gen_i'[x] = gen_i[x]
        /\ \/ gen_i[g] = NOthers /\ gpc'[g] = "done" /\ gen_i'[g] = 1
           \/ gen_i[g] # NOthers /\ gpc'[g] = "unlock" /\ gen_i'[g] = gen_i[g] + 1
    BY <1>1, NextOneFacts DEF Join
  <1>4. OtTypes'
    BY <1>1, <1>2, <1>3, MachineKept DEF OtTypes, multipliers
  <1>5. GeneratorInv(g)'
    BY <1>1, <1>2, <1>3 DEF GeneratorInv, GeneratorPlaces
  <1>6. ASSUME NEW n \in 1 .. NOthers, NEW m, m = MultOf(g, n)
        PROVE  Handshake(g, n, m)'
    <2>1. Handshake(g, n, m)
      BY <1>6, NthKnows
    <2>2. /\ n <= gen_i[g] => mpc'[m] = "done"
          /\ n > gen_i[g] => Locked(g, m, {}, NRounds)'
      <3>1. CASE n = gen_i[g]
        BY <1>2, <1>6, <3>1 DEF multipliers
      <3>2. CASE n # gen_i[g]
        BY <1>1, <1>2, <2>1, <3>2 DEF Handshake, Locked, multipliers
      <3>3. QED
        BY <1>1, <3>1, <3>2
    <2>3. QED
      BY <1>1, <1>3, <2>2 DEF Handshake
  <1>7. QED
    BY <1>2, <1>3, <1>4, <1>5, <1>6, GeneratorAlone

(* Steps of a generator that signal all of its multipliers, or unlock one.  *)
LEMMA SignalAll ==
  ASSUME IInv, NEW g \in Generator, Signal(Mults(g))
  PROVE  /\ DOMAIN waiting' = DOMAIN waiting
         /\ \A x \in Multiplier : GeneratorOf(x) # g => waiting'[x] = waiting[x]
         /\ \A n \in 1 .. NOthers : \A m : m = MultOf(g, n) =>
              /\ waiting[m] = {} => waiting'[m] = {}
              /\ waiting[m] = {m} => waiting'[m] = {}
  <1>1. waiting' = AfterSignal(waiting, Mults(g)) /\ DOMAIN waiting = Generator \cup Multiplier
    BY DEF Signal, IInv, OtTypes
  <1>2. DOMAIN waiting' = DOMAIN waiting
    BY <1>1 DEF AfterSignal
  <1>3. ASSUME NEW x \in Multiplier, GeneratorOf(x) # g
        PROVE  waiting'[x] = waiting[x]
    <2>1. x \notin Mults(g)
      BY <1>3, NthKnows DEF Mults
    <2>2. QED
      BY <1>1, <2>1, SignalFacts
  <1>4. ASSUME NEW n \in 1 .. NOthers, NEW m, m = MultOf(g, n)
        PROVE  (waiting[m] = {} => waiting'[m] = {}) /\ (waiting[m] = {m} => waiting'[m] = {})
    <2>1. m \in Multiplier /\ m \in Mults(g)
      BY <1>4, NthKnows DEF Mults
    <2>2. QED
      BY <1>1, <2>1, SignalFacts
  <1>5. QED
    BY <1>2, <1>3, <1>4

LEMMA StartStep ==
  ASSUME IInv, machine' = machine, NEW g \in Generator, UNCHANGED multipliers,
         UNCHANGED <<gen_k, phase, valueBits, met>>, Start(g)
  PROVE  IInv'
  <1>1. /\ OtTypes /\ GeneratorInv(g) /\ gen_i[g] \in 1 .. NOthers /\ NOthers \in Nat
        /\ DOMAIN gpc = Generator /\ DOMAIN gen_i = Generator /\ DOMAIN gen_k = Generator
        /\ DOMAIN phase = Generator /\ DOMAIN valueBits = Generator
        /\ DOMAIN owner = Generator \cup Multiplier /\ DOMAIN waiting = Generator \cup Multiplier
        /\ L' = L /\ NOthers' = NOthers /\ NRounds' = NRounds /\ machine \in Machines
    BY GeneratorKnows
  <1>2. /\ gpc[g] = "reporting" /\ gpc' = [gpc EXCEPT ![g] = "fill"] /\ gpc'[g] = "fill"
        /\ owner' = [owner EXCEPT ![g] = g] /\ gen_i' = gen_i /\ Signal(Mults(g))
    BY <1>1 DEF Start, GenAt, To
  <1>3. gen_k[g] = 1 /\ phase[g] = 1 /\ gen_k'[g] = 1 /\ phase'[g] = 1
    BY <1>1, <1>2 DEF GeneratorInv
  <1>4. Current(g)' = 1
    <2>1. Number(1, 1, L) = 1
      BY GeneratorKnows, NumberFacts
    <2>2. QED
      BY <1>1, <1>3, <2>1 DEF Current
  <1>5. /\ DOMAIN waiting' = DOMAIN waiting
        /\ \A x \in Multiplier : GeneratorOf(x) # g => waiting'[x] = waiting[x]
        /\ \A n \in 1 .. NOthers : \A m : m = MultOf(g, n) =>
             /\ waiting[m] = {} => waiting'[m] = {}
             /\ waiting[m] = {m} => waiting'[m] = {}
    BY <1>2, SignalAll
  <1>6. \A x \in Multiplier : owner'[x] = owner[x]
    BY <1>1, <1>2, ApartFacts
  <1>7. OtTypes'
    BY <1>1, <1>2, <1>5, MachineKept DEF OtTypes, multipliers
  <1>8. GeneratorInv(g)'
    BY <1>1, <1>2, <1>3, MachinesAssumption DEF GeneratorInv, GeneratorPlaces
  <1>9. ASSUME NEW n \in 1 .. NOthers, NEW m, m = MultOf(g, n)
        PROVE  Handshake(g, n, m)'
    <2>1. m \in Multiplier /\ Handshake(g, n, m)
      BY <1>9, NthKnows
    <2>2. Locked(g, m, {m}, 0)
      BY <1>2, <2>1 DEF Handshake
    <2>3. Locked(g, m, {}, 0)'
      BY <1>5, <1>6, <1>9, <2>1, <2>2 DEF Locked, multipliers
    <2>4. QED
      BY <1>2, <1>3, <1>4, <2>3 DEF Handshake, Locked
  <1>10. \A x \in Generator \ {g} : gpc'[x] = gpc[x]
    BY <1>1, <1>2
  <1>11. QED
    BY <1>2, <1>5, <1>6, <1>7, <1>8, <1>9, <1>10, GeneratorAlone

LEMMA FillBits ==
  ASSUME IInv, machine' = machine, NEW g \in Generator, UNCHANGED multipliers, Fill(g)
  PROVE  IInv'
  <1>1. /\ OtTypes /\ GeneratorInv(g) /\ gen_i[g] \in 1 .. NOthers /\ NOthers \in Nat
        /\ DOMAIN gpc = Generator /\ DOMAIN gen_i = Generator /\ DOMAIN gen_k = Generator
        /\ DOMAIN phase = Generator /\ DOMAIN valueBits = Generator
        /\ DOMAIN owner = Generator \cup Multiplier /\ DOMAIN waiting = Generator \cup Multiplier
        /\ L' = L /\ NOthers' = NOthers /\ NRounds' = NRounds /\ machine \in Machines
    BY GeneratorKnows
  <1>2. /\ gpc[g] = "fill" /\ gpc' = [gpc EXCEPT ![g] = "await"] /\ gpc'[g] = "await"
        /\ valueBits' = [valueBits EXCEPT ![g] = <<gen_k[g], phase[g]>>]
        /\ owner' = owner /\ gen_i' = gen_i /\ gen_k' = gen_k /\ phase' = phase
        /\ \/ Signal(Mults(g))
           \/ phase[g] # 2 /\ waiting' = waiting
    BY <1>1 DEF Fill, GenAt, To
  <1>3. phase[g] # 2 => phase[g] = 1
    BY GeneratorKnows
  <1>4. /\ DOMAIN waiting' = DOMAIN waiting
        /\ \A x \in Multiplier : GeneratorOf(x) # g => waiting'[x] = waiting[x]
        /\ \A n \in 1 .. NOthers : \A m : m = MultOf(g, n) =>
             /\ waiting[m] = {} => waiting'[m] = {}
             /\ phase[g] = 2 /\ waiting[m] = {m} => waiting'[m] = {}
    <2>1. CASE Signal(Mults(g))
      BY <2>1, SignalAll
    <2>2. CASE phase[g] # 2 /\ waiting' = waiting
      BY <2>2
    <2>3. QED
      BY <1>2, <2>1, <2>2
  <1>5. OtTypes'
    BY <1>1, <1>2, <1>4, MachineKept DEF OtTypes, multipliers
  <1>6. GeneratorInv(g)'
    BY <1>1, <1>2 DEF GeneratorInv, GeneratorPlaces
  <1>7. Current(g)' = Current(g)
    BY <1>1, <1>2 DEF Current
  <1>8. ASSUME NEW n \in 1 .. NOthers, NEW m, m = MultOf(g, n)
        PROVE  Handshake(g, n, m)'
    <2>1. m \in Multiplier /\ Handshake(g, n, m)
      BY <1>8, NthKnows
    <2>2. Locked(g, m, IF phase[g] = 1 THEN {} ELSE {m}, Current(g) - 1)
      BY <1>2, <2>1 DEF Handshake
    <2>3. Locked(g, m, {}, Current(g) - 1)'
      BY <1>2, <1>3, <1>4, <1>7, <1>8, <2>2 DEF Locked, multipliers
    <2>4. gen_i'[g] <= n
      <3>1. gen_i'[g] = 1
        BY <1>1, <1>2 DEF GeneratorInv
      <3>2. QED
        BY <3>1
    <2>5. QED
      BY <1>1, <1>2, <2>3, <2>4 DEF Handshake
  <1>9. \A x \in Generator \ {g} : gpc'[x] = gpc[x] /\ valueBits'[x] = valueBits[x]
    BY <1>1, <1>2
  <1>10. QED
    BY <1>2, <1>4, <1>5, <1>6, <1>8, <1>9, GeneratorAlone

LEMMA EndLoopStep ==
  ASSUME IInv, machine' = machine, NEW g \in Generator, UNCHANGED multipliers, EndLoop(g)
  PROVE  IInv'
  <1>1. /\ OtTypes /\ GeneratorInv(g) /\ gen_i[g] \in 1 .. NOthers /\ NOthers \in Nat
        /\ DOMAIN gpc = Generator /\ DOMAIN gen_i = Generator /\ DOMAIN gen_k = Generator
        /\ DOMAIN phase = Generator /\ DOMAIN valueBits = Generator
        /\ DOMAIN owner = Generator \cup Multiplier /\ DOMAIN waiting = Generator \cup Multiplier
        /\ L' = L /\ NOthers' = NOthers /\ NRounds' = NRounds /\ machine \in Machines
    BY GeneratorKnows
  <1>2. /\ gpc[g] = "end" /\ gpc' = [gpc EXCEPT ![g] = IF gen_k[g] = NLoops THEN "unlock" ELSE "fill"]
        /\ gpc'[g] = IF gen_k[g] = NLoops THEN "unlock" ELSE "fill"
        /\ gen_k' = [gen_k EXCEPT ![g] = @ + 1] /\ gen_k'[g] = gen_k[g] + 1
        /\ phase' = [phase EXCEPT ![g] = 1] /\ phase'[g] = 1
        /\ owner' = owner /\ gen_i' = gen_i /\ valueBits' = valueBits /\ Signal(Mults(g))
    BY <1>1 DEF EndLoop, GenAt, To
  <1>3. L \in {1, 2} /\ gen_k[g] \in Nat \ {0} /\ gen_k[g] <= NLoops /\ phase[g] = L /\ NRounds = NLoops * L
        /\ NLoops \in Nat
    BY <1>1, <1>2, GeneratorKnows, MachinesAssumption DEF GeneratorInv
  <1>4. /\ DOMAIN waiting' = DOMAIN waiting
        /\ \A x \in Multiplier : GeneratorOf(x) # g => waiting'[x] = waiting[x]
        /\ \A n \in 1 .. NOthers : \A m : m = MultOf(g, n) =>
             /\ waiting[m] = {} => waiting'[m] = {}
             /\ waiting[m] = {m} => waiting'[m] = {}
    BY <1>2, SignalAll
  <1>5. OtTypes'
    BY <1>1, <1>2, <1>4, MachineKept DEF OtTypes, multipliers
  <1>6. GeneratorInv(g)'
    <2>1. gen_k'[g] \in 1 .. NLoops + 1 /\ (gpc'[g] = "fill" => gen_k'[g] <= NLoops)
      BY <1>2, <1>3
    <2>2. phase'[g] \in 1 .. L'
      BY <1>1, <1>2, <1>3
    <2>3. QED
      BY <1>1, <1>2, <2>1, <2>2 DEF GeneratorInv, GeneratorPlaces
  <1>7. Current(g) \in Nat /\ Current(g)' = Current(g) + 1 /\ (gen_k[g] = NLoops => Current(g) = NRounds)
    <2>1. PICK a, l : a = gen_k[g] /\ l = L
      OBVIOUS
    <2>2. Number(a, l, l) \in Nat \ {0} /\ Number(a + 1, 1, l) = Number(a, l, l) + 1
      <3>1. l \in {1, 2} /\ a \in Nat \ {0}
        BY <1>3, <2>1
      <3>2. l \in 1 .. l
        BY <3>1
      <3>3. \A kk \in Nat \ {0}, ph \in 1 .. l : Number(kk, ph, l) \in Nat \ {0}
        BY <3>1, NumberFacts
      <3>4. \A kk \in Nat \ {0} : Number(kk + 1, 1, l) = Number(kk, l, l) + 1
        BY <3>1, NumberFacts
      <3>5. QED
        BY <3>1, <3>2, <3>3, <3>4
    <2>3. a = NLoops => Number(a + 1, 1, l) = NLoops * l + 1
      BY <1>3, <2>1, NumberFacts
    <2>4. a = NLoops => Number(a, l, l) = NLoops * l
      <3>1. PICK p, q : p = Number(a, l, l) /\ q = NLoops * l
        OBVIOUS
      <3>2. p \in Nat /\ q \in Nat
        BY <1>3, <2>1, <2>2, <3>1
      <3>3. a = NLoops => p + 1 = q + 1
        BY <2>2, <2>3, <3>1
      <3>4. a = NLoops => p = q
        BY <3>2, <3>3
      <3>5. QED
        BY <3>1, <3>4
    <2>5. Current(g) = Number(a, l, l) /\ Current(g)' = Number(a + 1, 1, l)
      BY <1>1, <1>2, <1>3, <2>1 DEF Current
    <2>6. QED
      BY <1>3, <2>1, <2>2, <2>4, <2>5
  <1>8. ASSUME NEW n \in 1 .. NOthers, NEW m, m = MultOf(g, n)
        PROVE  Handshake(g, n, m)'
    <2>1. m \in Multiplier /\ Handshake(g, n, m)
      BY <1>8, NthKnows
    <2>2. Locked(g, m, {m}, Current(g))
      BY <1>2, <2>1 DEF Handshake
    <2>3. PICK c : c = Current(g)
      OBVIOUS
    <2>4. c \in Nat /\ Current(g)' - 1 = c
      BY <1>7, <2>3
    <2>5. owner'[m] = g /\ waiting'[m] = {} /\ mpc'[m] = "waiting" /\ round'[m] = c
      BY <1>2, <1>4, <1>8, <2>2, <2>3 DEF Locked, multipliers
    <2>6. CASE gen_k[g] = NLoops
      <3>1. gpc'[g] = "unlock" /\ c = NRounds /\ gen_i'[g] = 1
        BY <1>1, <1>2, <1>7, <2>3, <2>6 DEF GeneratorInv
      <3>2. Locked(g, m, {}, NRounds)'
        BY <1>1, <2>5, <3>1 DEF Locked
      <3>3. QED
        BY <3>1, <3>2 DEF Handshake
    <2>7. CASE gen_k[g] # NLoops
      <3>1. gpc'[g] = "fill" /\ phase'[g] = 1
        BY <1>2, <2>7
      <3>2. Locked(g, m, {}, Current(g) - 1)'
        BY <2>4, <2>5 DEF Locked
      <3>3. QED
        BY <3>1, <3>2 DEF Handshake
    <2>8. QED
      BY <2>6, <2>7
  <1>9. \A x \in Generator \ {g} : gpc'[x] = gpc[x] /\ gen_k'[x] = gen_k[x] /\ phase'[x] = phase[x]
    BY <1>1, <1>2
  <1>10. QED
    BY <1>2, <1>4, <1>5, <1>6, <1>8, <1>9, GeneratorAlone

LEMMA UnlockStep ==
  ASSUME IInv, machine' = machine, NEW g \in Generator, UNCHANGED multipliers,
         UNCHANGED <<gen_k, phase, valueBits, met>>, Unlock(g)
  PROVE  IInv'
  <1>1. /\ OtTypes /\ GeneratorInv(g) /\ gen_i[g] \in 1 .. NOthers /\ NOthers \in Nat
        /\ DOMAIN gpc = Generator /\ DOMAIN gen_i = Generator /\ DOMAIN gen_k = Generator
        /\ DOMAIN phase = Generator /\ DOMAIN valueBits = Generator
        /\ DOMAIN owner = Generator \cup Multiplier /\ DOMAIN waiting = Generator \cup Multiplier
        /\ L' = L /\ NOthers' = NOthers /\ NRounds' = NRounds /\ machine \in Machines
    BY GeneratorKnows
  <1>2. PICK m : m = MultOf(g, gen_i[g])
    OBVIOUS
  <1>3. m \in Multiplier /\ GeneratorOf(m) = g
    BY <1>1, <1>2, NthKnows
  <1>4. /\ gpc[g] = "unlock" /\ gpc' = [gpc EXCEPT ![g] = "join"] /\ gpc'[g] = "join"
        /\ owner' = [owner EXCEPT ![m] = Nobody] /\ gen_i' = gen_i /\ waiting' = waiting
    BY <1>1, <1>2 DEF Unlock, GenAt, To
  <1>5. OtTypes'
    BY <1>1, <1>4, MachineKept DEF OtTypes, multipliers
  <1>6. GeneratorInv(g)'
    BY <1>1, <1>4 DEF GeneratorInv, GeneratorPlaces
  <1>7. ASSUME NEW n \in 1 .. NOthers, NEW x, x = MultOf(g, n)
        PROVE  Handshake(g, n, x)'
    <2>1. x \in Multiplier /\ (n # gen_i[g] => x # m) /\ Handshake(g, n, x)
      BY <1>1, <1>2, <1>7, NthKnows
    <2>2. CASE n = gen_i[g]
      <3>1. x = m
        BY <1>2, <1>7, <2>2
      <3>2. Locked(g, m, {}, NRounds)
        BY <1>1, <1>4, <2>1, <2>2, <3>1 DEF Handshake
      <3>3. Free(m, {}, NRounds)'
        BY <1>1, <1>3, <1>4, <3>2 DEF Locked, Free, multipliers
      <3>4. QED
        BY <1>1, <1>4, <2>2, <3>1, <3>3 DEF Handshake
    <2>3. CASE n # gen_i[g]
      <3>1. owner'[x] = owner[x] /\ waiting'[x] = waiting[x]
        BY <1>1, <1>4, <2>1, <2>3
      <3>2. QED
        BY <1>1, <1>4, <2>1, <2>3, <3>1 DEF Handshake, multipliers, Locked
    <2>4. QED
      BY <2>2, <2>3
  <1>8. \A x \in Generator \ {g} : gpc'[x] = gpc[x]
    BY <1>1, <1>4
  <1>9. \A x \in Multiplier : GeneratorOf(x) # g => owner'[x] = owner[x] /\ waiting'[x] = waiting[x]
    BY <1>1, <1>3, <1>4
  <1>10. QED
    BY <1>4, <1>5, <1>6, <1>7, <1>8, <1>9, GeneratorAlone

(* The steps of a multiplier.  What it is depends on where its generator is,*)
(* so the cases of Handshake are told apart by the place of the multiplier. *)
LEMMA MultiplierKnows ==
  ASSUME IInv, machine' = machine, NEW g \in Generator, NEW n \in 1 .. NOthers, NEW m, m = MultOf(g, n),
         UNCHANGED generators
  PROVE  /\ machine \in Machines /\ OtTypes /\ GeneratorInv(g) /\ Handshake(g, n, m) /\ SentInv(m)
         /\ L \in {1, 2} /\ L' = L /\ NRounds' = NRounds /\ NLoops \in Nat /\ NRounds = NLoops * L
         /\ m \in Multiplier /\ GeneratorOf(m) = g /\ m # g /\ m # Nobody /\ g # Nobody
         /\ Counterpart(m) \in Multiplier
         /\ DOMAIN mpc = Multiplier /\ round \in [Multiplier -> Nat]
         /\ DOMAIN sent = Multiplier /\ DOMAIN outputs = Multiplier
         /\ DOMAIN owner = Generator \cup Multiplier /\ DOMAIN waiting = Generator \cup Multiplier
         /\ gpc' = gpc /\ gen_i' = gen_i /\ gen_k' = gen_k /\ phase' = phase /\ valueBits' = valueBits
         /\ Current(g)' = Current(g)
  <1>1. machine \in Machines /\ OtTypes /\ GeneratorInv(g)
    BY DEF IInv, OtTypes
  <1>2. Handshake(g, n, m) /\ m \in Multiplier /\ GeneratorOf(m) = g /\ m # g /\ m # Nobody /\ g # Nobody
    BY NthKnows
  <1>3. SentInv(m)
    BY <1>2 DEF IInv
  <1>4. Counterpart(m) \in Multiplier
    BY <1>1, MultFacts
  <1>5. gpc' = gpc /\ gen_i' = gen_i /\ gen_k' = gen_k /\ phase' = phase /\ valueBits' = valueBits
    BY DEF generators
  <1>6. L' = L /\ NRounds' = NRounds
    BY MachineKept
  <1>7. Current(g)' = Current(g)
    BY <1>5, <1>6 DEF Current
  <1>8. L \in {1, 2} /\ NRounds = NLoops * L
    BY <1>1, PhasesFacts
  <1>9. QED
    BY <1>1, <1>2, <1>3, <1>4, <1>5, <1>6, <1>7, <1>8, MachinesAssumption DEF OtTypes

(* The generator waits for a multiplier that runs.                          *)
LEMMA WhoRuns ==
  ASSUME IInv, NEW g \in Generator, NEW n \in 1 .. NOthers, NEW m, m = MultOf(g, n)
  PROVE  /\ mpc[m] = "multiply" => gpc[g] = "awaiting" /\ gen_i[g] = n /\ Runs(m, {g}, "multiply", Current(g) - 1)
         /\ mpc[m] = "multiplying" => gpc[g] = "awaiting" /\ gen_i[g] = n /\ Runs(m, {g}, "multiplying", Current(g))
         /\ mpc[m] = "unlock" => gpc[g] = "join" /\ gen_i[g] = n /\ Runs(m, {}, "unlock", NRounds)
         /\ mpc[m] \in Extending =>
              /\ round[m] = 0
              /\ \/ /\ (gpc[g] = "progress" /\ gen_i[g] <= n) \/ (gpc[g] = "progressing" /\ gen_i[g] < n)
                    /\ owner[m] = g
                 \/ gpc[g] = "progressing" /\ gen_i[g] = n /\ waiting[m] = {g}
         /\ mpc[m] = "waiting" /\ owner[m] = Nobody /\ m \notin waiting[m] =>
              \/ gpc[g] = "awaiting" /\ gen_i[g] = n /\ Free(m, {g}, Current(g) - 1)
              \/ gpc[g] = "join" /\ gen_i[g] = n /\ Free(m, {}, NRounds)
  <1>1. GeneratorInv(g) /\ Handshake(g, n, m) /\ m # g /\ m # Nobody /\ g # Nobody
    BY NthKnows DEF IInv
  <1>2. gen_i[g] \in Int /\ n \in Int
    BY <1>1 DEF GeneratorInv
  <1>3. QED
    BY <1>1, <1>2 DEF GeneratorInv, GeneratorPlaces, Handshake, Locked, Free, Runs, Extending

LEMMA WhoLocks ==
  ASSUME IInv, NEW g \in Generator, NEW n \in 1 .. NOthers, NEW m, m = MultOf(g, n),
         mpc[m] = "lock", owner[m] = Nobody
  PROVE  gpc[g] = "progressing" /\ gen_i[g] = n /\ waiting[m] = {g} /\ round[m] = 0
  <1>1. GeneratorInv(g) /\ Handshake(g, n, m) /\ m # g /\ m # Nobody /\ g # Nobody
    BY NthKnows DEF IInv
  <1>2. gen_i[g] \in Int /\ n \in Int
    BY <1>1 DEF GeneratorInv
  <1>3. QED
    BY <1>1, <1>2 DEF GeneratorInv, GeneratorPlaces, Handshake, Locked, Free, Runs, Extending

LEMMA SentAt ==
  ASSUME NEW m, SentInv(m), mpc[m] # "extend", NEW kk \in Nat \ {0}, NEW ph \in 1 .. L,
         NEW c, c = Number(kk, ph, L), c <= round[m]
  PROVE  Len(sent[m]) = round[m] + 1 /\ sent[m][c + 1] = <<kk, ph>>
  BY DEF SentInv

(* What a multiplier sends is added to the end.                             *)
LEMMA TransferSent ==
  ASSUME NEW X, NEW s \in Seq(X), NEW e \in X, NEW t, t = Append(s, e)
  PROVE  /\ t \in Seq(X) /\ Len(s) \in Nat /\ Len(t) = Len(s) + 1
         /\ \A x \in 1 .. Len(s) : t[x] = s[x]
         /\ t[Len(s) + 1] = e
  OBVIOUS


LEMMA ExtendStep ==
  ASSUME IInv, machine' = machine, NEW g \in Generator, NEW n \in 1 .. NOthers, NEW m, m = MultOf(g, n),
         UNCHANGED generators, Extend(m)
  PROVE  IInv'
  <1>1. /\ machine \in Machines /\ OtTypes /\ GeneratorInv(g) /\ Handshake(g, n, m) /\ SentInv(m)
        /\ L \in {1, 2} /\ L' = L /\ NRounds' = NRounds /\ NLoops \in Nat /\ NRounds = NLoops * L
        /\ m \in Multiplier /\ GeneratorOf(m) = g /\ m # g /\ m # Nobody /\ g # Nobody
        /\ Counterpart(m) \in Multiplier
        /\ DOMAIN mpc = Multiplier /\ round \in [Multiplier -> Nat]
        /\ DOMAIN sent = Multiplier /\ DOMAIN outputs = Multiplier
        /\ DOMAIN owner = Generator \cup Multiplier /\ DOMAIN waiting = Generator \cup Multiplier
        /\ gpc' = gpc /\ gen_i' = gen_i /\ gen_k' = gen_k /\ phase' = phase /\ valueBits' = valueBits
        /\ Current(g)' = Current(g)
    BY MultiplierKnows
  <1>2. gen_i[g] \in Int /\ n \in Int
    BY GeneratorKnows
  <1>3. /\ mpc[m] \in {"extend", "extending"} /\ mpc'[m] \in {"extending", "lock"}
        /\ DOMAIN mpc' = Multiplier /\ DOMAIN sent' = Multiplier
        /\ \A x \in Multiplier \ {m} : mpc'[x] = mpc[x] /\ sent'[x] = sent[x]
        /\ round' = round /\ outputs' = outputs /\ owner' = owner /\ waiting' = waiting
        /\ \/ mpc[m] = "extend" /\ sent'[m] = Append(sent[m], <<0, 0>>)
           \/ mpc[m] = "extending" /\ sent'[m] = sent[m]
    BY <1>1 DEF Extend, MultAt, MultTo, SendTransfer, locks
  <1>4. OtTypes'
    BY <1>1, <1>3, MachineKept DEF OtTypes, generators
  <1>5. round[m] = 0
    <2>1. mpc[m] \in Extending
      BY <1>3 DEF Extending
    <2>2. QED
      BY <2>1, WhoRuns
  <1>6. SentInv(m)'
    <2>1. sent[m] \in Seq(Nat \X Nat) /\ Len(sent[m]) = IF mpc[m] = "extend" THEN 0 ELSE 1
      BY <1>1, <1>5 DEF SentInv
    <2>2. sent'[m] \in Seq(Nat \X Nat) /\ Len(sent'[m]) = 1
      <3>1. CASE mpc[m] = "extend"
        <4>1. sent'[m] = Append(sent[m], <<0, 0>>) /\ Len(sent[m]) = 0
          BY <1>3, <2>1, <3>1
        <4>2. <<0, 0>> \in Nat \X Nat
          OBVIOUS
        <4>3. PICK t : t = Append(sent[m], <<0, 0>>)
          OBVIOUS
        <4>4. t \in Seq(Nat \X Nat) /\ Len(t) = Len(sent[m]) + 1
          BY <2>1, <4>2, <4>3, TransferSent
        <4>5. QED
          BY <4>1, <4>3, <4>4
      <3>2. CASE mpc[m] = "extending"
        BY <1>3, <2>1, <3>2
      <3>3. QED
        BY <1>3, <3>1, <3>2
    <2>3. \A kk \in Nat \ {0}, ph \in 1 .. L : ~(Number(kk, ph, L) <= 0)
      <3>1. \A kk \in Nat \ {0}, ph \in 1 .. L : Number(kk, ph, L) \in Nat \ {0}
        BY <1>1, NumberFacts
      <3>2. QED
        BY <3>1
    <2>4. QED
      BY <1>1, <1>3, <1>5, <2>2, <2>3 DEF SentInv
  <1>7. Handshake(g, n, m)'
    BY <1>1, <1>2, <1>3 DEF Handshake, Extending, Locked, Free, Runs
  <1>8. QED
    BY <1>3, <1>4, <1>6, <1>7, MultiplierAlone

LEMMA LockStep ==
  ASSUME IInv, machine' = machine, NEW g \in Generator, NEW n \in 1 .. NOthers, NEW m, m = MultOf(g, n),
         UNCHANGED generators, LockAndWait(m)
  PROVE  IInv'
  <1>1. /\ machine \in Machines /\ OtTypes /\ GeneratorInv(g) /\ Handshake(g, n, m) /\ SentInv(m)
        /\ L \in {1, 2} /\ L' = L /\ NRounds' = NRounds /\ NLoops \in Nat /\ NRounds = NLoops * L
        /\ m \in Multiplier /\ GeneratorOf(m) = g /\ m # g /\ m # Nobody /\ g # Nobody
        /\ Counterpart(m) \in Multiplier
        /\ DOMAIN mpc = Multiplier /\ round \in [Multiplier -> Nat]
        /\ DOMAIN sent = Multiplier /\ DOMAIN outputs = Multiplier
        /\ DOMAIN owner = Generator \cup Multiplier /\ DOMAIN waiting = Generator \cup Multiplier
        /\ gpc' = gpc /\ gen_i' = gen_i /\ gen_k' = gen_k /\ phase' = phase /\ valueBits' = valueBits
        /\ Current(g)' = Current(g)
    BY MultiplierKnows
  <1>2. gen_i[g] \in Int /\ n \in Int
    BY GeneratorKnows
  <1>3. /\ mpc[m] = "lock" /\ mpc' = [mpc EXCEPT ![m] = "waiting"] /\ owner[m] = Nobody
        /\ owner' = [owner EXCEPT ![m] = Nobody]
        /\ waiting' = [AfterSignal(waiting, {m}) EXCEPT ![m] = @ \cup {m}]
        /\ round' = round /\ sent' = sent /\ outputs' = outputs
    BY DEF LockAndWait, MultAt, MultTo, SignalAndWait
  <1>4. gpc[g] = "progressing" /\ gen_i[g] = n /\ waiting[m] = {g} /\ round[m] = 0
    BY <1>3, WhoLocks
  <1>5. /\ DOMAIN AfterSignal(waiting, {m}) = DOMAIN waiting
        /\ AfterSignal(waiting, {m})[m] = {}
        /\ \A x \in Multiplier \ {m} : AfterSignal(waiting, {m})[x] = waiting[x]
    <2>1. m \in DOMAIN waiting /\ waiting[m] = {g} /\ \A x \in Multiplier : x \in DOMAIN waiting
      BY <1>1, <1>4
    <2>2. AfterSignal(waiting, {m})[m] = {} /\ DOMAIN AfterSignal(waiting, {m}) = DOMAIN waiting
      BY ONLY <2>1, SignalFacts
    <2>3. ASSUME NEW x \in Multiplier \ {m} PROVE AfterSignal(waiting, {m})[x] = waiting[x]
      BY ONLY <2>1, <2>3, SignalFacts
    <2>4. QED
      BY <2>2, <2>3
  <1>6. /\ waiting'[m] = {m} /\ DOMAIN waiting' = DOMAIN waiting
        /\ \A x \in Multiplier \ {m} : waiting'[x] = waiting[x]
    BY <1>1, <1>3, <1>5
  <1>7. OtTypes'
    BY <1>1, <1>3, <1>6, MachineKept DEF OtTypes, generators
  <1>8. SentInv(m)'
    BY <1>1, <1>3 DEF SentInv
  <1>9. Free(m, {m}, 0)'
    BY <1>1, <1>3, <1>4, <1>6 DEF Free
  <1>10. Handshake(g, n, m)'
    BY <1>1, <1>2, <1>4, <1>9 DEF Handshake
  <1>11. \A x \in Multiplier \ {m} : owner'[x] = owner[x] /\ mpc'[x] = mpc[x]
    BY <1>1, <1>3
  <1>12. QED
    BY <1>3, <1>6, <1>7, <1>8, <1>10, <1>11, MultiplierAlone

LEMMA MultiplierWoken ==
  ASSUME IInv, machine' = machine, NEW g \in Generator, NEW n \in 1 .. NOthers, NEW m, m = MultOf(g, n),
         UNCHANGED generators, MultWoken(m)
  PROVE  IInv'
  <1>1. /\ machine \in Machines /\ OtTypes /\ GeneratorInv(g) /\ Handshake(g, n, m) /\ SentInv(m)
        /\ L \in {1, 2} /\ L' = L /\ NRounds' = NRounds /\ NLoops \in Nat /\ NRounds = NLoops * L
        /\ m \in Multiplier /\ GeneratorOf(m) = g /\ m # g /\ m # Nobody /\ g # Nobody
        /\ Counterpart(m) \in Multiplier
        /\ DOMAIN mpc = Multiplier /\ round \in [Multiplier -> Nat]
        /\ DOMAIN sent = Multiplier /\ DOMAIN outputs = Multiplier
        /\ DOMAIN owner = Generator \cup Multiplier /\ DOMAIN waiting = Generator \cup Multiplier
        /\ gpc' = gpc /\ gen_i' = gen_i /\ gen_k' = gen_k /\ phase' = phase /\ valueBits' = valueBits
        /\ Current(g)' = Current(g)
    BY MultiplierKnows
  <1>2. gen_i[g] \in Int /\ n \in Int
    BY GeneratorKnows
  <1>3. /\ mpc[m] = "waiting" /\ owner[m] = Nobody /\ m \notin waiting[m]
        /\ mpc' = [mpc EXCEPT ![m] = IF round[m] = NRounds THEN "unlock" ELSE "multiply"]
        /\ owner' = [owner EXCEPT ![m] = m]
        /\ round' = round /\ sent' = sent /\ outputs' = outputs /\ waiting' = waiting
    BY DEF MultWoken, MultAt, MultTo, Wake
  <1>4. \/ gpc[g] = "awaiting" /\ gen_i[g] = n /\ Free(m, {g}, Current(g) - 1)
        \/ gpc[g] = "join" /\ gen_i[g] = n /\ Free(m, {}, NRounds)
    BY <1>1, <1>3, WhoRuns
  <1>5. OtTypes'
    BY <1>1, <1>3, MachineKept DEF OtTypes, generators
  <1>6. SentInv(m)'
    BY <1>1, <1>3 DEF SentInv
  <1>7. Handshake(g, n, m)'
    <2>1. CASE gpc[g] = "awaiting" /\ gen_i[g] = n /\ Free(m, {g}, Current(g) - 1)
      <3>1. PICK a, b, l : a = gen_k[g] /\ b = phase[g] /\ l = L
        OBVIOUS
      <3>2. a \in Nat \ {0} /\ a <= NLoops /\ b \in 1 .. l /\ l \in {1, 2}
        BY <1>1, <2>1, <3>1, GeneratorKnows DEF GeneratorInv
      <3>3. a \in 1 .. NLoops
        BY <1>1, <3>2
      <3>4. Number(a, b, l) \in Nat \ {0} /\ Number(a, b, l) <= NLoops * l
        BY <3>2, <3>3, NumberFacts
      <3>5. NLoops * l \in Nat
        BY <1>1, <3>2
      <3>6. Number(a, b, l) - 1 # NLoops * l
        <4>1. PICK p, q : p = Number(a, b, l) /\ q = NLoops * l
          OBVIOUS
        <4>2. p - 1 # q
          BY <3>4, <3>5, <4>1
        <4>3. QED
          BY <4>1, <4>2
      <3>7. round[m] # NRounds
        BY <1>1, <2>1, <3>1, <3>6 DEF Free, Current
      <3>8. Runs(m, {g}, "multiply", Current(g) - 1)'
        BY <1>1, <1>3, <2>1, <3>7 DEF Runs, Free
      <3>9. QED
        BY <1>1, <1>2, <2>1, <3>8 DEF Handshake
    <2>2. CASE gpc[g] = "join" /\ gen_i[g] = n /\ Free(m, {}, NRounds)
      <3>1. Runs(m, {}, "unlock", NRounds)'
        BY <1>1, <1>3, <2>2 DEF Runs, Free
      <3>2. QED
        BY <1>1, <1>2, <2>2, <3>1 DEF Handshake
    <2>3. QED
      BY <1>4, <2>1, <2>2
  <1>8. \A x \in Multiplier \ {m} : owner'[x] = owner[x] /\ mpc'[x] = mpc[x]
    BY <1>1, <1>3
  <1>9. QED
    BY <1>3, <1>5, <1>6, <1>7, <1>8, MultiplierAlone

LEMMA ExitStep ==
  ASSUME IInv, machine' = machine, NEW g \in Generator, NEW n \in 1 .. NOthers, NEW m, m = MultOf(g, n),
         UNCHANGED generators, Exit(m)
  PROVE  IInv'
  <1>1. /\ machine \in Machines /\ OtTypes /\ GeneratorInv(g) /\ Handshake(g, n, m) /\ SentInv(m)
        /\ L \in {1, 2} /\ L' = L /\ NRounds' = NRounds /\ NLoops \in Nat /\ NRounds = NLoops * L
        /\ m \in Multiplier /\ GeneratorOf(m) = g /\ m # g /\ m # Nobody /\ g # Nobody
        /\ Counterpart(m) \in Multiplier
        /\ DOMAIN mpc = Multiplier /\ round \in [Multiplier -> Nat]
        /\ DOMAIN sent = Multiplier /\ DOMAIN outputs = Multiplier
        /\ DOMAIN owner = Generator \cup Multiplier /\ DOMAIN waiting = Generator \cup Multiplier
        /\ gpc' = gpc /\ gen_i' = gen_i /\ gen_k' = gen_k /\ phase' = phase /\ valueBits' = valueBits
        /\ Current(g)' = Current(g)
    BY MultiplierKnows
  <1>2. gen_i[g] \in Int /\ n \in Int
    BY GeneratorKnows
  <1>3. /\ mpc[m] = "unlock" /\ mpc' = [mpc EXCEPT ![m] = "done"] /\ mpc'[m] = "done"
        /\ owner' = [owner EXCEPT ![m] = Nobody]
        /\ round' = round /\ sent' = sent /\ outputs' = outputs /\ waiting' = waiting
    BY <1>1 DEF Exit, MultAt, MultTo
  <1>4. gpc[g] = "join" /\ gen_i[g] = n
    BY <1>3, WhoRuns, ZenonT(60)
  <1>5. OtTypes'
    BY <1>1, <1>3, MachineKept DEF OtTypes, generators
  <1>6. SentInv(m)'
    BY <1>1, <1>3 DEF SentInv
  <1>7. Handshake(g, n, m)'
    BY <1>1, <1>2, <1>3, <1>4 DEF Handshake
  <1>8. \A x \in Multiplier \ {m} : owner'[x] = owner[x] /\ mpc'[x] = mpc[x]
    BY <1>1, <1>3
  <1>9. QED
    BY <1>3, <1>5, <1>6, <1>7, <1>8, MultiplierAlone

LEMMA MultiplyStep ==
  ASSUME IInv, machine' = machine, NEW g \in Generator, NEW n \in 1 .. NOthers, NEW m, m = MultOf(g, n),
         UNCHANGED generators, Multiply(m)
  PROVE  IInv'
  <1>1. /\ machine \in Machines /\ OtTypes /\ GeneratorInv(g) /\ Handshake(g, n, m) /\ SentInv(m)
        /\ L \in {1, 2} /\ L' = L /\ NRounds' = NRounds /\ NLoops \in Nat /\ NRounds = NLoops * L
        /\ m \in Multiplier /\ GeneratorOf(m) = g /\ m # g /\ m # Nobody /\ g # Nobody
        /\ Counterpart(m) \in Multiplier
        /\ DOMAIN mpc = Multiplier /\ round \in [Multiplier -> Nat]
        /\ DOMAIN sent = Multiplier /\ DOMAIN outputs = Multiplier
        /\ DOMAIN owner = Generator \cup Multiplier /\ DOMAIN waiting = Generator \cup Multiplier
        /\ gpc' = gpc /\ gen_i' = gen_i /\ gen_k' = gen_k /\ phase' = phase /\ valueBits' = valueBits
        /\ Current(g)' = Current(g)
    BY MultiplierKnows
  <1>2. gen_i[g] \in Int /\ n \in Int
    BY GeneratorKnows
  <1>3. /\ mpc[m] = "multiply" /\ mpc' = [mpc EXCEPT ![m] = "multiplying"]
        /\ sent' = [sent EXCEPT ![m] = Append(@, valueBits[g])]
        /\ round' = [round EXCEPT ![m] = @ + 1]
        /\ outputs' = outputs /\ owner' = owner /\ waiting' = waiting
    BY <1>1 DEF Multiply, MultAt, MultTo, SendTransfer, Bits, locks
  <1>4. gpc[g] = "awaiting" /\ gen_i[g] = n /\ Runs(m, {g}, "multiply", Current(g) - 1)
    BY <1>3, WhoRuns
  <1>5. PICK a, b, l, c, r : a = gen_k[g] /\ b = phase[g] /\ l = L /\ c = Number(a, b, l) /\ r = round[m]
    OBVIOUS
  <1>6. a \in Nat \ {0} /\ b \in 1 .. l /\ l \in {1, 2} /\ valueBits[g] = <<a, b>>
    BY <1>1, <1>4, <1>5, GeneratorKnows DEF GeneratorInv
  <1>7. c \in Nat \ {0} /\ r = c - 1 /\ Current(g) = c
    BY <1>4, <1>5, <1>6, NumberFacts DEF Runs, Current
  <1>8. r \in Nat /\ r + 1 = c
    BY <1>7
  <1>9. /\ mpc'[m] = "multiplying" /\ round'[m] = c /\ DOMAIN mpc' = Multiplier
        /\ round' \in [Multiplier -> Nat]
        /\ \A x \in Multiplier \ {m} : mpc'[x] = mpc[x] /\ sent'[x] = sent[x] /\ round'[x] = round[x]
    BY <1>1, <1>3, <1>5, <1>8
  <1>10. PICK s, t : s = sent[m] /\ t = Append(s, <<a, b>>)
    OBVIOUS
  <1>11. sent'[m] = t /\ DOMAIN sent' = Multiplier
    BY <1>1, <1>3, <1>6, <1>10
  <1>12. OtTypes'
    BY <1>1, <1>3, <1>9, <1>11, MachineKept DEF OtTypes, generators
  <1>13. /\ s \in Seq(Nat \X Nat) /\ Len(s) = c
         /\ \A kk \in Nat \ {0}, ph \in 1 .. l : Number(kk, ph, l) <= r => s[Number(kk, ph, l) + 1] = <<kk, ph>>
    BY <1>1, <1>3, <1>5, <1>8, <1>10 DEF SentInv
  <1>14. /\ t \in Seq(Nat \X Nat) /\ Len(t) = c + 1
         /\ \A x \in 1 .. c : t[x] = s[x]
         /\ t[c + 1] = <<a, b>>
    <2>1. <<a, b>> \in Nat \X Nat
      BY <1>6
    <2>2. QED
      BY <1>10, <1>13, <2>1, TransferSent
  <1>15. ASSUME NEW kk \in Nat \ {0}, NEW ph \in 1 .. l, Number(kk, ph, l) <= c
         PROVE  t[Number(kk, ph, l) + 1] = <<kk, ph>>
    <2>1. PICK q : q = Number(kk, ph, l)
      OBVIOUS
    <2>2. q \in Nat \ {0}
      BY <1>6, <2>1, NumberFacts
    <2>3. CASE q = c
      <3>1. Number(kk, ph, l) = Number(a, b, l)
        BY <1>5, <2>1, <2>3
      <3>2. kk = a /\ ph = b
        BY <1>6, <3>1, RoundsDiffer
      <3>3. QED
        BY <1>14, <2>1, <2>3, <3>2
    <2>4. CASE q # c
      <3>1. q <= r /\ q + 1 \in 1 .. c
        BY <1>7, <1>8, <1>15, <2>1, <2>2, <2>4
      <3>2. s[q + 1] = <<kk, ph>>
        BY <1>13, <2>1, <3>1
      <3>3. QED
        BY <1>14, <2>1, <3>1, <3>2
    <2>5. QED
      BY <2>3, <2>4
  <1>16. SentInv(m)'
    BY <1>1, <1>5, <1>9, <1>11, <1>14, <1>15 DEF SentInv
  <1>17. Handshake(g, n, m)'
    <2>1. Runs(m, {g}, "multiplying", Current(g))'
      BY <1>1, <1>3, <1>4, <1>7, <1>9 DEF Runs
    <2>2. QED
      BY <1>1, <1>2, <1>4, <2>1 DEF Handshake
  <1>18. QED
    BY <1>3, <1>9, <1>12, <1>16, <1>17, MultiplierAlone

LEMMA MultipliedStep ==
  ASSUME IInv, machine' = machine, NEW g \in Generator, NEW n \in 1 .. NOthers, NEW m, m = MultOf(g, n),
         UNCHANGED generators, Multiplied(m)
  PROVE  IInv'
  <1>1. /\ machine \in Machines /\ OtTypes /\ GeneratorInv(g) /\ Handshake(g, n, m) /\ SentInv(m)
        /\ L \in {1, 2} /\ L' = L /\ NRounds' = NRounds /\ NLoops \in Nat /\ NRounds = NLoops * L
        /\ m \in Multiplier /\ GeneratorOf(m) = g /\ m # g /\ m # Nobody /\ g # Nobody
        /\ Counterpart(m) \in Multiplier
        /\ DOMAIN mpc = Multiplier /\ round \in [Multiplier -> Nat]
        /\ DOMAIN sent = Multiplier /\ DOMAIN outputs = Multiplier
        /\ DOMAIN owner = Generator \cup Multiplier /\ DOMAIN waiting = Generator \cup Multiplier
        /\ gpc' = gpc /\ gen_i' = gen_i /\ gen_k' = gen_k /\ phase' = phase /\ valueBits' = valueBits
        /\ Current(g)' = Current(g)
    BY MultiplierKnows
  <1>2. gen_i[g] \in Int /\ n \in Int
    BY GeneratorKnows
  <1>3. /\ mpc[m] = "multiplying" /\ mpc' = [mpc EXCEPT ![m] = "waiting"] /\ TransferHere(m)
        /\ outputs' = [outputs EXCEPT ![m] = <<round[m], sent[m][Len(sent[m])], valueBits[g], Theirs(m)>>]
        /\ owner' = [owner EXCEPT ![m] = Nobody]
        /\ waiting' = [AfterSignal(waiting, {m}) EXCEPT ![m] = @ \cup {m}]
        /\ round' = round /\ sent' = sent
    BY <1>1 DEF Multiplied, MultAt, MultTo, SignalAndWait, Bits
  <1>4. gpc[g] = "awaiting" /\ gen_i[g] = n /\ Runs(m, {g}, "multiplying", Current(g))
    BY <1>3, WhoRuns
  <1>5. PICK a, b, l, c : a = gen_k[g] /\ b = phase[g] /\ l = L /\ c = Number(a, b, l)
    OBVIOUS
  <1>6. a \in Nat \ {0} /\ b \in 1 .. l /\ l \in {1, 2} /\ valueBits[g] = <<a, b>>
    BY <1>1, <1>4, <1>5, GeneratorKnows DEF GeneratorInv
  <1>7. c \in Nat \ {0} /\ round[m] = c /\ Current(g) = c
    BY <1>4, <1>5, <1>6, NumberFacts DEF Runs, Current
  <1>8. Len(sent[m]) = c + 1 /\ sent[m][c + 1] = <<a, b>>
    <2>1. c = Number(a, b, L) /\ b \in 1 .. L /\ c <= round[m]
      BY <1>5, <1>6, <1>7
    <2>2. SentInv(m) /\ mpc[m] # "extend"
      BY <1>1, <1>3
    <2>3. Len(sent[m]) = round[m] + 1 /\ sent[m][c + 1] = <<a, b>>
      BY <1>6, <2>1, <2>2, SentAt
    <2>4. QED
      BY <1>7, <2>3
  <1>9. Theirs(m) = <<a, b>>
    <2>1. PICK o : o = Counterpart(m)
      OBVIOUS
    <2>2. SentInv(o) /\ o \in Multiplier /\ round[o] \in Nat
      BY <1>1, <2>1 DEF IInv
    <2>3. Len(sent[o]) >= c + 1
      BY <1>3, <1>8, <2>1 DEF TransferHere
    <2>4. PICK r : r = round[o]
      OBVIOUS
    <2>5. Len(sent[o]) = (IF mpc[o] = "extend" THEN 0 ELSE r + 1)
      BY <2>2, <2>4 DEF SentInv
    <2>6. c <= r
      BY <1>7, <2>2, <2>3, <2>4, <2>5
    <2>7. sent[o][c + 1] = <<a, b>>
      BY <1>5, <1>6, <2>2, <2>4, <2>6 DEF SentInv
    <2>8. QED
      BY <1>8, <2>1, <2>7 DEF Theirs
  <1>10. outputs'[m] = <<c, <<a, b>>, <<a, b>>, <<a, b>>>> /\ DOMAIN outputs' = Multiplier
         /\ \A x \in Multiplier \ {m} : outputs'[x] = outputs[x]
    BY <1>1, <1>3, <1>6, <1>7, <1>8, <1>9
  <1>11. /\ DOMAIN AfterSignal(waiting, {m}) = DOMAIN waiting
         /\ AfterSignal(waiting, {m})[m] = {}
         /\ \A x \in Multiplier \ {m} : AfterSignal(waiting, {m})[x] = waiting[x]
    <2>1. PICK w, X : w = waiting /\ X = {m} /\ w[m] = {g} /\ m \in DOMAIN w /\ m \in X
      BY <1>1, <1>4 DEF Runs
    <2>2. AfterSignal(waiting, {m})[m] = {}
      BY ONLY <2>1, SignalFacts
    <2>3. DOMAIN AfterSignal(waiting, {m}) = DOMAIN waiting
      BY DEF AfterSignal
    <2>4. \A x \in Multiplier \ {m} : AfterSignal(waiting, {m})[x] = waiting[x]
      BY <1>1, SignalFacts
    <2>5. QED
      BY <2>2, <2>3, <2>4
  <1>12. /\ waiting'[m] = {m} /\ DOMAIN waiting' = DOMAIN waiting
         /\ \A x \in Multiplier \ {m} : waiting'[x] = waiting[x]
    BY <1>1, <1>3, <1>11
  <1>13. OtTypes'
    BY <1>1, <1>3, <1>10, <1>12, MachineKept DEF OtTypes, generators
  <1>14. SentInv(m)'
    BY <1>1, <1>3 DEF SentInv
  <1>15. Free(m, {m}, Current(g))'
    BY <1>1, <1>3, <1>7, <1>12 DEF Free
  <1>16. Put(g, m)'
    BY <1>1, <1>5, <1>7, <1>10 DEF Put
  <1>17. Handshake(g, n, m)'
    BY <1>1, <1>2, <1>4, <1>15, <1>16 DEF Handshake
  <1>18. \A x \in Multiplier \ {m} : owner'[x] = owner[x] /\ mpc'[x] = mpc[x]
    BY <1>1, <1>3
  <1>19. QED
    BY <1>3, <1>10, <1>12, <1>13, <1>14, <1>17, <1>18, MultiplierAlone

-----------------------------------------------------------------------------
LEMMA InitInv == OtInit => IInv
  <1> SUFFICES ASSUME OtInit PROVE IInv
    OBVIOUS
  <1>1. machine \in Machines
    BY DEF OtInit
  <1>2. L \in {1, 2} /\ NLoops \in Nat \ {0}
    BY <1>1, PhasesFacts, MachinesAssumption
  <1>3. machine.players \in Nat \ {0, 1} /\ NOthers \in Nat \ {0}
    BY <1>1, MachinesAssumption DEF NOthers
  <1>4. \A m \in Multiplier : m \notin Generator
    BY <1>1, ApartFacts
  <1>5. OtTypes
    BY <1>1 DEF OtTypes, OtInit
  <1>6. ASSUME NEW g \in Generator
        PROVE  GeneratorInv(g)
    BY <1>2, <1>3 DEF GeneratorInv, GeneratorPlaces, OtInit
  <1>7. ASSUME NEW g \in Generator, NEW n \in 1 .. NOthers
        PROVE  Handshake(g, n, MultOf(g, n))
    <2>1. PICK m : m = MultOf(g, n)
      OBVIOUS
    <2>2. m \in Multiplier /\ GeneratorOf(m) = g
      BY <1>1, <2>1, MultFacts
    <2>3. owner[m] = g /\ waiting[m] = {} /\ mpc[m] = "extend" /\ round[m] = 0
      BY <1>4, <2>2 DEF OtInit
    <2>4. gpc[g] = "progress"
      BY DEF OtInit
    <2>5. gen_i[g] = 1
      BY DEF OtInit
    <2>6. Handshake(g, n, m)
      BY <2>3, <2>4, <2>5 DEF Handshake, Extending
    <2>7. QED
      BY <2>1, <2>6
  <1>8. ASSUME NEW m \in Multiplier
        PROVE  SentInv(m)
    <2>1. sent[m] = <<>> /\ mpc[m] = "extend" /\ round[m] = 0
      BY DEF OtInit
    <2>2. \A kk \in Nat \ {0}, ph \in 1 .. L : Number(kk, ph, L) \in Nat \ {0}
      BY <1>2, NumberFacts
    <2>3. \A kk \in Nat \ {0}, ph \in 1 .. L : ~(Number(kk, ph, L) <= 0)
      BY <2>2
    <2>4. <<>> \in Seq(Nat \X Nat) /\ Len(<<>>) = 0
      OBVIOUS
    <2>5. QED
      BY <2>1, <2>3, <2>4 DEF SentInv
  <1>9. QED
    BY <1>5, <1>6, <1>7, <1>8 DEF IInv

(* The main thread takes the mutexes of the generators only.                *)
LEMMA MainStepInv ==
  ASSUME IInv, machine' = machine, NEW p \in Players, MainStep(p)
  PROVE  IInv'
  <1>1. machine \in Machines /\ OtTypes
    BY DEF IInv, OtTypes
  <1>2. \A m \in Multiplier : m # Mine(p)
    <2>1. PICK q, t : Mine(p) = <<q, t>>
      BY DEF Mine
    <2>2. ASSUME NEW m \in Multiplier
          PROVE  m # <<q, t>>
      BY DEF Multiplier
    <2>3. QED
      BY <2>1, <2>2
  <1>3. PICK x : x = Mine(p)
    OBVIOUS
  <1>4. /\ DOMAIN owner' = DOMAIN owner /\ DOMAIN waiting' = DOMAIN waiting
        /\ \A m \in Multiplier : owner'[m] = owner[m] /\ waiting'[m] = waiting[m]
    <2>1. DOMAIN owner = Generator \cup Multiplier /\ DOMAIN waiting = Generator \cup Multiplier
      BY <1>1 DEF OtTypes
    <2>2. CASE MainWait(p)
      BY <1>2, <2>1, <2>2 DEF MainWait, Wait
    <2>3. CASE MainWoken(p)
      BY <1>2, <2>1, <2>3 DEF MainWoken, Wake
    <2>4. CASE MainStart(p)
      <3>1. owner' = [owner EXCEPT ![x] = Nobody] /\ waiting' = AfterSignal(waiting, {x})
        BY <1>3, <2>4 DEF MainStart, Signal
      <3>2. DOMAIN AfterSignal(waiting, {x}) = DOMAIN waiting
        BY DEF AfterSignal
      <3>3. \A m \in Multiplier : AfterSignal(waiting, {x})[m] = waiting[m]
        BY <1>2, <1>3, <2>1, SignalFacts
      <3>4. QED
        BY <1>2, <1>3, <2>1, <3>1, <3>2, <3>3
    <2>5. CASE MainJoin(p)
      BY <2>5 DEF MainJoin, locks
    <2>6. QED
      BY <2>2, <2>3, <2>4, <2>5 DEF MainStep
  <1>5. /\ gpc' = gpc /\ gen_i' = gen_i /\ gen_k' = gen_k /\ phase' = phase /\ valueBits' = valueBits
        /\ mpc' = mpc /\ round' = round /\ sent' = sent /\ outputs' = outputs
    BY DEF MainStep, generators, multipliers
  <1>6. OtTypes'
    BY <1>1, <1>4, <1>5, MachineKept DEF OtTypes
  <1>7. ASSUME NEW g \in Generator
        PROVE  GeneratorInv(g)'
    BY <1>5, GeneratorKept DEF IInv
  <1>8. ASSUME NEW g \in Generator, NEW n \in 1 .. NOthers
        PROVE  Handshake(g, n, MultOf(g, n))'
    <2>1. PICK m : m = MultOf(g, n)
      OBVIOUS
    <2>2. m \in Multiplier /\ Handshake(g, n, m)
      BY <2>1, NthKnows
    <2>3. Handshake(g, n, m)'
      BY <1>4, <1>5, <2>2, HandshakeKept
    <2>4. QED
      BY <2>1, <2>3
  <1>9. ASSUME NEW m \in Multiplier
        PROVE  SentInv(m)'
    BY <1>5, SentKept DEF IInv
  <1>10. Generator' = Generator /\ Multiplier' = Multiplier /\ NOthers' = NOthers
    BY MachineKept
  <1>11. QED
    BY <1>6, <1>7, <1>8, <1>9, <1>10 DEF IInv

LEMMA GeneratorStepInv ==
  ASSUME IInv, machine' = machine, NEW g \in Generator, GeneratorStep(g)
  PROVE  IInv'
  <1>1. UNCHANGED multipliers
    BY DEF GeneratorStep
  <1>2. ASSUME Await(g), UNCHANGED <<gen_k, phase, valueBits, met>>
        PROVE  IInv'
    <2>1. CASE GenAt(g, "progress") /\ Wait(MultOf(g, gen_i[g]), g) /\ To(g, "progressing") /\ UNCHANGED gen_i
      BY <1>1, <1>2, <2>1, WaitKeeps
    <2>2. CASE GenAt(g, "progressing") /\ Wake(MultOf(g, gen_i[g]), g) /\ NextOne(g, "progress", "report")
      BY <1>1, <1>2, <2>2, WokenStep
    <2>3. CASE GenAt(g, "await") /\ Wait(MultOf(g, gen_i[g]), g) /\ To(g, "awaiting") /\ UNCHANGED gen_i
      BY <1>1, <1>2, <2>3, WaitKeeps
    <2>4. CASE GenAt(g, "awaiting") /\ Wake(MultOf(g, gen_i[g]), g) /\ NextOne(g, "await", "add")
      BY <1>1, <1>2, <2>4, WokenStep
    <2>5. QED
      BY <1>2, <2>1, <2>2, <2>3, <2>4 DEF Await
  <1>3. CASE Report(g) /\ UNCHANGED <<gen_k, phase, valueBits, met>>
    BY <1>1, <1>3, ReportStep
  <1>4. CASE Start(g) /\ UNCHANGED <<gen_k, phase, valueBits, met>>
    BY <1>1, <1>4, StartStep
  <1>5. CASE Unlock(g) /\ UNCHANGED <<gen_k, phase, valueBits, met>>
    BY <1>1, <1>5, UnlockStep
  <1>6. CASE Join(g) /\ UNCHANGED <<gen_k, phase, valueBits, met>>
    BY <1>1, <1>6, JoinStep
  <1>7. CASE Fill(g)
    BY <1>1, <1>7, FillBits
  <1>8. CASE AddUp(g) \/ Meet(g)
    BY <1>1, <1>8, AddUpStep
  <1>9. CASE Met(g)
    BY <1>1, <1>9, MetStep
  <1>10. CASE EndLoop(g)
    BY <1>1, <1>10, EndLoopStep
  <1>11. QED
    BY <1>2, <1>3, <1>4, <1>5, <1>6, <1>7, <1>8, <1>9, <1>10 DEF GeneratorStep

LEMMA MultiplierStepInv ==
  ASSUME IInv, machine' = machine, NEW m \in Multiplier, MultiplierStep(m)
  PROVE  IInv'
  <1>1. UNCHANGED generators
    BY DEF MultiplierStep
  <1>2. machine \in Machines
    BY DEF IInv, OtTypes
  <1>3. PICK g \in Generator, n \in 1 .. NOthers : m = MultOf(g, n)
    BY <1>2, MultiplierFacts
  <1>4. CASE Extend(m)
    BY <1>1, <1>3, <1>4, ExtendStep
  <1>5. CASE LockAndWait(m)
    BY <1>1, <1>3, <1>5, LockStep
  <1>6. CASE MultWoken(m)
    BY <1>1, <1>3, <1>6, MultiplierWoken
  <1>7. CASE Multiply(m)
    BY <1>1, <1>3, <1>7, MultiplyStep
  <1>8. CASE Multiplied(m)
    BY <1>1, <1>3, <1>8, MultipliedStep
  <1>9. CASE Exit(m)
    BY <1>1, <1>3, <1>9, ExitStep
  <1>10. QED
    BY <1>4, <1>5, <1>6, <1>7, <1>8, <1>9 DEF MultiplierStep

LEMMA StutterInv ==
  ASSUME IInv, UNCHANGED otVars
  PROVE  IInv'
  <1>1. /\ machine' = machine /\ gpc' = gpc /\ gen_i' = gen_i /\ gen_k' = gen_k /\ phase' = phase
        /\ valueBits' = valueBits /\ mpc' = mpc /\ round' = round /\ sent' = sent
        /\ outputs' = outputs /\ owner' = owner /\ waiting' = waiting
    BY DEF otVars, generators, multipliers, locks
  <1>2. OtTypes'
    BY <1>1, MachineKept DEF IInv, OtTypes
  <1>3. \A g \in Generator : GeneratorInv(g)'
    BY <1>1, GeneratorKept DEF IInv
  <1>4. \A g \in Generator : \A n \in 1 .. NOthers : Handshake(g, n, MultOf(g, n))'
    BY <1>1, HandshakeKept DEF IInv
  <1>5. \A m \in Multiplier : SentInv(m)'
    BY <1>1, SentKept DEF IInv
  <1>6. Generator' = Generator /\ Multiplier' = Multiplier /\ NOthers' = NOthers
    BY <1>1, MachineKept
  <1>7. QED
    BY <1>2, <1>3, <1>4, <1>5, <1>6 DEF IInv

(* Whatever the order in which threads run, a generator and each of its     *)
(* multipliers are at places that fit (OTMultiplier.cpp:53-104,             *)
(* NPartyTripleGenerator.cpp:200-420).                                      *)
THEOREM Invariance == OtSpec => []IInv
  <1>1. OtInit => IInv
    BY InitInv
  <1>2. IInv /\ [OtNext]_otVars => IInv'
    <2> SUFFICES ASSUME IInv, [OtNext]_otVars PROVE IInv'
      OBVIOUS
    <2>1. ASSUME machine' = machine, NEW p \in Players, MainStep(p) PROVE IInv'
      BY <2>1, MainStepInv
    <2>2. ASSUME machine' = machine, NEW g \in Generator, GeneratorStep(g) PROVE IInv'
      BY <2>2, GeneratorStepInv
    <2>3. ASSUME machine' = machine, NEW m \in Multiplier, MultiplierStep(m) PROVE IInv'
      BY <2>3, MultiplierStepInv
    <2>4. CASE UNCHANGED otVars
      BY <2>4, StutterInv
    <2>5. QED
      BY <2>1, <2>2, <2>3, <2>4 DEF OtNext, Step
  <1>3. QED
    BY <1>1, <1>2, PTL DEF OtSpec

(* The handshake keeps the multipliers of a generator out of each other's   *)
(* way, and what they put out is what the generator adds up.                *)
LEMMA InvImpliesSumsMatch == IInv => SumsMatch
  <1> SUFFICES ASSUME IInv, NEW g \in Generator, NEW m \in Mults(g)
               PROVE  /\ GenAt(g, "add") =>
                           LET now == <<gen_k[g], phase[g]>>
                           IN outputs[m] = <<(gen_k[g] - 1) * Len(Phases[machine.mode]) + phase[g], now, now, now>>
                      /\ mpc[m] \in {"multiply", "multiplying"} =>
                           /\ GenAt(g, "awaiting") /\ MultOf(g, gen_i[g]) = m
                           /\ \A l \in Mults(g) \ {m} : mpc[l] \notin {"multiply", "multiplying"}
    BY DEF SumsMatch
  <1>1. PICK n \in 1 .. NOthers : m = MultOf(g, n)
    BY DEF Mults
  <1>2. Handshake(g, n, m)
    BY <1>1, NthKnows
  <1>3. GenAt(g, "add") => Put(g, m)
    BY <1>2 DEF GenAt, Handshake
  <1>4. ASSUME NEW q \in 1 .. NOthers, NEW l, l = MultOf(g, q), mpc[l] \in {"multiply", "multiplying"}
        PROVE  gpc[g] = "awaiting" /\ gen_i[g] = q
    BY <1>4, WhoRuns, ZenonT(60)
  <1>5. mpc[m] \in {"multiply", "multiplying"} =>
          /\ GenAt(g, "awaiting") /\ MultOf(g, gen_i[g]) = m
          /\ \A l \in Mults(g) \ {m} : mpc[l] \notin {"multiply", "multiplying"}
    <2> SUFFICES ASSUME mpc[m] \in {"multiply", "multiplying"}
                 PROVE  /\ GenAt(g, "awaiting") /\ MultOf(g, gen_i[g]) = m
                        /\ \A l \in Mults(g) \ {m} : mpc[l] \notin {"multiply", "multiplying"}
      OBVIOUS
    <2>1. gpc[g] = "awaiting" /\ gen_i[g] = n
      BY <1>1, <1>4
    <2>2. ASSUME NEW l \in Mults(g), mpc[l] \in {"multiply", "multiplying"}
          PROVE  l = m
      <3>1. PICK q \in 1 .. NOthers : l = MultOf(g, q)
        BY DEF Mults
      <3>2. gen_i[g] = q
        BY <1>4, <2>2, <3>1
      <3>3. QED
        BY <1>1, <2>1, <3>1, <3>2
    <2>3. QED
      BY <1>1, <2>1, <2>2 DEF GenAt
  <1>6. QED
    BY <1>3, <1>5 DEF Put, Current, Number, L

(* What a generator adds up is what all of its multipliers have computed    *)
(* from its bits of this phase and the counterpart's, and only one of them  *)
(* runs at a time (OTMultiplier.cpp:75-101, NPartyTripleGenerator.cpp:352-  *)
(* 370), for every number of players, threads and loops.                    *)
THEOREM SumsAddUp == OtSpec => []SumsMatch
  <1>1. OtSpec => []IInv
    BY Invariance
  <1>2. IInv => SumsMatch
    BY InvImpliesSumsMatch
  <1>3. QED
    BY <1>1, <1>2, PTL
=============================================================================
