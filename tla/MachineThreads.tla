--------------------------- MODULE MachineThreads ---------------------------
(***************************************************************************)
(* Machine (Processor/Machine.cpp) and its threads (Online-Thread.cpp): the *)
(* main thread reads the schedule, hands tapes to threads and joins them;   *)
(* a tape may hand tapes to other threads and join them in the same way.    *)
(*                                                                         *)
(* A thread has a mutex, and a condition variable for either direction.     *)
(* What is done under the mutex is one step; fields that are read or        *)
(* written without it have steps of their own.  A signal wakes one waiting  *)
(* thread and nothing else does.  MAC checks at the end of a tape, which    *)
(* wait for other parties, are taken to succeed.                            *)
(*                                                                         *)
(* A program has tapes, numbered from 1, and a schedule: lines of tapes     *)
(* with an argument, of which the i-th runs in the i-th thread.  A tape     *)
(* takes single items of offline data, starts tapes in other threads and    *)
(* joins them.  usage is what its USE instructions declare; in a tape with  *)
(* a loop of unknown length they declare no number.                         *)
(***************************************************************************)
EXTENDS Integers, Sequences

CONSTANTS NThreads,    \* threads of the machine
          Programs,    \* the programs to run
          NItems       \* items of offline data in the files

Threads == 1 .. NThreads

Instr == [op : {"use", "run", "join"}, thread : Threads, tape : Nat, arg : Nat]

(* What an instruction adds to the usage that the compiler declares: tapes  *)
(* that are started count as part of the tape that starts them.             *)
Cost(p, x) == CASE x.op = "use" -> 1
                [] x.op = "run" -> p.tapes[x.tape].usage
                [] x.op = "join" -> 0

CostUpto(p, code) ==
  LET sum[k \in 0 .. Len(code)] == IF k = 0 THEN 0 ELSE sum[k - 1] + Cost(p, code[k])
  IN sum

Started(code, k, t) ==
  \E l \in 1 .. k - 1 :
    /\ code[l].op = "run" /\ code[l].thread = t
    /\ \A m \in l .. k - 1 : ~ (code[m].op = "join" /\ code[m].thread = t)

(* What the compiler promises: only the first tape, alone on its line,      *)
(* starts others, in threads other than its own; a thread is joined before  *)
(* it is used again; declared usage is enough, and unknown if that of a     *)
(* tape it starts is.  A tape joins what it has started before it ends:     *)
(* so does what the library generates (library.py:909).                     *)
WellFormedTape(p, n) ==
  LET tape == p.tapes[n]
      code == tape.code
  IN /\ ~ tape.unknown => CostUpto(p, code)[Len(code)] <= tape.usage
     /\ \A k \in DOMAIN code :
          /\ code[k].op = "run" => /\ n = 1 /\ code[k].thread # 1
                                   /\ code[k].tape \in DOMAIN p.tapes \ {1}
                                   /\ ~ Started(code, k, code[k].thread)
                                   /\ p.tapes[code[k].tape].unknown => tape.unknown
          /\ code[k].op = "join" => Started(code, k, code[k].thread)
     /\ \A t \in Threads : ~ Started(code, Len(code) + 1, t)

Nested(p) == \E k \in DOMAIN p.tapes[1].code : p.tapes[1].code[k].op = "run"

WellFormedProgram(p) ==
  /\ p.tapes \in Seq([code : Seq(Instr), usage : Nat, unknown : BOOLEAN])
  /\ p.schedule \in Seq(Seq([tape : DOMAIN p.tapes, arg : Nat]))
  /\ p.tapes # <<>> /\ p.schedule # <<>>
  /\ \A n \in DOMAIN p.tapes : WellFormedTape(p, n)
  /\ \A l \in DOMAIN p.schedule : Len(p.schedule[l]) \in Threads
  /\ Nested(p) => \A l \in DOMAIN p.schedule : \A i \in DOMAIN p.schedule[l] :
                    p.schedule[l][i].tape = 1 => Len(p.schedule[l]) = 1

ASSUME ProgramsAssumption ==
  /\ NThreads \in Nat \ {0}
  /\ \A p \in Programs : WellFormedProgram(p)

-----------------------------------------------------------------------------

Main == 0
Items == 0 .. NItems - 1

VARIABLES
  prog,
  mpc, line, i,            \* main thread: where it is, its line, and the loop variable
  used_by_tape,            \* what run_tape returned to the main thread
  usage_unknown, pos,      \* Machine::usage_unknown and pos
  tinfo,                   \* the thread_infos
  held,                    \* mutexes that the constructor holds across steps
  client_ready, server_ready,    \* who waits on the condition variables
  tpc, program, arg,       \* threads: where they are, their tape, the processor's argument
  pc, usage,               \* the processor's PC and the Data_Files' position
  failed,                  \* an exception has ended the process
  reads,                   \* history: how often each item has been read
  asked, began, log        \* history: what threads were given, began with and have run

main     == <<mpc, line, i, used_by_tape, usage_unknown, pos>>
conds    == <<client_ready, server_ready>>
threads  == <<tpc, program, arg, pc, usage>>
history  == <<reads, asked, began, log>>
vars     == <<prog, main, tinfo, held, conds, threads, failed, history>>

Tape(n) == prog.tapes[n]

Init ==
  /\ prog \in Programs
  /\ mpc = "sync" /\ line = 1 /\ i = 1
  /\ used_by_tape = 0 /\ usage_unknown = FALSE /\ pos = 0
  /\ tinfo = [t \in Threads |-> [prognum |-> -2, arg |-> 0, pos |-> 0,
                                 finished |-> TRUE, ready |-> FALSE]]
  /\ held = Threads
  /\ client_ready = [t \in Threads |-> {}]
  /\ server_ready = [t \in Threads |-> {}]
  /\ tpc = [t \in Threads |-> "start"]
  /\ program = [t \in Threads |-> -3]
  /\ arg = [t \in Threads |-> 0]
  /\ pc = [t \in Threads |-> 1]
  /\ usage = [t \in Threads |-> 0]
  /\ failed = FALSE
  /\ reads = [x \in Items |-> 0]
  /\ asked = [t \in Threads |-> <<>>]
  /\ began = [t \in Threads |-> 0]
  /\ log = [t \in Threads |-> <<>>]

(* pthread_cond_signal: one of those waiting, if any, is woken.             *)
Signal(cond, t) ==
  IF cond[t] = {} THEN cond' = cond
  ELSE \E w \in cond[t] : cond' = [cond EXCEPT ![t] = @ \ {w}]

Wait(cond, t, who) == cond' = [cond EXCEPT ![t] = @ \cup {who}]

-----------------------------------------------------------------------------
(* run_tape, from the lock to the unlock.                                   *)

(* Fault: finished is left as the last tape set it.                         *)
HandOverUnfinished(t, n, a) ==
  /\ tinfo' = [tinfo EXCEPT ![t].prognum = n, ![t].arg = a, ![t].pos = pos]
  /\ Signal(server_ready, t)
  /\ asked' = [asked EXCEPT ![t] = [tape |-> n, arg |-> a, pos |-> pos]]

HandOver(t, n, a) ==
  /\ tinfo' = [tinfo EXCEPT ![t].prognum = n, ![t].arg = a, ![t].pos = pos,
                            ![t].finished = FALSE]
  /\ Signal(server_ready, t)
  /\ asked' = [asked EXCEPT ![t] = [tape |-> n, arg |-> a, pos |-> pos]]

(* What it returns.                                                         *)
Returned(n) == IF Tape(n).unknown THEN 0 ELSE Tape(n).usage

-----------------------------------------------------------------------------
(* The main thread.                                                         *)

numt == Len(prog.schedule[line])

(* The constructor waits for each thread in turn, in a loop that holds the  *)
(* mutex of that thread except while it waits.                              *)
SyncWait ==
  /\ mpc = "sync" /\ ~ tinfo[i].ready
  /\ Wait(client_ready, i, Main)
  /\ held' = held \ {i}
  /\ mpc' = "syncing"
  /\ UNCHANGED <<line, i, used_by_tape, usage_unknown, pos, tinfo, server_ready, threads,
                 failed, history>>

SyncWoken ==
  /\ mpc = "syncing" /\ Main \notin client_ready[i]
  /\ held' = held \cup {i}
  /\ mpc' = "sync"
  /\ UNCHANGED <<line, i, used_by_tape, usage_unknown, pos, tinfo, conds, threads,
                 failed, history>>

SyncDone ==
  /\ mpc = "sync" /\ tinfo[i].ready
  /\ held' = held \ {i}
  /\ IF i = NThreads THEN mpc' = "line" /\ i' = 1 ELSE i' = i + 1 /\ mpc' = mpc
  /\ UNCHANGED <<line, used_by_tape, usage_unknown, pos, tinfo, conds, threads, failed, history>>

(* Machine::run reads a line; a 0 follows the last.                         *)
BeginLine ==
  /\ mpc = "line"
  /\ mpc' = IF line \in DOMAIN prog.schedule THEN "run" ELSE "kill"
  /\ i' = 1
  /\ UNCHANGED <<line, used_by_tape, usage_unknown, pos, tinfo, held, conds, threads,
                 failed, history>>

(* A tape of unknown usage must be alone; the thread has it already.        *)
RunTape ==
  /\ mpc = "run"
  /\ LET x == prog.schedule[line][i]
     IN /\ HandOver(i, x.tape, x.arg)
        /\ used_by_tape' = Returned(x.tape)
        /\ failed' = (Tape(x.tape).unknown /\ numt > 1)
        /\ usage_unknown' = (usage_unknown \/ (Tape(x.tape).unknown /\ numt <= 1))
  /\ mpc' = "increase"
  /\ UNCHANGED <<line, i, pos, held, client_ready, threads, reads, began, log>>

(* Fault: every tape of a line is started at the line's position.           *)
KeepPosition ==
  /\ mpc = "increase"
  /\ pos' = pos
  /\ IF i = numt THEN mpc' = "join" /\ i' = 1 ELSE mpc' = "run" /\ i' = i + 1
  /\ UNCHANGED <<line, used_by_tape, usage_unknown, tinfo, held, conds, threads, failed, history>>

(* pos.increase, without any lock.                                          *)
IncreasePosition ==
  /\ mpc = "increase"
  /\ pos' = pos + used_by_tape
  /\ IF i = numt THEN mpc' = "join" /\ i' = 1 ELSE mpc' = "run" /\ i' = i + 1
  /\ UNCHANGED <<line, used_by_tape, usage_unknown, tinfo, held, conds, threads, failed, history>>

(* join_tape for thread i: it has finished, or is waited for.               *)
Joined ==
  /\ IF i = numt THEN mpc' = "joined" /\ i' = 1 ELSE mpc' = "join" /\ i' = i + 1
  /\ UNCHANGED <<line, used_by_tape, usage_unknown, pos, tinfo, held, conds, threads,
                 failed, history>>

JoinWait ==
  /\ mpc = "join" /\ ~ tinfo[i].finished
  /\ Wait(client_ready, i, Main)
  /\ mpc' = "joining"
  /\ UNCHANGED <<line, i, used_by_tape, usage_unknown, pos, tinfo, held, server_ready, threads,
                 failed, history>>

JoinTape ==
  \/ mpc = "join" /\ tinfo[i].finished /\ Joined
  \/ mpc = "joining" /\ Main \notin client_ready[i] /\ Joined

(* Fault: the position is not taken back from a tape of unknown usage.      *)
EndLineKeepingPosition ==
  /\ mpc = "joined"
  /\ usage_unknown' = FALSE
  /\ line' = line + 1
  /\ mpc' = "line"
  /\ UNCHANGED <<i, pos, used_by_tape, tinfo, held, conds, threads, failed, history>>

(* After a tape of unknown usage its thread tells the position.             *)
EndLine ==
  /\ mpc = "joined"
  /\ pos' = IF usage_unknown THEN tinfo[1].pos ELSE pos
  /\ usage_unknown' = FALSE
  /\ line' = line + 1
  /\ mpc' = "line"
  /\ UNCHANGED <<i, used_by_tape, tinfo, held, conds, threads, failed, history>>

(* The end of run: every thread is told to stop,                            *)
Kill ==
  /\ mpc = "kill"
  /\ tinfo' = [tinfo EXCEPT ![i].prognum = -1, ![i].ready = FALSE]
  /\ Signal(server_ready, i)
  /\ IF i = NThreads THEN mpc' = "release" /\ i' = 1 ELSE i' = i + 1 /\ mpc' = mpc
  /\ UNCHANGED <<line, used_by_tape, usage_unknown, pos, held, client_ready, threads,
                 failed, history>>

(* Fault: only a thread that waits already is released.                     *)
ReleaseBySignalOnly ==
  /\ mpc = "release"
  /\ tinfo' = tinfo
  /\ Signal(server_ready, i)
  /\ mpc' = "exit"
  /\ UNCHANGED <<line, i, used_by_tape, usage_unknown, pos, held, client_ready, threads,
                 failed, history>>

(* then released, one after the other, and joined.                          *)
Release ==
  /\ mpc = "release"
  /\ tinfo' = [tinfo EXCEPT ![i].ready = TRUE]
  /\ Signal(server_ready, i)
  /\ mpc' = "exit"
  /\ UNCHANGED <<line, i, used_by_tape, usage_unknown, pos, held, client_ready, threads,
                 failed, history>>

ThreadGone ==
  /\ mpc = "exit" /\ tpc[i] = "gone"
  /\ IF i = NThreads THEN mpc' = "done" /\ i' = i ELSE mpc' = "release" /\ i' = i + 1
  /\ UNCHANGED <<line, used_by_tape, usage_unknown, pos, tinfo, held, conds, threads,
                 failed, history>>

MainNext ==
  /\ ~ failed
  /\ \/ SyncWait
     \/ SyncWoken
     \/ SyncDone
     \/ BeginLine
     \/ RunTape
     \/ IncreasePosition
     \/ JoinWait
     \/ JoinTape
     \/ EndLine
     \/ Kill
     \/ Release
     \/ ThreadGone
  /\ UNCHANGED prog

-----------------------------------------------------------------------------
(* Thread t.                                                                *)

GoTo(t, where) == tpc' = [tpc EXCEPT ![t] = where]

Ready(t) ==
  /\ tpc[t] = "start" /\ t \notin held
  /\ tinfo' = [tinfo EXCEPT ![t].ready = TRUE]
  /\ Signal(client_ready, t)
  /\ GoTo(t, "wait")
  /\ UNCHANGED <<main, held, server_ready, program, arg, pc, usage, failed, history>>

WaitForProgram(t) ==
  /\ tpc[t] = "wait" /\ t \notin held
  /\ tinfo[t].prognum = -2
  /\ Wait(server_ready, t, t)
  /\ GoTo(t, "waiting")
  /\ UNCHANGED <<main, tinfo, held, client_ready, program, arg, pc, usage, failed, history>>

(* Fault: the program is left to be taken again.                            *)
LeaveProgram(t) ==
  /\ \/ tpc[t] = "wait" /\ t \notin held /\ tinfo[t].prognum # -2
     \/ tpc[t] = "waiting" /\ t \notin server_ready[t]
  /\ program' = [program EXCEPT ![t] = tinfo[t].prognum]
  /\ tinfo' = tinfo
  /\ GoTo(t, IF tinfo[t].prognum = -1 THEN "stop" ELSE "reset")
  /\ UNCHANGED <<main, held, conds, arg, pc, usage, failed, history>>

TakeProgram(t) ==
  /\ \/ tpc[t] = "wait" /\ t \notin held /\ tinfo[t].prognum # -2
     \/ tpc[t] = "waiting" /\ t \notin server_ready[t]
  /\ program' = [program EXCEPT ![t] = tinfo[t].prognum]
  /\ tinfo' = [tinfo EXCEPT ![t].prognum = -2]
  /\ GoTo(t, IF tinfo[t].prognum = -1 THEN "stop" ELSE "reset")
  /\ UNCHANGED <<main, held, conds, arg, pc, usage, failed, history>>

(* Proc.reset and DataF.seekg read arg and pos after the unlock.            *)
Reset(t) ==
  /\ tpc[t] = "reset"
  /\ arg' = [arg EXCEPT ![t] = tinfo[t].arg]
  /\ pc' = [pc EXCEPT ![t] = 1]
  /\ GoTo(t, "seek")
  /\ UNCHANGED <<main, tinfo, held, conds, program, usage, failed, history>>

Seek(t) ==
  /\ tpc[t] = "seek"
  /\ usage' = [usage EXCEPT ![t] = tinfo[t].pos]
  /\ began' = [began EXCEPT ![t] = tinfo[t].pos]
  /\ GoTo(t, "execute")
  /\ UNCHANGED <<main, tinfo, held, conds, program, arg, pc, failed, reads, asked, log>>

Code(t) == Tape(program[t]).code
Executes(t, op) ==
  /\ tpc[t] = "execute" /\ pc[t] \in DOMAIN Code(t)
  /\ Code(t)[pc[t]].op = op
Instruction(t) == Code(t)[pc[t]]
Step(t) == pc' = [pc EXCEPT ![t] = @ + 1]

(* Data_Files::get_one: past the end of the file it throws.                 *)
Use(t) ==
  /\ Executes(t, "use")
  /\ IF usage[t] \in Items
     THEN reads' = [reads EXCEPT ![usage[t]] = @ + 1] /\ failed' = failed
     ELSE reads' = reads /\ failed' = TRUE
  /\ usage' = [usage EXCEPT ![t] = @ + 1]
  /\ Step(t)
  /\ UNCHANGED <<main, tinfo, held, conds, tpc, program, arg, asked, began, log>>

(* RUN_TAPE: run_tape, then skip.  The position given is the machine's, not *)
(* the tape's own.  A tape of unknown usage is refused once started.        *)
Run(t) ==
  /\ Executes(t, "run")
  /\ LET x == Instruction(t)
     IN /\ HandOver(x.thread, x.tape, x.arg)
        /\ failed' = Tape(x.tape).unknown
        /\ usage' = [usage EXCEPT ![t] = @ + Returned(x.tape)]
  /\ Step(t)
  /\ UNCHANGED <<main, held, client_ready, tpc, program, arg, reads, began, log>>

(* JOIN_TAPE                                                               *)
WaitForThread(t) ==
  /\ Executes(t, "join")
  /\ ~ tinfo[Instruction(t).thread].finished
  /\ Wait(client_ready, Instruction(t).thread, t)
  /\ GoTo(t, "joining")
  /\ UNCHANGED <<main, tinfo, held, server_ready, program, arg, pc, usage, failed, history>>

JoinThread(t) ==
  /\ \/ Executes(t, "join") /\ tinfo[Instruction(t).thread].finished
     \/ tpc[t] = "joining" /\ t \notin client_ready[Instruction(t).thread]
  /\ GoTo(t, "execute")
  /\ Step(t)
  /\ UNCHANGED <<main, tinfo, held, conds, program, arg, usage, failed, history>>

(* The tape has ended; an unknown usage is told without the mutex.          *)
EndTape(t) ==
  /\ tpc[t] = "execute" /\ pc[t] \notin DOMAIN Code(t)
  /\ tinfo' = IF Tape(program[t]).unknown THEN [tinfo EXCEPT ![t].pos = usage[t]] ELSE tinfo
  /\ GoTo(t, "finish")
  /\ UNCHANGED <<main, held, conds, program, arg, pc, usage, failed, history>>

(* Fault: finished is set but nobody is told.                               *)
FinishSilently(t) ==
  /\ tpc[t] = "finish"
  /\ tinfo' = [tinfo EXCEPT ![t].finished = TRUE]
  /\ log' = [log EXCEPT ![t] = Append(@, [tape |-> program[t], arg |-> arg[t], pos |-> began[t]])]
  /\ GoTo(t, "wait")
  /\ UNCHANGED <<main, held, conds, program, arg, pc, usage, failed, reads, asked, began>>

Finish(t) ==
  /\ tpc[t] = "finish"
  /\ tinfo' = [tinfo EXCEPT ![t].finished = TRUE]
  /\ Signal(client_ready, t)
  /\ log' = [log EXCEPT ![t] = Append(@, [tape |-> program[t], arg |-> arg[t], pos |-> began[t]])]
  /\ GoTo(t, "wait")
  /\ UNCHANGED <<main, held, server_ready, program, arg, pc, usage, failed, reads, asked, began>>

WaitForRelease(t) ==
  /\ tpc[t] = "stop" /\ ~ tinfo[t].ready
  /\ Wait(server_ready, t, t)
  /\ GoTo(t, "stopping")
  /\ UNCHANGED <<main, tinfo, held, client_ready, program, arg, pc, usage, failed, history>>

Exit(t) ==
  /\ \/ tpc[t] = "stop" /\ tinfo[t].ready
     \/ tpc[t] = "stopping" /\ t \notin server_ready[t]
  /\ GoTo(t, "gone")
  /\ UNCHANGED <<main, tinfo, held, conds, program, arg, pc, usage, failed, history>>

ThreadNext(t) ==
  /\ ~ failed
  /\ \/ Ready(t)
     \/ WaitForProgram(t)
     \/ TakeProgram(t)
     \/ Reset(t)
     \/ Seek(t)
     \/ Use(t)
     \/ Run(t)
     \/ WaitForThread(t)
     \/ JoinThread(t)
     \/ EndTape(t)
     \/ Finish(t)
     \/ WaitForRelease(t)
     \/ Exit(t)
  /\ UNCHANGED prog

Next == MainNext \/ \E t \in Threads : ThreadNext(t)

(* Every thread that can run does so eventually.                            *)
Spec == /\ Init /\ [][Next]_vars
        /\ WF_vars(MainNext)
        /\ \A t \in Threads : WF_vars(ThreadNext(t))

-----------------------------------------------------------------------------
(* The waits of threads and of join_tape test their condition with an if:   *)
(* whoever is woken finds it true, a program to take, the tape it joins     *)
(* ended, or its release.                                                   *)
WakeupsJustified ==
  /\ mpc = "joining" /\ Main \notin client_ready[i] => tinfo[i].finished
  /\ \A t \in Threads :
       /\ tpc[t] = "waiting" /\ t \notin server_ready[t] => tinfo[t].prognum # -2
       /\ tpc[t] = "stopping" /\ t \notin server_ready[t] => tinfo[t].ready
       /\ tpc[t] = "joining" /\ t \notin client_ready[Instruction(t).thread]
            => tinfo[Instruction(t).thread].finished

(* Between two lines of the schedule no tape is running or waiting to be    *)
(* run, also none that a tape has started.                                  *)
LinesApart ==
  mpc \in {"joined", "line"} =>
    \A t \in Threads : /\ tinfo[t].prognum = -2 /\ tinfo[t].finished
                       /\ tpc[t] \in {"wait", "waiting"}

(* Each tape given to a thread runs once, with the argument and from the    *)
(* position given with it, although the thread reads both after the unlock. *)
Work == [tape : Nat \ {0}, arg : Nat, pos : Nat]
Pool == INSTANCE TapePool WITH
          None <- <<>>,
          given <- [t \in Threads |-> IF tinfo[t].finished THEN <<>> ELSE asked[t]]
ImplementsPool == Pool!Spec

(* No item of offline data is read twice.  Exceptions.h:197 has data reused *)
(* only for benchmarking, in a build with -DINSECURE.                       *)
UsedOnce == \A x \in Items : reads[x] <= 1

(* The same if no tape starts another: also when a tape uses less than it   *)
(* declares, or its usage is unknown (Machine.cpp:228 and 236).             *)
FlatUsedOnce == ~ Nested(prog) => UsedOnce

(* If no tape starts another, when run has joined the last tape, what has   *)
(* been read lies before the machine's position: the items left in the      *)
(* files by pruning are unused.                                             *)
RecordComplete ==
  ~ Nested(prog) /\ mpc \in {"line", "kill"} => \A x \in Items : reads[x] > 0 => x < pos

(* Unless an exception ends the process, run returns with all threads gone. *)
Termination == <>(failed \/ (mpc = "done" /\ \A t \in Threads : tpc[t] = "gone"))
=============================================================================
