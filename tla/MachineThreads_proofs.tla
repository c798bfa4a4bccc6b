------------------------ MODULE MachineThreads_proofs ------------------------
(***************************************************************************)
(* That whoever waits in MachineThreads is woken only by what it waits for, *)
(* that lines of the schedule do not overlap, that each tape handed to a    *)
(* thread runs once, and that flat programs read no item of offline data    *)
(* twice: for every number of threads and every program.                    *)
(***************************************************************************)
EXTENDS MachineThreads, SequenceFacts

(* Who may have a tape in thread t that is not joined: the main thread, or  *)
(* the first tape, which runs in the first thread.                          *)
Starting == {"sync", "syncing"}
Ending == {"kill", "release", "exit", "done"}
InLine == {"run", "increase", "join", "joining"}
Executing == {"execute", "joining"}

MainHas(t) ==
  \/ mpc = "run" /\ t < i
  \/ mpc = "increase" /\ t <= i
  \/ mpc \in {"join", "joining"} /\ i <= t /\ t <= numt

TapeHas(t) == tpc[1] \in Executing /\ program[1] = 1 /\ Started(Tape(1).code, pc[1], t)

(* The one who waits for thread t to be ready or to finish, and thread t    *)
(* itself for a program or for its release.                                 *)
MainWaits(t) ==
  \/ mpc = "syncing" /\ i = t /\ ~ tinfo[t].ready
  \/ mpc = "joining" /\ i = t /\ ~ tinfo[t].finished
TapeWaits(t) == tpc[1] = "joining" /\ Instruction(1).thread = t /\ ~ tinfo[t].finished
ClientWaits(t) == IF MainWaits(t) THEN {Main} ELSE IF TapeWaits(t) THEN {1} ELSE {}

ServerWaits(t) ==
  IF \/ tpc[t] = "waiting" /\ tinfo[t].prognum = -2
     \/ tpc[t] = "stopping" /\ ~ tinfo[t].ready
  THEN {t} ELSE {}

Killed(t) == mpc \in Ending /\ (mpc = "kill" => t < i)
Released(t) == mpc = "done" \/ (mpc = "exit" /\ t <= i) \/ (mpc = "release" /\ t < i)

(* A thread that has not come up yet, that has nothing to do, that has a    *)
(* tape, or that has been told to stop.                                     *)
New(t) ==
  /\ mpc \in Starting /\ i <= t
  /\ tpc[t] = "start" /\ tinfo[t].prognum = -2 /\ tinfo[t].finished /\ ~ tinfo[t].ready

Idle(t) ==
  /\ (mpc \in Starting => t <= i) /\ ~ Killed(t)
  /\ tpc[t] \in {"wait", "waiting"} /\ tinfo[t].prognum = -2 /\ tinfo[t].finished /\ tinfo[t].ready

Offered(t) == tpc[t] \in {"wait", "waiting"} /\ tinfo[t].prognum = asked[t].tape

Taken(t) ==
  /\ tpc[t] \in {"reset", "seek", "execute", "joining", "finish"}
  /\ tinfo[t].prognum = -2 /\ program[t] = asked[t].tape
  /\ tpc[t] # "reset" => arg[t] = asked[t].arg /\ pc[t] \in 1 .. Len(Code(t)) + 1
  /\ tpc[t] = "seek" => pc[t] = 1
  /\ tpc[t] \in {"execute", "joining", "finish"} => began[t] = asked[t].pos
  /\ tpc[t] = "joining" => pc[t] \in DOMAIN Code(t) /\ Instruction(t).op = "join"

Assigned(t) ==
  /\ asked[t] \in Work /\ asked[t].tape \in DOMAIN prog.tapes
  /\ tinfo[t].arg = asked[t].arg
  /\ tpc[t] # "finish" => tinfo[t].pos = asked[t].pos
  /\ MainHas(t) => asked[t].tape = prog.schedule[line][t].tape
  /\ ~ MainHas(t) => asked[t].tape # 1

Busy(t) ==
  /\ MainHas(t) \/ TapeHas(t)
  /\ ~ tinfo[t].finished /\ tinfo[t].ready
  /\ Assigned(t)
  /\ Offered(t) \/ Taken(t)

Ended(t) ==
  /\ Killed(t) /\ tinfo[t].finished /\ (tinfo[t].ready <=> Released(t))
  /\ \/ tinfo[t].prognum = -1 /\ tpc[t] \in {"wait", "waiting"}
     \/ tinfo[t].prognum = -2 /\ tpc[t] \in {"stop", "stopping", "gone"}

ThreadInv(t) ==
  /\ client_ready[t] = ClientWaits(t)
  /\ server_ready[t] = ServerWaits(t)
  /\ New(t) \/ Idle(t) \/ Busy(t) \/ Ended(t)

(* The main thread.                                                         *)
HeldNow == IF mpc = "sync" THEN i .. NThreads ELSE IF mpc = "syncing" THEN i + 1 .. NThreads ELSE {}

MainInv ==
  /\ mpc \in Starting \cup Ending \cup InLine \cup {"line", "joined"}
  /\ i \in Threads /\ line \in Nat \ {0} /\ pos \in Nat /\ used_by_tape \in Nat
  /\ held = HeldNow
  /\ mpc \in InLine \cup {"joined"} => line \in DOMAIN prog.schedule
  /\ mpc \in InLine => i <= numt
  /\ mpc = "increase" => used_by_tape = Returned(prog.schedule[line][i].tape)
  /\ failed => mpc \in InLine

Info == [prognum : Int, arg : Nat, pos : Nat, finished : BOOLEAN, ready : BOOLEAN]

Types ==
  /\ prog \in Programs
  /\ tinfo \in [Threads -> Info]
  /\ DOMAIN client_ready = Threads /\ DOMAIN server_ready = Threads
  /\ DOMAIN tpc = Threads /\ DOMAIN program = Threads /\ DOMAIN arg = Threads
  /\ DOMAIN pc = Threads /\ usage \in [Threads -> Nat]
  /\ DOMAIN asked = Threads /\ DOMAIN began = Threads /\ DOMAIN log = Threads
  /\ failed \in BOOLEAN

IInv == Types /\ MainInv /\ \A t \in Threads : ThreadInv(t)

-----------------------------------------------------------------------------
(* What a program is made of.                                               *)
LEMMA ProgramFacts ==
  ASSUME prog \in Programs
  PROVE  /\ prog.tapes \in Seq([code : Seq(Instr), usage : Nat, unknown : BOOLEAN])
         /\ prog.schedule \in Seq(Seq([tape : DOMAIN prog.tapes, arg : Nat]))
         /\ 1 \in DOMAIN prog.tapes /\ 1 \in DOMAIN prog.schedule
         /\ DOMAIN prog.tapes \subseteq Nat \ {0}
         /\ NThreads \in Nat \ {0} /\ 1 \in Threads
  <1>1. WellFormedProgram(prog) /\ NThreads \in Nat \ {0}
    BY ProgramsAssumption
  <1>2. /\ prog.tapes \in Seq([code : Seq(Instr), usage : Nat, unknown : BOOLEAN])
        /\ prog.schedule \in Seq(Seq([tape : DOMAIN prog.tapes, arg : Nat]))
        /\ prog.tapes # <<>> /\ prog.schedule # <<>>
    BY <1>1 DEF WellFormedProgram
  <1>3. ASSUME NEW S, NEW s \in Seq(S), s # <<>>
        PROVE  1 \in DOMAIN s /\ DOMAIN s \subseteq Nat \ {0}
    BY <1>3
  <1>5. 1 \in DOMAIN prog.tapes /\ 1 \in DOMAIN prog.schedule /\ DOMAIN prog.tapes \subseteq Nat \ {0}
    <2>1. PICK S, T, s, z : s = prog.tapes /\ z = prog.schedule /\ s \in Seq(S) /\ z \in Seq(T)
      BY <1>2
    <2>2. s # <<>> /\ z # <<>>
      BY <1>2, <2>1
    <2>3. 1 \in DOMAIN s /\ DOMAIN s \subseteq Nat \ {0}
      BY <1>3, <2>1, <2>2
    <2>4. 1 \in DOMAIN z
      BY <1>3, <2>1, <2>2
    <2>5. QED
      BY <2>1, <2>3, <2>4
  <1>4. QED
    BY <1>1, <1>2, <1>5 DEF Threads

(* What a tape is made of.                                                  *)
LEMMA TapeFacts ==
  ASSUME prog \in Programs, NEW n \in DOMAIN prog.tapes
  PROVE  /\ Tape(n).code \in Seq(Instr) /\ Tape(n).usage \in Nat /\ Tape(n).unknown \in BOOLEAN
         /\ Returned(n) \in Nat
  <1>1. prog.tapes \in Seq([code : Seq(Instr), usage : Nat, unknown : BOOLEAN])
    BY ProgramFacts
  <1>2. prog.tapes[n] \in [code : Seq(Instr), usage : Nat, unknown : BOOLEAN]
    <2>1. PICK S, s : S = [code : Seq(Instr), usage : Nat, unknown : BOOLEAN] /\ s = prog.tapes
      OBVIOUS
    <2>2. s \in Seq(S) /\ n \in DOMAIN s
      BY <1>1, <2>1
    <2>3. s[n] \in S
      BY <2>2
    <2>4. QED
      BY <2>1, <2>3
  <1>3. QED
    BY <1>2 DEF Tape, Returned

(* A line of the schedule names a tape for each of its threads.             *)
LEMMA LineFacts ==
  ASSUME prog \in Programs, NEW l \in DOMAIN prog.schedule
  PROVE  /\ Len(prog.schedule[l]) \in Threads
         /\ \A t \in 1 .. Len(prog.schedule[l]) :
              /\ prog.schedule[l][t].tape \in DOMAIN prog.tapes
              /\ prog.schedule[l][t].arg \in Nat
              /\ Nested(prog) /\ prog.schedule[l][t].tape = 1 => Len(prog.schedule[l]) = 1
  <1>1. WellFormedProgram(prog)
    BY ProgramsAssumption
  <1>2. /\ prog.schedule \in Seq(Seq([tape : DOMAIN prog.tapes, arg : Nat]))
        /\ Len(prog.schedule[l]) \in Threads
        /\ Nested(prog) => \A t \in DOMAIN prog.schedule[l] :
                             prog.schedule[l][t].tape = 1 => Len(prog.schedule[l]) = 1
    BY <1>1 DEF WellFormedProgram
  <1>3. prog.schedule[l] \in Seq([tape : DOMAIN prog.tapes, arg : Nat])
    BY <1>2
  <1>4. ASSUME NEW t \in 1 .. Len(prog.schedule[l])
        PROVE  /\ t \in DOMAIN prog.schedule[l]
               /\ prog.schedule[l][t] \in [tape : DOMAIN prog.tapes, arg : Nat]
    <2>1. PICK S, s : S = [tape : DOMAIN prog.tapes, arg : Nat] /\ s = prog.schedule[l]
      OBVIOUS
    <2>2. s \in Seq(S) /\ t \in 1 .. Len(s)
      BY <1>3, <2>1
    <2>3. t \in DOMAIN s /\ s[t] \in S
      BY <2>2
    <2>4. QED
      BY <2>1, <2>3
  <1>5. \A t \in 1 .. Len(prog.schedule[l]) :
          /\ prog.schedule[l][t].tape \in DOMAIN prog.tapes
          /\ prog.schedule[l][t].arg \in Nat
    BY <1>4
  <1>6. QED
    BY <1>2, <1>4, <1>5

(* A tape that has been started is still so after an instruction that does  *)
(* not join it, and only then or if that instruction starts it.             *)
LEMMA StartedNext ==
  ASSUME NEW code, NEW n \in Nat \ {0}, NEW t
  PROVE  /\ ~ Started(code, 1, t)
         /\ Started(code, n + 1, t) <=>
              \/ code[n].op = "run" /\ code[n].thread = t
              \/ Started(code, n, t) /\ ~ (code[n].op = "join" /\ code[n].thread = t)
  <1>1. ~ Started(code, 1, t)
    BY DEF Started
  <1>2. ASSUME code[n].op = "run", code[n].thread = t
        PROVE  Started(code, n + 1, t)
    <2>1. n \in 1 .. (n + 1) - 1 /\ \A m \in n .. (n + 1) - 1 : m = n
      OBVIOUS
    <2>2. QED
      BY <1>2, <2>1 DEF Started
  <1>3. ASSUME Started(code, n, t), ~ (code[n].op = "join" /\ code[n].thread = t)
        PROVE  Started(code, n + 1, t)
    <2>1. PICK l \in 1 .. n - 1 :
            /\ code[l].op = "run" /\ code[l].thread = t
            /\ \A m \in l .. n - 1 : ~ (code[m].op = "join" /\ code[m].thread = t)
      BY <1>3 DEF Started
    <2>2. l \in 1 .. (n + 1) - 1
      OBVIOUS
    <2>3. ASSUME NEW m \in l .. (n + 1) - 1
          PROVE  ~ (code[m].op = "join" /\ code[m].thread = t)
      <3>1. m = n \/ m \in l .. n - 1
        OBVIOUS
      <3>2. QED
        BY <1>3, <2>1, <3>1
    <2>4. QED
      BY <2>1, <2>2, <2>3 DEF Started
  <1>4. ASSUME Started(code, n + 1, t)
        PROVE  \/ code[n].op = "run" /\ code[n].thread = t
               \/ Started(code, n, t) /\ ~ (code[n].op = "join" /\ code[n].thread = t)
    <2>1. PICK l \in 1 .. (n + 1) - 1 :
            /\ code[l].op = "run" /\ code[l].thread = t
            /\ \A m \in l .. (n + 1) - 1 : ~ (code[m].op = "join" /\ code[m].thread = t)
      BY <1>4 DEF Started
    <2>2. n \in l .. (n + 1) - 1 /\ \A m \in l .. n - 1 : m \in l .. (n + 1) - 1
      OBVIOUS
    <2>3. l = n \/ l \in 1 .. n - 1
      OBVIOUS
    <2>4. QED
      BY <2>1, <2>2, <2>3 DEF Started
  <1>5. QED
    BY <1>1, <1>2, <1>3, <1>4

(* Only the first tape starts others, and only others than the first, in    *)
(* other threads than its own, which have none; it joins only those that it *)
(* has started, and in the end has joined all.                              *)
LEMMA InstructionFacts ==
  ASSUME prog \in Programs, NEW n \in DOMAIN prog.tapes, NEW c \in DOMAIN Tape(n).code,
         NEW x, x = Tape(n).code[c]
  PROVE  /\ x \in Instr /\ c \in Nat \ {0}
         /\ x.op = "run" => /\ n = 1 /\ x.thread # 1 /\ x.tape \in DOMAIN prog.tapes /\ x.tape # 1
                            /\ ~ Started(Tape(n).code, c, x.thread) /\ Nested(prog)
         /\ x.op = "join" => Started(Tape(n).code, c, x.thread)
  <1>1. WellFormedProgram(prog)
    BY ProgramsAssumption
  <1>2. WellFormedTape(prog, n)
    BY <1>1 DEF WellFormedProgram
  <1>3. prog.tapes[n].code = Tape(n).code /\ Tape(n).code \in Seq(Instr)
    BY TapeFacts DEF Tape
  <1>4. /\ x.op = "run" => /\ n = 1 /\ x.thread # 1 /\ x.tape \in DOMAIN prog.tapes \ {1}
                           /\ ~ Started(Tape(n).code, c, x.thread)
        /\ x.op = "join" => Started(Tape(n).code, c, x.thread)
    BY <1>2, <1>3 DEF WellFormedTape
  <1>5. x \in Instr /\ c \in Nat \ {0}
    BY <1>3
  <1>6. x.op = "run" => Nested(prog)
    BY <1>3, <1>4 DEF Nested
  <1>7. QED
    BY <1>4, <1>5, <1>6

LEMMA NothingStartedAtEnd ==
  ASSUME prog \in Programs, NEW n \in DOMAIN prog.tapes, NEW t \in Threads
  PROVE  ~ Started(Tape(n).code, Len(Tape(n).code) + 1, t)
  <1>1. WellFormedProgram(prog)
    BY ProgramsAssumption
  <1>2. WellFormedTape(prog, n)
    BY <1>1 DEF WellFormedProgram
  <1>3. QED
    BY <1>2 DEF WellFormedTape, Tape

LEMMA StartedFacts ==
  ASSUME prog \in Programs, NEW n \in DOMAIN prog.tapes,
         NEW c \in 1 .. Len(Tape(n).code) + 1, NEW t, Started(Tape(n).code, c, t)
  PROVE  n = 1 /\ t # 1 /\ t \in Threads /\ Nested(prog)
  <1>1. Tape(n).code \in Seq(Instr)
    BY TapeFacts
  <1>2. PICK l \in 1 .. c - 1 : Tape(n).code[l].op = "run" /\ Tape(n).code[l].thread = t
    BY DEF Started
  <1>3. l \in DOMAIN Tape(n).code
    BY <1>1
  <1>4. PICK x : x = Tape(n).code[l]
    OBVIOUS
  <1>5. x \in Instr /\ n = 1 /\ x.thread # 1 /\ Nested(prog)
    BY <1>2, <1>3, <1>4, InstructionFacts
  <1>6. QED
    BY <1>2, <1>4, <1>5 DEF Instr

-----------------------------------------------------------------------------
(* A thread with a tape: the main thread is in a line of the schedule, and  *)
(* the thread is one of the line, or the first tape has started it.         *)
LEMMA BusyKnows ==
  ASSUME IInv, NEW t \in Threads, Busy(t)
  PROVE  /\ mpc \in InLine /\ line \in DOMAIN prog.schedule /\ numt \in Threads /\ i \in 1 .. numt
         /\ asked[t].tape \in DOMAIN prog.tapes /\ asked[t] \in Work
         /\ MainHas(t) => t \in 1 .. numt
  <1>1. tpc[1] \in Executing => Busy(1)
    <2>1. 1 \in Threads
      BY ProgramFacts DEF IInv, Types
    <2>2. ThreadInv(1)
      BY <2>1 DEF IInv
    <2>3. QED
      BY <2>2 DEF ThreadInv, New, Idle, Ended, Executing
  <1>2. ASSUME NEW s \in Threads, MainHas(s)
        PROVE  mpc \in InLine
    BY <1>2 DEF MainHas, InLine
  <1>3. ~ TapeHas(1)
    <2>1. SUFFICES ASSUME TapeHas(1) PROVE FALSE
      OBVIOUS
    <2>2. Busy(1) /\ program[1] = 1
      BY <1>1, <2>1 DEF TapeHas
    <2>3. pc[1] \in 1 .. Len(Tape(1).code) + 1
      BY <2>1, <2>2 DEF Busy, Taken, Offered, Executing, TapeHas, Code
    <2>4. 1 \in DOMAIN prog.tapes /\ prog \in Programs
      BY ProgramFacts DEF IInv, Types
    <2>5. QED
      BY <2>1, <2>3, <2>4, StartedFacts DEF TapeHas
  <1>4. mpc \in InLine
    <2>1. CASE MainHas(t)
      BY <1>2, <2>1
    <2>2. CASE TapeHas(t)
      <3>1. Busy(1) /\ 1 \in Threads
        BY <1>1, <2>2, ProgramFacts DEF TapeHas, IInv, Types
      <3>2. MainHas(1)
        BY <1>3, <3>1 DEF Busy
      <3>3. QED
        BY <1>2, <3>1, <3>2
    <2>3. QED
      BY <2>1, <2>2 DEF Busy
  <1>5. line \in DOMAIN prog.schedule /\ i <= numt /\ i \in Threads /\ prog \in Programs
    BY <1>4 DEF IInv, Types, MainInv
  <1>6. numt \in Threads
    BY <1>5, LineFacts DEF numt
  <1>7. i \in 1 .. numt
    BY <1>5, <1>6 DEF Threads
  <1>8. asked[t].tape \in DOMAIN prog.tapes /\ asked[t] \in Work
    BY DEF Busy, Assigned
  <1>9. ASSUME MainHas(t)
        PROVE  t \in 1 .. numt
    <2>1. t \in Nat /\ i \in Nat /\ numt \in Nat /\ t >= 1 /\ i <= numt
      BY <1>5, <1>6, ProgramFacts, SMTT(30) DEF Threads
    <2>2. QED
      BY <1>9, <2>1 DEF MainHas
  <1>10. QED
    BY <1>4, <1>5, <1>6, <1>7, <1>8, <1>9

(* Who executes has a tape, and is somewhere in it.                         *)
LEMMA ExecutingKnows ==
  ASSUME IInv, NEW t \in Threads, tpc[t] \in Executing
  PROVE  /\ Busy(t) /\ Taken(t) /\ Assigned(t)
         /\ program[t] \in DOMAIN prog.tapes /\ program[t] = asked[t].tape
         /\ Code(t) = Tape(program[t]).code /\ Code(t) \in Seq(Instr)
         /\ pc[t] \in 1 .. Len(Code(t)) + 1 /\ pc[t] \in Nat \ {0}
         /\ tpc[t] = "joining" => pc[t] \in DOMAIN Code(t) /\ Instruction(t).op = "join"
  <1>1. ThreadInv(t)
    BY DEF IInv
  <1>2. Busy(t)
    BY <1>1 DEF ThreadInv, New, Idle, Ended, Executing
  <1>3. Taken(t) /\ Assigned(t)
    BY <1>2 DEF Busy, Offered, Executing
  <1>4. program[t] = asked[t].tape /\ pc[t] \in 1 .. Len(Code(t)) + 1
    BY <1>3 DEF Taken, Executing
  <1>5. asked[t].tape \in DOMAIN prog.tapes /\ prog \in Programs
    BY <1>3 DEF Assigned, IInv, Types
  <1>6. Code(t) = Tape(program[t]).code /\ Code(t) \in Seq(Instr)
    BY <1>4, <1>5, TapeFacts DEF Code
  <1>7. pc[t] \in Nat \ {0}
    BY <1>4, <1>6
  <1>8. QED
    BY <1>2, <1>3, <1>4, <1>5, <1>6, <1>7 DEF Taken

(* Where the first tape starts others, it is alone on the line, and the     *)
(* main thread has started it.                                              *)
LEMMA FirstTapeAlone ==
  ASSUME IInv, NEW t \in Threads, tpc[t] \in Executing, program[t] = 1, Nested(prog)
  PROVE  t = 1 /\ numt = 1 /\ i = 1 /\ mpc \in {"increase", "join", "joining"} /\ MainHas(1)
  <1>1. Busy(t) /\ Assigned(t) /\ asked[t].tape = 1
    BY ExecutingKnows
  <1>2. MainHas(t) /\ prog.schedule[line][t].tape = 1
    BY <1>1 DEF Assigned
  <1>3. /\ line \in DOMAIN prog.schedule /\ numt \in Threads /\ i \in 1 .. numt /\ t \in 1 .. numt
        /\ prog \in Programs
    BY <1>1, <1>2, BusyKnows DEF IInv, Types
  <1>4. numt = 1
    BY <1>2, <1>3, LineFacts DEF numt
  <1>5. t = 1 /\ i = 1
    BY <1>3, <1>4
  <1>6. QED
    BY <1>2, <1>4, <1>5 DEF MainHas

LEMMA TapeHasKnows ==
  ASSUME IInv, NEW t, TapeHas(t)
  PROVE  /\ t # 1 /\ t \in Threads /\ Nested(prog) /\ ~ MainHas(t) /\ MainHas(1)
         /\ numt = 1 /\ i = 1 /\ mpc \in {"increase", "join", "joining"}
  <1>1. tpc[1] \in Executing /\ program[1] = 1 /\ prog \in Programs /\ 1 \in Threads
    BY ProgramFacts DEF TapeHas, IInv, Types
  <1>2. pc[1] \in 1 .. Len(Tape(1).code) + 1 /\ 1 \in DOMAIN prog.tapes
    BY <1>1, ExecutingKnows
  <1>3. t # 1 /\ t \in Threads /\ Nested(prog)
    BY <1>1, <1>2, StartedFacts DEF TapeHas
  <1>4. numt = 1 /\ i = 1 /\ mpc \in {"increase", "join", "joining"} /\ MainHas(1)
    BY <1>1, <1>3, FirstTapeAlone
  <1>5. ~ MainHas(t)
    BY <1>3, <1>4 DEF MainHas, Threads
  <1>6. QED
    BY <1>3, <1>4, <1>5

(* Who joins a thread has started it.                                       *)
LEMMA JoiningKnows ==
  ASSUME IInv, NEW t \in Threads, tpc[t] \in Executing,
         pc[t] \in DOMAIN Code(t), Instruction(t).op = "join"
  PROVE  t = 1 /\ program[1] = 1 /\ TapeHas(Instruction(t).thread)
  <1>1. prog \in Programs /\ program[t] \in DOMAIN prog.tapes /\ Code(t) = Tape(program[t]).code
    BY ExecutingKnows DEF IInv, Types
  <1>2. PICK x : x = Instruction(t)
    OBVIOUS
  <1>3. Started(Code(t), pc[t], x.thread)
    BY <1>1, <1>2, InstructionFacts DEF Instruction
  <1>4. program[t] = 1 /\ Nested(prog)
    BY <1>1, <1>3, ExecutingKnows, StartedFacts
  <1>5. t = 1
    BY <1>4, FirstTapeAlone
  <1>6. QED
    BY <1>1, <1>2, <1>3, <1>4, <1>5 DEF TapeHas

(* Who starts a thread is the first tape, and the thread has none.          *)
LEMMA RunningKnows ==
  ASSUME IInv, NEW t \in Threads, tpc[t] = "execute", pc[t] \in DOMAIN Code(t),
         NEW x, x = Instruction(t), x.op = "run"
  PROVE  /\ t = 1 /\ program[1] = 1 /\ Nested(prog) /\ x \in Instr
         /\ x.thread \in Threads \ {1} /\ x.tape \in DOMAIN prog.tapes \ {1}
         /\ ~ TapeHas(x.thread) /\ ~ MainHas(x.thread) /\ MainHas(1)
         /\ numt = 1 /\ i = 1 /\ mpc \in {"increase", "join", "joining"}
  <1>1. prog \in Programs /\ program[t] \in DOMAIN prog.tapes /\ Code(t) = Tape(program[t]).code
    BY ExecutingKnows DEF IInv, Types, Executing
  <1>2. /\ x \in Instr /\ program[t] = 1 /\ x.thread # 1 /\ x.tape \in DOMAIN prog.tapes /\ x.tape # 1
        /\ ~ Started(Code(t), pc[t], x.thread) /\ Nested(prog)
    BY <1>1, InstructionFacts DEF Instruction
  <1>3. t = 1 /\ numt = 1 /\ i = 1 /\ mpc \in {"increase", "join", "joining"} /\ MainHas(1)
    BY <1>2, FirstTapeAlone DEF Executing
  <1>4. x.thread \in Threads
    BY <1>2 DEF Instr
  <1>5. ~ TapeHas(x.thread)
    BY <1>1, <1>2, <1>3 DEF TapeHas
  <1>6. ~ MainHas(x.thread)
    BY <1>2, <1>3, <1>4 DEF MainHas, Threads
  <1>7. QED
    BY <1>2, <1>3, <1>4, <1>5, <1>6

(* Outside of a line all threads are new, idle or ended.                    *)
LEMMA NobodyBusy ==
  ASSUME IInv, mpc \notin InLine, NEW t \in Threads
  PROVE  /\ ~ Busy(t) /\ tpc[t] \notin Executing /\ ~ TapeHas(t) /\ ~ failed
         /\ New(t) \/ Idle(t) \/ Ended(t)
         /\ tpc[1] \notin Executing
  <1>1. ~ Busy(t)
    BY BusyKnows
  <1>2. ThreadInv(t)
    BY DEF IInv
  <1>3. ~ TapeHas(t)
    BY TapeHasKnows DEF InLine
  <1>4. ~ failed
    BY DEF IInv, MainInv
  <1>5. tpc[t] \notin Executing
    BY <1>1, ExecutingKnows
  <1>6. tpc[1] \notin Executing
    <2>1. 1 \in Threads
      BY ProgramFacts DEF IInv, Types
    <2>2. QED
      BY <2>1, ExecutingKnows, BusyKnows
  <1>7. QED
    BY <1>1, <1>2, <1>3, <1>4, <1>5, <1>6 DEF ThreadInv

-----------------------------------------------------------------------------
(* Signals wake the only one who waits, and touch no other thread's.        *)
LEMMA ClientSignal ==
  ASSUME DOMAIN client_ready = Threads, NEW t \in Threads, Signal(client_ready, t)
  PROVE  /\ DOMAIN client_ready' = Threads
         /\ \A s \in Threads \ {t} : client_ready'[s] = client_ready[s]
         /\ \A w : client_ready[t] = {} \/ client_ready[t] = {w} => client_ready'[t] = {}
  <1>1. CASE client_ready[t] = {}
    BY <1>1 DEF Signal
  <1>2. CASE client_ready[t] # {}
    <2>1. PICK w \in client_ready[t] : client_ready' = [client_ready EXCEPT ![t] = @ \ {w}]
      BY <1>2 DEF Signal
    <2>2. QED
      BY <1>2, <2>1
  <1>3. QED
    BY <1>1, <1>2

LEMMA ServerSignal ==
  ASSUME DOMAIN server_ready = Threads, NEW t \in Threads, Signal(server_ready, t)
  PROVE  /\ DOMAIN server_ready' = Threads
         /\ \A s \in Threads \ {t} : server_ready'[s] = server_ready[s]
         /\ \A w : server_ready[t] = {} \/ server_ready[t] = {w} => server_ready'[t] = {}
  <1>1. CASE server_ready[t] = {}
    BY <1>1 DEF Signal
  <1>2. CASE server_ready[t] # {}
    <2>1. PICK w \in server_ready[t] : server_ready' = [server_ready EXCEPT ![t] = @ \ {w}]
      BY <1>2 DEF Signal
    <2>2. QED
      BY <1>2, <2>1
  <1>3. QED
    BY <1>1, <1>2

(* What the invariant says of the conditions of one thread: after a signal  *)
(* nobody waits on them.                                                    *)
LEMMA SignalledClient ==
  ASSUME IInv, NEW t \in Threads, Signal(client_ready, t)
  PROVE  /\ DOMAIN client_ready' = Threads /\ client_ready'[t] = {}
         /\ \A s \in Threads \ {t} : client_ready'[s] = client_ready[s]
  <1>1. client_ready[t] = ClientWaits(t) /\ DOMAIN client_ready = Threads
    BY DEF IInv, ThreadInv, Types
  <1>2. client_ready[t] = {} \/ client_ready[t] = {Main} \/ client_ready[t] = {1}
    BY <1>1 DEF ClientWaits
  <1>3. QED
    BY <1>1, <1>2, ClientSignal

LEMMA SignalledServer ==
  ASSUME IInv, NEW t \in Threads, Signal(server_ready, t)
  PROVE  /\ DOMAIN server_ready' = Threads /\ server_ready'[t] = {}
         /\ \A s \in Threads \ {t} : server_ready'[s] = server_ready[s]
  <1>1. server_ready[t] = ServerWaits(t) /\ DOMAIN server_ready = Threads
    BY DEF IInv, ThreadInv, Types
  <1>2. server_ready[t] = {} \/ server_ready[t] = {t}
    BY <1>1 DEF ServerWaits
  <1>3. QED
    BY <1>1, <1>2, ServerSignal

(* Steps that leave a thread alone.                                         *)
Same(s) ==
  /\ tinfo'[s] = tinfo[s]
  /\ client_ready'[s] = client_ready[s] /\ server_ready'[s] = server_ready[s]
  /\ tpc'[s] = tpc[s] /\ program'[s] = program[s] /\ arg'[s] = arg[s] /\ pc'[s] = pc[s]
  /\ asked'[s] = asked[s] /\ began'[s] = began[s]

SameMain == prog' = prog /\ mpc' = mpc /\ line' = line /\ i' = i

LEMMA SameThread ==
  ASSUME SameMain, NEW s \in Threads, Same(s), ThreadInv(s),
         TapeHas(s)' <=> TapeHas(s), TapeWaits(s)' <=> TapeWaits(s)
  PROVE  ThreadInv(s)'
  <1>1. MainHas(s)' <=> MainHas(s)
    BY DEF SameMain, MainHas, numt
  <1>2. ClientWaits(s)' = ClientWaits(s)
    BY DEF SameMain, Same, ClientWaits, MainWaits
  <1>3. ServerWaits(s)' = ServerWaits(s)
    BY DEF Same, ServerWaits
  <1>4. New(s)' <=> New(s)
    BY DEF SameMain, Same, New
  <1>5. Idle(s)' <=> Idle(s)
    BY DEF SameMain, Same, Idle, Killed
  <1>6. Ended(s)' <=> Ended(s)
    BY DEF SameMain, Same, Ended, Killed, Released
  <1>7. Offered(s)' <=> Offered(s)
    BY DEF Same, Offered
  <1>8. Taken(s)' <=> Taken(s)
    BY DEF SameMain, Same, Taken, Code, Tape, Instruction
  <1>9. Assigned(s)' <=> Assigned(s)
    BY <1>1 DEF SameMain, Same, Assigned
  <1>10. Busy(s)' <=> Busy(s)
    BY <1>1, <1>7, <1>8, <1>9 DEF Same, Busy
  <1>11. QED
    BY <1>2, <1>3, <1>4, <1>5, <1>6, <1>10 DEF Same, ThreadInv

(* Only thread 1 in the middle of a tape decides who has other threads.     *)
LEMMA OutsideTape ==
  ASSUME SameMain, 1 \in Threads, NEW t \in Threads, \A s \in Threads \ {t} : Same(s),
         t = 1 => tpc[1] \notin Executing /\ tpc'[1] \notin Executing
  PROVE  /\ \A s \in Threads : TapeHas(s)' <=> TapeHas(s)
         /\ \A s \in Threads \ {t} : TapeWaits(s)' <=> TapeWaits(s)
  <1>1. CASE t = 1
    BY <1>1 DEF TapeHas, TapeWaits, Executing
  <1>2. CASE t # 1
    <2>1. Same(1)
      BY <1>2
    <2>2. \A s \in Threads : TapeHas(s)' <=> TapeHas(s)
      BY <2>1 DEF TapeHas, Same, SameMain, Tape
    <2>3. \A s \in Threads \ {t} : TapeWaits(s)' <=> TapeWaits(s)
      BY <2>1 DEF TapeWaits, Same, SameMain, Instruction, Code, Tape
    <2>4. QED
      BY <2>2, <2>3
  <1>3. QED
    BY <1>1, <1>2

(* A step that leaves the main thread alone.                                *)
LEMMA MainStays ==
  ASSUME IInv, UNCHANGED <<prog, main, held>>, Types', failed' => mpc \in InLine,
         \A s \in Threads : ThreadInv(s)'
  PROVE  IInv'
  <1>1. SameMain /\ held' = held /\ pos' = pos /\ used_by_tape' = used_by_tape
    BY DEF SameMain, main
  <1>2. MainInv'
    <2>1. MainInv
      BY DEF IInv
    <2>2. numt' = numt /\ HeldNow' = HeldNow
      BY <1>1 DEF SameMain, numt, HeldNow
    <2>3. \A n : Returned(n)' = Returned(n)
      BY <1>1 DEF SameMain, Returned, Tape
    <2>4. QED
      BY <1>1, <2>1, <2>2, <2>3 DEF SameMain, MainInv
  <1>3. QED
    BY <1>2 DEF IInv

(* A step of thread t that tells no other thread anything.                  *)
LEMMA OneThread ==
  ASSUME IInv, NEW t \in Threads, UNCHANGED <<prog, main, held>>, Types',
         failed' => mpc \in InLine, ThreadInv(t)',
         \A s \in Threads \ {t} : /\ Same(s) /\ (TapeHas(s)' <=> TapeHas(s))
                                  /\ (TapeWaits(s)' <=> TapeWaits(s))
  PROVE  IInv'
  <1>1. SameMain
    BY DEF SameMain, main
  <1>2. \A s \in Threads \ {t} : ThreadInv(s)'
    BY <1>1, SameThread DEF IInv
  <1>3. \A s \in Threads : ThreadInv(s)'
    BY <1>2
  <1>4. QED
    BY <1>3, MainStays

-----------------------------------------------------------------------------
(* The steps of a thread.                                                   *)
LEMMA ThreadBasics ==
  ASSUME IInv
  PROVE  /\ prog \in Programs /\ Types /\ 1 \in Threads /\ Threads \subseteq Nat \ {0}
         /\ tinfo \in [Threads -> Info]
         /\ DOMAIN tpc = Threads /\ DOMAIN program = Threads /\ DOMAIN arg = Threads
         /\ DOMAIN pc = Threads /\ usage \in [Threads -> Nat]
         /\ DOMAIN asked = Threads /\ DOMAIN began = Threads /\ DOMAIN log = Threads
         /\ DOMAIN client_ready = Threads /\ DOMAIN server_ready = Threads
         /\ failed \in BOOLEAN /\ (failed => mpc \in InLine)
         /\ NThreads \in Nat /\ Threads = 1 .. NThreads
  BY ProgramFacts, SMTT(30) DEF IInv, Types, MainInv, Threads

(* What the steps write into a thread_info.                                 *)
LEMMA InfoRecords ==
  ASSUME NEW r \in Info, NEW u \in Nat
  PROVE  /\ [r EXCEPT !.ready = TRUE] \in Info
         /\ [r EXCEPT !.finished = TRUE] \in Info
         /\ [r EXCEPT !.prognum = -2] \in Info
         /\ [r EXCEPT !.prognum = -1, !.ready = FALSE] \in Info
         /\ [r EXCEPT !.pos = u] \in Info
  <1>1. [r EXCEPT !.ready = TRUE] \in Info
    BY DEF Info
  <1>6. [r EXCEPT !.finished = TRUE] \in Info
    BY DEF Info
  <1>7. [r EXCEPT !.prognum = -2] \in Info
    BY DEF Info
  <1>8. [r EXCEPT !.pos = u] \in Info
    BY DEF Info
  <1>2. PICK q : q = [r EXCEPT !.prognum = -1]
    OBVIOUS
  <1>3. q \in Info
    BY <1>2 DEF Info
  <1>4. [q EXCEPT !.ready = FALSE] \in Info
    BY <1>3 DEF Info
  <1>5. QED
    BY <1>1, <1>2, <1>4, <1>6, <1>7, <1>8

WithOffer(q, n, a, p) == [q EXCEPT !.prognum = n, !.arg = a, !.pos = p, !.finished = FALSE]

LEMMA OfferRecord ==
  ASSUME NEW q \in Info, NEW n \in Nat, NEW a \in Nat, NEW p \in Nat
  PROVE  /\ WithOffer(q, n, a, p) \in Info
         /\ WithOffer(q, n, a, p).prognum = n /\ WithOffer(q, n, a, p).arg = a
         /\ WithOffer(q, n, a, p).pos = p /\ ~ WithOffer(q, n, a, p).finished
         /\ WithOffer(q, n, a, p).ready = q.ready
  <1>0. PICK r : r = WithOffer(q, n, a, p)
    OBVIOUS
  <1>1. PICK u : u = [q EXCEPT !.prognum = n]
    OBVIOUS
  <1>2. u \in Info
    BY <1>1 DEF Info
  <1>3. PICK v : v = [u EXCEPT !.arg = a]
    OBVIOUS
  <1>4. v \in Info
    BY <1>2, <1>3 DEF Info
  <1>5. PICK w : w = [v EXCEPT !.pos = p]
    OBVIOUS
  <1>6. w \in Info
    BY <1>4, <1>5 DEF Info
  <1>7. r = [w EXCEPT !.finished = FALSE]
    BY <1>0, <1>1, <1>3, <1>5 DEF WithOffer
  <1>8. r \in Info
    BY <1>6, <1>7 DEF Info
  <1>9. r.prognum = n /\ r.arg = a /\ r.pos = p /\ ~ r.finished /\ r.ready = q.ready
    BY <1>0 DEF Info, WithOffer
  <1>10. QED
    BY <1>0, <1>8, <1>9

LEMMA InfoFacts ==
  ASSUME IInv, NEW t \in Threads
  PROVE  /\ [tinfo[t] EXCEPT !.ready = TRUE] \in Info
         /\ [tinfo[t] EXCEPT !.finished = TRUE] \in Info
         /\ [tinfo[t] EXCEPT !.prognum = -2] \in Info
         /\ [tinfo[t] EXCEPT !.prognum = -1, !.ready = FALSE] \in Info
         /\ [tinfo[t] EXCEPT !.pos = usage[t]] \in Info
  <1>1. tinfo[t] \in Info /\ usage[t] \in Nat
    BY ThreadBasics
  <1>2. QED
    BY <1>1, InfoRecords

LEMMA NewInfo ==
  ASSUME IInv, NEW t \in Threads, NEW r \in Info, tinfo' = [tinfo EXCEPT ![t] = r]
  PROVE  tinfo' \in [Threads -> Info] /\ tinfo'[t] = r
  BY ThreadBasics

LEMMA ReadyStep ==
  ASSUME IInv, prog' = prog, NEW t \in Threads, Ready(t)
  PROVE  IInv'
  <1>1. /\ tpc[t] = "start" /\ t \notin held
        /\ tinfo' = [tinfo EXCEPT ![t].ready = TRUE]
        /\ tpc' = [tpc EXCEPT ![t] = "wait"]
        /\ UNCHANGED <<main, held, server_ready, program, arg, pc, usage, failed, history>>
    BY DEF Ready, GoTo
  <1>2. /\ DOMAIN client_ready' = Threads /\ client_ready'[t] = {}
        /\ \A s \in Threads \ {t} : client_ready'[s] = client_ready[s]
    BY SignalledClient DEF Ready
  <1>3. New(t) /\ server_ready[t] = ServerWaits(t) /\ MainInv
    BY <1>1 DEF IInv, ThreadInv, Idle, Busy, Offered, Taken, Ended
  <1>4. mpc = "syncing" /\ i = t
    <2>1. mpc \in Starting /\ i <= t /\ t \notin HeldNow
      BY <1>1, <1>3 DEF New, MainInv
    <2>2. i \in Nat /\ t \in Nat /\ t <= NThreads /\ NThreads \in Nat
      BY <1>3, ThreadBasics DEF MainInv
    <2>3. QED
      BY <2>1, <2>2 DEF HeldNow, Starting
  <1>5. /\ tinfo'[t].ready = TRUE /\ tinfo'[t].prognum = -2 /\ tinfo'[t].finished
        /\ tpc'[t] = "wait" /\ server_ready'[t] = {}
        /\ mpc' = "syncing" /\ i' = t
    BY <1>1, <1>3, <1>4, ThreadBasics DEF New, ServerWaits, main, Info
  <1>6. \A s \in Threads \ {t} : Same(s)
    BY <1>1, <1>2, ThreadBasics DEF Same, history
  <1>7. SameMain
    BY <1>1 DEF main, SameMain
  <1>8. t = 1 => tpc[1] \notin Executing /\ tpc'[1] \notin Executing
    BY <1>1, <1>5 DEF Executing
  <1>9. tpc[1] \notin Executing /\ tpc'[1] \notin Executing
    <2>1. tpc[1] \notin Executing
      BY <1>4, NobodyBusy DEF InLine
    <2>2. t # 1 => tpc'[1] = tpc[1]
      BY <1>6, ThreadBasics DEF Same
    <2>3. QED
      BY <1>8, <2>1, <2>2
  <1>10. ThreadInv(t)'
    <2>1. Idle(t)'
      BY <1>5, ThreadBasics DEF Idle, Starting, Killed, Ending
    <2>2. ClientWaits(t)' = {}
      BY <1>5, <1>9 DEF ClientWaits, MainWaits, TapeWaits, Executing
    <2>3. ServerWaits(t)' = {}
      BY <1>5 DEF ServerWaits
    <2>4. QED
      BY <1>2, <1>5, <2>1, <2>2, <2>3 DEF ThreadInv
  <1>11. Types'
    <2>1. [tinfo[t] EXCEPT !.ready = TRUE] \in Info
      BY InfoFacts
    <2>2. tinfo' \in [Threads -> Info]
      BY <1>1, <2>1, NewInfo
    <2>3. QED
      BY <1>1, <1>2, <2>2, ThreadBasics DEF Types, history
  <1>12. QED
    BY <1>1, <1>6, <1>7, <1>8, <1>10, <1>11, OneThread, OutsideTape, ThreadBasics

LEMMA WaitForProgramStep ==
  ASSUME IInv, prog' = prog, NEW t \in Threads, WaitForProgram(t)
  PROVE  IInv'
  <1>1. /\ tpc[t] = "wait" /\ tinfo[t].prognum = -2
        /\ tpc' = [tpc EXCEPT ![t] = "waiting"]
        /\ server_ready' = [server_ready EXCEPT ![t] = @ \cup {t}]
        /\ UNCHANGED <<main, tinfo, held, client_ready, program, arg, pc, usage, failed, history>>
    BY DEF WaitForProgram, GoTo, Wait
  <1>2. \A s \in Threads \ {t} : Same(s)
    BY <1>1, ThreadBasics DEF Same, history
  <1>3. SameMain
    BY <1>1 DEF main, SameMain
  <1>4. tpc'[t] = "waiting"
    BY <1>1, ThreadBasics
  <1>5. t = 1 => tpc[1] \notin Executing /\ tpc'[1] \notin Executing
    BY <1>1, <1>4 DEF Executing
  <1>6. ThreadInv(t)
    BY DEF IInv
  <1>7. Idle(t)
    <2>1. Busy(t) => asked[t].tape \in Nat
      BY DEF Busy, Assigned, Work
    <2>2. ~ Busy(t)
      BY <1>1, <2>1 DEF Busy, Offered, Taken
    <2>3. QED
      BY <1>1, <1>6, <2>2 DEF ThreadInv, New, Ended
  <1>8. server_ready'[t] = {t}
    BY <1>1, <1>6, ThreadBasics DEF ThreadInv, ServerWaits
  <1>9. ThreadInv(t)'
    <2>1. Idle(t)'
      BY <1>1, <1>3, <1>4, <1>7 DEF Idle, Killed, SameMain
    <2>2. ServerWaits(t)' = {t}
      BY <1>1, <1>4 DEF ServerWaits
    <2>3. ClientWaits(t)' = {} /\ ClientWaits(t) = {}
      BY <1>1, <1>3, <1>7 DEF ClientWaits, MainWaits, TapeWaits, Idle, SameMain
    <2>4. QED
      BY <1>1, <1>6, <1>8, <2>1, <2>2, <2>3 DEF ThreadInv
  <1>10. Types'
    BY <1>1, ThreadBasics DEF Types, history
  <1>11. QED
    BY <1>1, <1>2, <1>3, <1>5, <1>9, <1>10, OneThread, OutsideTape, ThreadBasics

LEMMA TakeProgramStep ==
  ASSUME IInv, prog' = prog, NEW t \in Threads, TakeProgram(t)
  PROVE  IInv'
  <1>1. /\ \/ tpc[t] = "wait" /\ tinfo[t].prognum # -2
           \/ tpc[t] = "waiting" /\ t \notin server_ready[t]
        /\ program' = [program EXCEPT ![t] = tinfo[t].prognum]
        /\ tinfo' = [tinfo EXCEPT ![t].prognum = -2]
        /\ tpc' = [tpc EXCEPT ![t] = IF tinfo[t].prognum = -1 THEN "stop" ELSE "reset"]
        /\ UNCHANGED <<main, held, conds, arg, pc, usage, failed, history>>
    BY DEF TakeProgram, GoTo
  <1>2. \A s \in Threads \ {t} : Same(s)
    BY <1>1, ThreadBasics DEF Same, history, conds
  <1>3. SameMain
    BY <1>1 DEF main, SameMain
  <1>4. tpc'[t] = IF tinfo[t].prognum = -1 THEN "stop" ELSE "reset"
    BY <1>1, ThreadBasics
  <1>5. t = 1 => tpc[1] \notin Executing /\ tpc'[1] \notin Executing
    BY <1>1, <1>4 DEF Executing
  <1>6. ThreadInv(t)
    BY DEF IInv
  <1>7. tinfo[t].prognum # -2
    BY <1>1, <1>6 DEF ThreadInv, ServerWaits
  <1>8. (Offered(t) /\ Busy(t)) \/ (Ended(t) /\ tinfo[t].prognum = -1)
    <2>1. Busy(t) \/ Ended(t)
      BY <1>6, <1>7 DEF ThreadInv, New, Idle
    <2>2. Busy(t) => Offered(t)
      BY <1>7 DEF Busy, Taken
    <2>3. Ended(t) => tinfo[t].prognum = -1
      BY <1>7 DEF Ended
    <2>4. QED
      BY <2>1, <2>2, <2>3
  <1>9. /\ tinfo'[t].prognum = -2 /\ tinfo'[t].finished = tinfo[t].finished
        /\ tinfo'[t].ready = tinfo[t].ready /\ tinfo'[t].arg = tinfo[t].arg /\ tinfo'[t].pos = tinfo[t].pos
        /\ program'[t] = tinfo[t].prognum
        /\ asked'[t] = asked[t] /\ client_ready'[t] = client_ready[t] /\ server_ready'[t] = server_ready[t]
    BY <1>1, ThreadBasics DEF Info, conds, history
  <1>10. server_ready[t] = {}
    BY <1>1, <1>6, <1>7 DEF ThreadInv, ServerWaits
  <1>11. /\ \A s \in Threads : TapeHas(s)' <=> TapeHas(s)
         /\ \A s \in Threads \ {t} : TapeWaits(s)' <=> TapeWaits(s)
    BY <1>2, <1>3, <1>5, OutsideTape, ThreadBasics
  <1>12. TapeWaits(t)' <=> TapeWaits(t)
    <2>1. CASE t = 1
      BY <1>5, <2>1 DEF TapeWaits, Executing
    <2>2. CASE t # 1
      <3>1. Same(1)
        BY <1>2, <2>2, ThreadBasics
      <3>2. QED
        BY <1>3, <1>9, <3>1 DEF TapeWaits, Same, SameMain, Instruction, Code, Tape
    <2>3. QED
      BY <2>1, <2>2
  <1>13. ClientWaits(t)' = ClientWaits(t)
    BY <1>3, <1>9, <1>12 DEF ClientWaits, MainWaits, SameMain
  <1>14. MainHas(t)' <=> MainHas(t)
    BY <1>3 DEF MainHas, SameMain, numt
  <1>15. ThreadInv(t)'
    <2>1. CASE Offered(t) /\ Busy(t)
      <3>1. asked[t].tape \in Nat \ {0} /\ tinfo[t].prognum = asked[t].tape /\ Assigned(t)
        BY <2>1 DEF Busy, Assigned, Work, Offered
      <3>2. tpc'[t] = "reset" /\ tinfo[t].prognum # -1
        BY <1>4, <3>1
      <3>3. Taken(t)'
        BY <1>9, <3>1, <3>2 DEF Taken
      <3>4. Assigned(t)'
        BY <1>1, <1>3, <1>9, <1>14, <2>1, <3>1, <3>2 DEF Assigned, Offered, SameMain
      <3>5. Busy(t)'
        BY <1>9, <1>11, <1>14, <2>1, <3>3, <3>4 DEF Busy
      <3>6. ServerWaits(t)' = {}
        BY <3>2 DEF ServerWaits
      <3>7. QED
        BY <1>6, <1>9, <1>10, <1>13, <3>5, <3>6 DEF ThreadInv
    <2>2. CASE Ended(t) /\ tinfo[t].prognum = -1
      <3>1. tpc'[t] = "stop"
        BY <1>4, <2>2
      <3>2. Ended(t)'
        BY <1>3, <1>9, <2>2, <3>1 DEF Ended, Killed, Released, SameMain
      <3>3. ServerWaits(t)' = {}
        BY <3>1 DEF ServerWaits
      <3>4. QED
        BY <1>6, <1>9, <1>10, <1>13, <3>2, <3>3 DEF ThreadInv
    <2>3. QED
      BY <1>8, <2>1, <2>2
  <1>16. Types'
    <2>1. [tinfo[t] EXCEPT !.prognum = -2] \in Info
      BY InfoFacts
    <2>2. tinfo' \in [Threads -> Info]
      BY <1>1, <2>1, NewInfo
    <2>3. QED
      BY <1>1, <2>2, ThreadBasics DEF Types, history, conds
  <1>17. failed' => mpc \in InLine
    BY <1>1, ThreadBasics
  <1>18. QED
    BY <1>1, <1>2, <1>11, <1>15, <1>16, <1>17, OneThread

(* Taken(t) in a step that leaves prog, tinfo[t] and asked[t] alone needs   *)
(* the rest only.                                                           *)
LEMMA StillBusy ==
  ASSUME SameMain, NEW t \in Threads, ThreadInv(t), Busy(t), Taken(t)',
         tinfo'[t] = tinfo[t], asked'[t] = asked[t],
         client_ready'[t] = client_ready[t], server_ready'[t] = server_ready[t],
         tpc[t] \notin {"waiting", "stopping", "finish"}, tpc'[t] \notin {"waiting", "stopping"},
         TapeHas(t)' <=> TapeHas(t), TapeWaits(t)' <=> TapeWaits(t)
  PROVE  ThreadInv(t)'
  <1>1. MainHas(t)' <=> MainHas(t)
    BY DEF MainHas, SameMain, numt
  <1>2. Assigned(t)'
    BY <1>1 DEF Busy, Assigned, SameMain
  <1>3. Busy(t)'
    BY <1>1, <1>2 DEF Busy
  <1>4. ServerWaits(t) = {} /\ ServerWaits(t)' = {}
    BY DEF ServerWaits
  <1>5. ClientWaits(t)' = ClientWaits(t)
    BY DEF ClientWaits, MainWaits, SameMain
  <1>6. QED
    BY <1>3, <1>4, <1>5 DEF ThreadInv

LEMMA ResetStep ==
  ASSUME IInv, prog' = prog, NEW t \in Threads, Reset(t)
  PROVE  IInv'
  <1>1. /\ tpc[t] = "reset" /\ tpc' = [tpc EXCEPT ![t] = "seek"]
        /\ arg' = [arg EXCEPT ![t] = tinfo[t].arg] /\ pc' = [pc EXCEPT ![t] = 1]
        /\ UNCHANGED <<main, tinfo, held, conds, program, usage, failed, history>>
    BY DEF Reset, GoTo
  <1>2. \A s \in Threads \ {t} : Same(s)
    BY <1>1, ThreadBasics DEF Same, history, conds
  <1>3. SameMain
    BY <1>1 DEF main, SameMain
  <1>4. /\ tpc'[t] = "seek" /\ arg'[t] = tinfo[t].arg /\ pc'[t] = 1
        /\ tinfo'[t] = tinfo[t] /\ asked'[t] = asked[t] /\ program'[t] = program[t]
        /\ client_ready'[t] = client_ready[t] /\ server_ready'[t] = server_ready[t]
    BY <1>1, ThreadBasics DEF history, conds
  <1>5. t = 1 => tpc[1] \notin Executing /\ tpc'[1] \notin Executing
    BY <1>1, <1>4 DEF Executing
  <1>6. /\ \A s \in Threads : TapeHas(s)' <=> TapeHas(s)
        /\ \A s \in Threads \ {t} : TapeWaits(s)' <=> TapeWaits(s)
    BY <1>2, <1>3, <1>5, OutsideTape, ThreadBasics
  <1>7. ThreadInv(t)
    BY DEF IInv
  <1>8. Busy(t) /\ Taken(t) /\ Assigned(t)
    BY <1>1, <1>7 DEF ThreadInv, New, Idle, Busy, Ended, Offered
  <1>9. TapeWaits(t)' <=> TapeWaits(t)
    <2>1. CASE t = 1
      BY <1>5, <2>1 DEF TapeWaits, Executing
    <2>2. CASE t # 1
      <3>1. Same(1)
        BY <1>2, <2>2, ThreadBasics
      <3>2. QED
        BY <1>3, <1>4, <3>1 DEF TapeWaits, Same, SameMain, Instruction, Code, Tape
    <2>3. QED
      BY <2>1, <2>2
  <1>10. Taken(t)'
    <2>1. program[t] = asked[t].tape /\ asked[t].tape \in DOMAIN prog.tapes /\ tinfo[t].arg = asked[t].arg
      BY <1>1, <1>8 DEF Taken, Assigned
    <2>2. Code(t)' = Code(t) /\ Len(Code(t)) \in Nat
      <3>1. Code(t) \in Seq(Instr)
        BY <2>1, TapeFacts, ThreadBasics DEF Code
      <3>2. QED
        BY <1>3, <1>4, <3>1 DEF Code, Tape, SameMain
    <2>3. 1 \in 1 .. Len(Code(t)) + 1
      BY <2>2
    <2>4. QED
      BY <1>1, <1>4, <1>8, <2>1, <2>2, <2>3 DEF Taken
  <1>11. ThreadInv(t)'
    BY <1>1, <1>3, <1>4, <1>6, <1>7, <1>8, <1>9, <1>10, StillBusy
  <1>12. Types'
    BY <1>1, ThreadBasics DEF Types, history, conds
  <1>13. failed' => mpc \in InLine
    BY <1>1, ThreadBasics
  <1>14. QED
    BY <1>1, <1>2, <1>6, <1>11, <1>12, <1>13, OneThread

LEMMA SeekStep ==
  ASSUME IInv, prog' = prog, NEW t \in Threads, Seek(t)
  PROVE  IInv'
  <1>1. /\ tpc[t] = "seek" /\ tpc' = [tpc EXCEPT ![t] = "execute"]
        /\ usage' = [usage EXCEPT ![t] = tinfo[t].pos] /\ began' = [began EXCEPT ![t] = tinfo[t].pos]
        /\ UNCHANGED <<main, tinfo, held, conds, program, arg, pc, failed, reads, asked, log>>
    BY DEF Seek, GoTo
  <1>2. \A s \in Threads \ {t} : Same(s)
    BY <1>1, ThreadBasics DEF Same, conds
  <1>3. SameMain
    BY <1>1 DEF main, SameMain
  <1>4. /\ tpc'[t] = "execute" /\ began'[t] = tinfo[t].pos /\ pc'[t] = pc[t] /\ arg'[t] = arg[t]
        /\ tinfo'[t] = tinfo[t] /\ asked'[t] = asked[t] /\ program'[t] = program[t]
        /\ client_ready'[t] = client_ready[t] /\ server_ready'[t] = server_ready[t]
    BY <1>1, ThreadBasics DEF conds
  <1>5. ThreadInv(t)
    BY DEF IInv
  <1>6. Busy(t) /\ Taken(t) /\ Assigned(t)
    BY <1>1, <1>5 DEF ThreadInv, New, Idle, Busy, Ended, Offered
  <1>7. /\ \A s \in Threads : TapeHas(s)' <=> TapeHas(s)
        /\ \A s \in Threads : TapeWaits(s)' <=> TapeWaits(s)
    <2>1. CASE t = 1
      <3>1. pc'[1] = 1
        BY <1>1, <1>4, <1>6, <2>1 DEF Taken
      <3>2. \A s : ~ Started(Tape(1).code, 1, s)
        BY DEF Started
      <3>3. \A s : ~ TapeHas(s)' /\ ~ TapeHas(s)
        BY <1>1, <1>3, <2>1, <3>1, <3>2 DEF TapeHas, Executing, SameMain, Tape
      <3>4. \A s : ~ TapeWaits(s)' /\ ~ TapeWaits(s)
        BY <1>1, <1>4, <2>1 DEF TapeWaits
      <3>5. QED
        BY <3>3, <3>4
    <2>2. CASE t # 1
      <3>1. Same(1)
        BY <1>2, <2>2, ThreadBasics
      <3>2. QED
        BY <1>1, <1>3, <3>1 DEF TapeHas, TapeWaits, Same, SameMain, Instruction, Code, Tape
    <2>3. QED
      BY <2>1, <2>2
  <1>8. Taken(t)'
    <2>1. Code(t)' = Code(t)
      BY <1>3, <1>4 DEF Code, Tape, SameMain
    <2>2. tinfo[t].pos = asked[t].pos
      BY <1>1, <1>6 DEF Assigned
    <2>3. QED
      BY <1>1, <1>4, <1>6, <2>1, <2>2 DEF Taken
  <1>9. ThreadInv(t)'
    BY <1>1, <1>3, <1>4, <1>5, <1>6, <1>7, <1>8, StillBusy
  <1>10. Types'
    <2>1. tinfo[t].pos \in Nat
      BY ThreadBasics DEF Info
    <2>2. usage' \in [Threads -> Nat]
      BY <1>1, <2>1, ThreadBasics
    <2>3. QED
      BY <1>1, <2>2, ThreadBasics DEF Types, conds
  <1>11. failed' => mpc \in InLine
    BY <1>1, ThreadBasics
  <1>12. QED
    BY <1>1, <1>2, <1>7, <1>9, <1>10, <1>11, OneThread

LEMMA UseStep ==
  ASSUME IInv, prog' = prog, NEW t \in Threads, Use(t)
  PROVE  IInv'
  <1>1. /\ tpc[t] = "execute" /\ pc[t] \in DOMAIN Code(t) /\ Instruction(t).op = "use"
        /\ failed' \in {failed, TRUE}
        /\ usage' = [usage EXCEPT ![t] = @ + 1] /\ pc' = [pc EXCEPT ![t] = @ + 1]
        /\ UNCHANGED <<main, tinfo, held, conds, tpc, program, arg, asked, began, log>>
    BY DEF Use, Executes, Step, Instruction
  <1>2. \A s \in Threads \ {t} : Same(s)
    BY <1>1, ThreadBasics DEF Same, conds
  <1>3. SameMain
    BY <1>1 DEF main, SameMain
  <1>4. /\ tpc'[t] = "execute" /\ began'[t] = began[t] /\ pc'[t] = pc[t] + 1 /\ arg'[t] = arg[t]
        /\ tinfo'[t] = tinfo[t] /\ asked'[t] = asked[t] /\ program'[t] = program[t]
        /\ client_ready'[t] = client_ready[t] /\ server_ready'[t] = server_ready[t]
    BY <1>1, ThreadBasics DEF conds
  <1>5. ThreadInv(t)
    BY DEF IInv
  <1>6. /\ Busy(t) /\ Taken(t) /\ Assigned(t) /\ Code(t) \in Seq(Instr) /\ pc[t] \in Nat \ {0}
        /\ Code(t) = Tape(program[t]).code
    BY <1>1, ExecutingKnows DEF Executing
  <1>7. /\ \A s \in Threads : TapeHas(s)' <=> TapeHas(s)
        /\ \A s \in Threads : TapeWaits(s)' <=> TapeWaits(s)
    <2>1. CASE t = 1
      <3>1. \A s : program[1] = 1 => (Started(Tape(1).code, pc[1] + 1, s) <=> Started(Tape(1).code, pc[1], s))
        <4>1. PICK code, n : code = Tape(1).code /\ n = pc[1]
          OBVIOUS
        <4>2. program[1] = 1 => code[n].op = "use"
          BY <1>1, <1>6, <2>1, <4>1 DEF Instruction
        <4>3. \A s : program[1] = 1 => (Started(code, n + 1, s) <=> Started(code, n, s))
          BY <1>6, <2>1, <4>1, <4>2, StartedNext
        <4>4. QED
          BY <4>1, <4>3
      <3>2. \A s : TapeHas(s)' <=> TapeHas(s)
        BY <1>1, <1>3, <1>4, <2>1, <3>1 DEF TapeHas, Executing, SameMain, Tape
      <3>3. \A s : ~ TapeWaits(s)' /\ ~ TapeWaits(s)
        BY <1>1, <1>4, <2>1 DEF TapeWaits
      <3>4. QED
        BY <3>2, <3>3
    <2>2. CASE t # 1
      <3>1. Same(1)
        BY <1>2, <2>2, ThreadBasics
      <3>2. QED
        BY <1>1, <1>3, <3>1 DEF TapeHas, TapeWaits, Same, SameMain, Instruction, Code, Tape
    <2>3. QED
      BY <2>1, <2>2
  <1>8. Taken(t)'
    <2>1. Code(t)' = Code(t)
      BY <1>3, <1>4 DEF Code, Tape, SameMain
    <2>2. pc[t] + 1 \in 1 .. Len(Code(t)) + 1
      BY <1>1, <1>6
    <2>3. QED
      BY <1>1, <1>4, <1>6, <2>1, <2>2 DEF Taken
  <1>9. ThreadInv(t)'
    BY <1>1, <1>3, <1>4, <1>5, <1>6, <1>7, <1>8, StillBusy
  <1>10. Types'
    <2>1. usage' \in [Threads -> Nat]
      BY <1>1, ThreadBasics
    <2>2. failed' \in BOOLEAN
      BY <1>1, ThreadBasics
    <2>3. QED
      BY <1>1, <2>1, <2>2, ThreadBasics DEF Types, conds
  <1>11. failed' => mpc \in InLine
    BY <1>1, <1>6, BusyKnows, ThreadBasics
  <1>12. QED
    BY <1>1, <1>2, <1>7, <1>9, <1>10, <1>11, OneThread

(* In a line of the schedule, a thread that has no tape is idle.            *)
LEMMA IdleInLine ==
  ASSUME IInv, mpc \in InLine, NEW t \in Threads, ~ Busy(t)
  PROVE  Idle(t)
  BY DEF IInv, ThreadInv, New, Ended, Killed, Starting, Ending, InLine

(* What a thread is told of the tape that it is handed.                     *)
LEMMA Offering ==
  ASSUME IInv, NEW u \in Threads, NEW n \in Nat \ {0}, NEW a \in Nat, HandOver(u, n, a)
  PROVE  /\ tinfo' \in [Threads -> Info] /\ tinfo'[u].prognum = n /\ tinfo'[u].arg = a
         /\ tinfo'[u].pos = pos /\ ~ tinfo'[u].finished /\ tinfo'[u].ready = tinfo[u].ready
         /\ DOMAIN asked' = Threads /\ asked'[u] \in Work
         /\ asked'[u].tape = n /\ asked'[u].arg = a /\ asked'[u].pos = pos
         /\ DOMAIN server_ready' = Threads /\ server_ready'[u] = {}
         /\ \A s \in Threads \ {u} : /\ tinfo'[s] = tinfo[s] /\ asked'[s] = asked[s]
                                    /\ server_ready'[s] = server_ready[s]
  <1>1. PICK q, p, r : q = tinfo[u] /\ p = pos /\ r = WithOffer(q, n, a, p)
    OBVIOUS
  <1>2. q \in Info /\ p \in Nat
    BY <1>1, ThreadBasics DEF IInv, MainInv
  <1>3. /\ WithOffer(q, n, a, p) \in Info
        /\ WithOffer(q, n, a, p).prognum = n /\ WithOffer(q, n, a, p).arg = a
        /\ WithOffer(q, n, a, p).pos = p /\ ~ WithOffer(q, n, a, p).finished
        /\ WithOffer(q, n, a, p).ready = q.ready
    BY <1>2, OfferRecord
  <1>4. tinfo' = [tinfo EXCEPT ![u] = r]
    BY <1>1 DEF HandOver, WithOffer
  <1>5. tinfo' \in [Threads -> Info] /\ tinfo'[u] = r
    BY <1>1, <1>3, <1>4, NewInfo
  <1>6. asked' = [asked EXCEPT ![u] = [tape |-> n, arg |-> a, pos |-> p]]
    BY <1>1 DEF HandOver
  <1>7. asked'[u] = [tape |-> n, arg |-> a, pos |-> p] /\ DOMAIN asked' = Threads
    BY <1>6, ThreadBasics
  <1>8. asked'[u] \in Work /\ asked'[u].tape = n /\ asked'[u].arg = a /\ asked'[u].pos = p
    BY <1>2, <1>7 DEF Work
  <1>9. /\ DOMAIN server_ready' = Threads /\ server_ready'[u] = {}
        /\ \A s \in Threads \ {u} : server_ready'[s] = server_ready[s]
    BY SignalledServer DEF HandOver
  <1>10. \A s \in Threads \ {u} : tinfo'[s] = tinfo[s] /\ asked'[s] = asked[s]
    BY <1>4, <1>6, ThreadBasics
  <1>11. QED
    BY <1>1, <1>3, <1>5, <1>7, <1>8, <1>9, <1>10

LEMMA RunStep ==
  ASSUME IInv, prog' = prog, NEW t \in Threads, Run(t)
  PROVE  IInv'
  <1>1. PICK x : x = Instruction(t)
    OBVIOUS
  <1>2. /\ tpc[t] = "execute" /\ pc[t] \in DOMAIN Code(t) /\ x.op = "run"
        /\ failed' = Tape(x.tape).unknown
        /\ usage' = [usage EXCEPT ![t] = @ + Returned(x.tape)]
        /\ pc' = [pc EXCEPT ![t] = @ + 1]
        /\ UNCHANGED <<main, held, client_ready, tpc, program, arg, reads, began, log>>
    <2>1. Executes(t, "run") /\ UNCHANGED <<main, held, client_ready, tpc, program, arg, reads, began, log>>
      BY DEF Run
    <2>2. tpc[t] = "execute" /\ pc[t] \in DOMAIN Code(t) /\ x.op = "run"
      BY <1>1, <2>1 DEF Executes, Instruction
    <2>3. failed' = Tape(x.tape).unknown
      BY <1>1 DEF Run
    <2>4. usage' = [usage EXCEPT ![t] = @ + Returned(x.tape)]
      BY <1>1 DEF Run
    <2>5. pc' = [pc EXCEPT ![t] = @ + 1]
      BY DEF Run, Step
    <2>6. QED
      BY <2>1, <2>2, <2>3, <2>4, <2>5
  <1>3. PICK u, n, a : u = x.thread /\ n = x.tape /\ a = x.arg
    OBVIOUS
  <1>4. /\ t = 1 /\ program[1] = 1 /\ x \in Instr
        /\ u \in Threads /\ u # 1 /\ n \in DOMAIN prog.tapes /\ n # 1
        /\ ~ TapeHas(u) /\ ~ MainHas(u) /\ MainHas(1)
        /\ numt = 1 /\ i = 1 /\ mpc \in {"increase", "join", "joining"}
    BY <1>1, <1>2, <1>3, RunningKnows
  <1>5. n \in Nat \ {0} /\ a \in Nat
    BY <1>3, <1>4, ProgramFacts, ThreadBasics DEF Instr
  <1>6. HandOver(u, n, a)
    BY <1>1, <1>3 DEF Run, HandOver, Signal
  <1>7. /\ tinfo' \in [Threads -> Info] /\ tinfo'[u].prognum = n /\ tinfo'[u].arg = a
        /\ tinfo'[u].pos = pos /\ ~ tinfo'[u].finished /\ tinfo'[u].ready = tinfo[u].ready
        /\ DOMAIN asked' = Threads /\ asked'[u] \in Work
        /\ asked'[u].tape = n /\ asked'[u].arg = a /\ asked'[u].pos = pos
        /\ DOMAIN server_ready' = Threads /\ server_ready'[u] = {}
        /\ \A s \in Threads \ {u} : /\ tinfo'[s] = tinfo[s] /\ asked'[s] = asked[s]
                                   /\ server_ready'[s] = server_ready[s]
    BY <1>4, <1>5, <1>6, Offering
  <1>11. SameMain
    BY <1>2 DEF main, SameMain
  <1>12. \A s \in Threads \ {1, u} : Same(s)
    BY <1>2, <1>4, <1>7, ThreadBasics DEF Same
  <1>13. /\ Busy(1) /\ Taken(1) /\ Code(1) \in Seq(Instr) /\ pc[1] \in Nat \ {0} /\ Code(1) = Tape(1).code
         /\ 1 \in Threads /\ ThreadInv(1)
    BY <1>2, <1>4, ExecutingKnows, ThreadBasics DEF Executing, IInv
  <1>14. \A s : Started(Tape(1).code, pc[1] + 1, s) <=> s = u \/ Started(Tape(1).code, pc[1], s)
    <2>1. PICK code, k : code = Tape(1).code /\ k = pc[1]
      OBVIOUS
    <2>2. code[k] = x
      BY <1>1, <1>4, <1>13, <2>1 DEF Instruction
    <2>3. \A s : Started(code, k + 1, s) <=> s = u \/ Started(code, k, s)
      BY <1>2, <1>3, <1>13, <2>1, <2>2, StartedNext
    <2>4. QED
      BY <2>1, <2>3
  <1>15. /\ tpc'[1] = "execute" /\ program'[1] = program[1] /\ pc'[1] = pc[1] + 1
         /\ tinfo'[1] = tinfo[1] /\ asked'[1] = asked[1] /\ client_ready'[1] = client_ready[1]
         /\ server_ready'[1] = server_ready[1] /\ began'[1] = began[1] /\ arg'[1] = arg[1]
    BY <1>2, <1>4, <1>7, ThreadBasics
  <1>16. \A s : TapeHas(s)' <=> s = u \/ TapeHas(s)
    BY <1>2, <1>4, <1>11, <1>14, <1>15 DEF TapeHas, Executing, SameMain, Tape
  <1>17. \A s : ~ TapeWaits(s)' /\ ~ TapeWaits(s)
    BY <1>2, <1>4, <1>15 DEF TapeWaits
  <1>18. ThreadInv(1)'
    <2>1. Code(1)' = Code(1)
      BY <1>11, <1>15 DEF Code, Tape, SameMain
    <2>2. pc[1] + 1 \in 1 .. Len(Code(1)) + 1
      BY <1>2, <1>4, <1>13
    <2>3. Taken(1)'
      BY <1>2, <1>4, <1>13, <1>15, <2>1, <2>2 DEF Taken
    <2>4. TapeHas(1)' <=> TapeHas(1)
      BY <1>4, <1>16
    <2>5. QED
      BY <1>2, <1>4, <1>11, <1>13, <1>15, <1>17, <2>3, <2>4, StillBusy
  <1>19. ThreadInv(u)'
    <2>1. Idle(u)
      BY <1>4, IdleInLine DEF Busy, InLine
    <2>2. tpc'[u] = tpc[u]
      BY <1>2
    <2>4. ~ MainHas(u)'
      BY <1>4, <1>11 DEF MainHas, SameMain, numt
    <2>5. Assigned(u)'
      BY <1>4, <1>7, <1>11, <2>4 DEF Assigned, SameMain
    <2>6. Offered(u)'
      BY <1>7, <2>1, <2>2 DEF Offered, Idle
    <2>7. Busy(u)'
      BY <1>7, <1>16, <2>1, <2>5, <2>6 DEF Busy, Idle
    <2>8. client_ready'[u] = {}
      <3>1. client_ready[u] = ClientWaits(u)
        BY <1>4 DEF IInv, ThreadInv
      <3>2. ClientWaits(u) = {}
        BY <1>4, <1>17 DEF ClientWaits, MainWaits
      <3>3. QED
        BY <1>2, <3>1, <3>2
    <2>9. ClientWaits(u)' = {}
      BY <1>4, <1>11, <1>17 DEF ClientWaits, MainWaits, SameMain
    <2>10. ServerWaits(u)' = {}
      BY <1>5, <1>7, <2>1, <2>2 DEF ServerWaits, Idle
    <2>11. QED
      BY <1>7, <2>7, <2>8, <2>9, <2>10 DEF ThreadInv
  <1>20. \A s \in Threads \ {1, u} : ThreadInv(s)'
    <2> TAKE s \in Threads \ {1, u}
    <2>1. Same(s) /\ ThreadInv(s) /\ (TapeHas(s)' <=> TapeHas(s)) /\ (TapeWaits(s)' <=> TapeWaits(s))
      BY <1>12, <1>16, <1>17 DEF IInv
    <2>2. QED
      BY <1>11, <2>1, SameThread
  <1>21. Types'
    <2>1. Returned(x.tape) \in Nat /\ Tape(x.tape).unknown \in BOOLEAN
      BY <1>3, <1>4, TapeFacts, ThreadBasics
    <2>2. usage' \in [Threads -> Nat]
      BY <1>2, <2>1, ThreadBasics
    <2>3. QED
      BY <1>2, <1>7, <2>1, <2>2, ThreadBasics DEF Types
  <1>22. \A s \in Threads : ThreadInv(s)'
    BY <1>18, <1>19, <1>20
  <1>23. QED
    BY <1>2, <1>4, <1>21, <1>22, MainStays DEF InLine

LEMMA WaitForThreadStep ==
  ASSUME IInv, prog' = prog, NEW t \in Threads, WaitForThread(t)
  PROVE  IInv'
  <1>1. PICK u : u = Instruction(t).thread
    OBVIOUS
  <1>2. /\ tpc[t] = "execute" /\ pc[t] \in DOMAIN Code(t) /\ Instruction(t).op = "join"
        /\ ~ tinfo[u].finished
        /\ client_ready' = [client_ready EXCEPT ![u] = @ \cup {t}]
        /\ tpc' = [tpc EXCEPT ![t] = "joining"]
        /\ UNCHANGED <<main, tinfo, held, server_ready, program, arg, pc, usage, failed, history>>
    BY <1>1 DEF WaitForThread, Executes, GoTo, Wait, Instruction
  <1>3. t = 1 /\ program[1] = 1 /\ TapeHas(u)
    BY <1>1, <1>2, JoiningKnows DEF Executing
  <1>4. /\ u # 1 /\ u \in Threads /\ i = 1 /\ mpc \in {"increase", "join", "joining"}
    BY <1>3, TapeHasKnows
  <1>5. SameMain
    BY <1>2 DEF main, SameMain
  <1>6. \A s \in Threads \ {1, u} : Same(s)
    BY <1>2, <1>3, <1>4, ThreadBasics DEF Same, history
  <1>7. /\ tpc'[1] = "joining" /\ program'[1] = program[1] /\ pc'[1] = pc[1]
        /\ tinfo'[1] = tinfo[1] /\ asked'[1] = asked[1] /\ client_ready'[1] = client_ready[1]
        /\ server_ready'[1] = server_ready[1] /\ began'[1] = began[1] /\ arg'[1] = arg[1]
    BY <1>2, <1>3, <1>4, ThreadBasics DEF history
  <1>8. Instruction(1)' = Instruction(1) /\ Code(1)' = Code(1)
    BY <1>5, <1>7 DEF Instruction, Code, Tape, SameMain
  <1>9. \A s : TapeHas(s)' <=> TapeHas(s)
    BY <1>2, <1>3, <1>5, <1>7 DEF TapeHas, Executing, SameMain, Tape
  <1>10. \A s : ~ TapeWaits(s)
    BY <1>2, <1>3 DEF TapeWaits
  <1>11. \A s : TapeWaits(s)' <=> s = u /\ ~ tinfo[u].finished
    BY <1>1, <1>2, <1>3, <1>7, <1>8 DEF TapeWaits
  <1>12. ThreadInv(1)'
    <2>1. Busy(1) /\ Taken(1) /\ 1 \in Threads /\ ThreadInv(1)
      BY <1>2, <1>3, ExecutingKnows, ThreadBasics DEF Executing, IInv
    <2>2. Taken(1)'
      BY <1>2, <1>3, <1>7, <1>8, <2>1 DEF Taken
    <2>3. (TapeHas(1)' <=> TapeHas(1)) /\ (TapeWaits(1)' <=> TapeWaits(1))
      BY <1>4, <1>9, <1>10, <1>11
    <2>4. QED
      BY <1>2, <1>3, <1>5, <1>7, <2>1, <2>2, <2>3, StillBusy
  <1>13. ThreadInv(u)'
    <2>1. client_ready[u] = ClientWaits(u) /\ server_ready[u] = ServerWaits(u) /\ ThreadInv(u)
      BY <1>4 DEF IInv, ThreadInv
    <2>2. ClientWaits(u) = {} /\ ClientWaits(u)' = {1}
      BY <1>2, <1>4, <1>5, <1>10, <1>11 DEF ClientWaits, MainWaits, SameMain
    <2>3. client_ready'[u] = {1}
      BY <1>2, <1>3, <1>4, <2>1, <2>2, ThreadBasics
    <2>4. Busy(u)
      BY <1>2, <1>4, <2>1 DEF ThreadInv, New, Idle, Ended
    <2>5. /\ tinfo'[u] = tinfo[u] /\ server_ready'[u] = server_ready[u] /\ tpc'[u] = tpc[u]
          /\ program'[u] = program[u] /\ arg'[u] = arg[u] /\ pc'[u] = pc[u]
          /\ asked'[u] = asked[u] /\ began'[u] = began[u]
      BY <1>2, <1>3, <1>4, ThreadBasics DEF history
    <2>6. MainHas(u)' <=> MainHas(u)
      BY <1>5 DEF MainHas, SameMain, numt
    <2>7. Assigned(u)'
      BY <1>5, <2>4, <2>5, <2>6 DEF Busy, Assigned, SameMain
    <2>8. (Offered(u) \/ Taken(u))'
      BY <1>5, <2>4, <2>5 DEF Busy, Offered, Taken, Code, Tape, Instruction, SameMain
    <2>9. Busy(u)'
      BY <1>9, <2>4, <2>5, <2>6, <2>7, <2>8 DEF Busy
    <2>10. ServerWaits(u)' = ServerWaits(u)
      BY <2>5 DEF ServerWaits
    <2>11. QED
      BY <2>1, <2>2, <2>3, <2>5, <2>9, <2>10 DEF ThreadInv
  <1>14. \A s \in Threads \ {1, u} : ThreadInv(s)'
    <2> TAKE s \in Threads \ {1, u}
    <2>1. Same(s) /\ ThreadInv(s) /\ (TapeHas(s)' <=> TapeHas(s)) /\ (TapeWaits(s)' <=> TapeWaits(s))
      BY <1>6, <1>9, <1>10, <1>11 DEF IInv
    <2>2. QED
      BY <1>5, <2>1, SameThread
  <1>15. Types'
    BY <1>2, ThreadBasics DEF Types, history
  <1>16. \A s \in Threads : ThreadInv(s)'
    BY <1>12, <1>13, <1>14
  <1>17. QED
    BY <1>2, <1>4, <1>15, <1>16, MainStays DEF InLine

LEMMA JoinThreadStep ==
  ASSUME IInv, prog' = prog, NEW t \in Threads, JoinThread(t)
  PROVE  IInv'
  <1>1. PICK u : u = Instruction(t).thread
    OBVIOUS
  <1>2. /\ tpc[t] \in Executing
        /\ \/ tpc[t] = "execute" /\ tinfo[u].finished /\ pc[t] \in DOMAIN Code(t) /\ Instruction(t).op = "join"
           \/ tpc[t] = "joining" /\ t \notin client_ready[u]
        /\ pc' = [pc EXCEPT ![t] = @ + 1]
        /\ tpc' = [tpc EXCEPT ![t] = "execute"]
        /\ UNCHANGED <<main, tinfo, held, conds, program, arg, usage, failed, history>>
    BY <1>1 DEF JoinThread, Executes, GoTo, Step, Instruction, Executing
  <1>3. /\ pc[t] \in DOMAIN Code(t) /\ Instruction(t).op = "join"
        /\ Busy(t) /\ Taken(t) /\ Code(t) \in Seq(Instr) /\ pc[t] \in Nat \ {0}
        /\ Code(t) = Tape(program[t]).code
    BY <1>2, ExecutingKnows
  <1>4. t = 1 /\ program[1] = 1 /\ TapeHas(u)
    BY <1>1, <1>2, <1>3, JoiningKnows
  <1>5. /\ u # 1 /\ u \in Threads /\ i = 1 /\ mpc \in {"increase", "join", "joining"}
    BY <1>4, TapeHasKnows
  <1>6. tinfo[u].finished
    <2>1. SUFFICES ASSUME ~ tinfo[u].finished PROVE FALSE
      OBVIOUS
    <2>2. tpc[1] = "joining" /\ 1 \notin client_ready[u]
      BY <1>2, <1>4, <2>1
    <2>3. TapeWaits(u) /\ ~ MainWaits(u)
      BY <1>1, <1>4, <1>5, <2>1, <2>2 DEF TapeWaits, MainWaits
    <2>4. client_ready[u] = {1}
      BY <1>5, <2>3 DEF IInv, ThreadInv, ClientWaits
    <2>5. QED
      BY <2>2, <2>4
  <1>7. SameMain
    BY <1>2 DEF main, SameMain
  <1>8. \A s \in Threads \ {1} : Same(s)
    BY <1>2, <1>4, ThreadBasics DEF Same, history, conds
  <1>9. /\ tpc'[1] = "execute" /\ program'[1] = program[1] /\ pc'[1] = pc[1] + 1
        /\ tinfo'[1] = tinfo[1] /\ asked'[1] = asked[1] /\ client_ready'[1] = client_ready[1]
        /\ server_ready'[1] = server_ready[1] /\ began'[1] = began[1] /\ arg'[1] = arg[1]
    BY <1>2, <1>4, ThreadBasics DEF history, conds
  <1>10. \A s : Started(Tape(1).code, pc[1] + 1, s) <=> s # u /\ Started(Tape(1).code, pc[1], s)
    <2>1. PICK code, n : code = Tape(1).code /\ n = pc[1]
      OBVIOUS
    <2>2. code[n].op = "join" /\ code[n].thread = u
      BY <1>1, <1>3, <1>4, <2>1 DEF Instruction
    <2>3. \A s : Started(code, n + 1, s) <=> s # u /\ Started(code, n, s)
      BY <1>3, <1>4, <2>1, <2>2, StartedNext
    <2>4. QED
      BY <2>1, <2>3
  <1>11. \A s : TapeHas(s)' <=> s # u /\ TapeHas(s)
    BY <1>2, <1>4, <1>7, <1>9, <1>10 DEF TapeHas, Executing, SameMain, Tape
  <1>12. \A s : ~ TapeWaits(s)' /\ ~ TapeWaits(s)
    BY <1>1, <1>2, <1>4, <1>6, <1>9 DEF TapeWaits
  <1>13. ThreadInv(1)'
    <2>1. Code(1)' = Code(1)
      BY <1>7, <1>9 DEF Code, Tape, SameMain
    <2>2. pc[1] + 1 \in 1 .. Len(Code(1)) + 1
      BY <1>3, <1>4
    <2>3. Taken(1)'
      BY <1>2, <1>3, <1>4, <1>9, <2>1, <2>2 DEF Taken, Executing
    <2>4. (TapeHas(1)' <=> TapeHas(1)) /\ (TapeWaits(1)' <=> TapeWaits(1))
      BY <1>5, <1>11, <1>12
    <2>5. ThreadInv(1) /\ 1 \in Threads /\ tpc[1] \notin {"waiting", "stopping", "finish"}
      BY <1>2, <1>4, ThreadBasics DEF IInv, Executing
    <2>6. QED
      BY <1>3, <1>4, <1>7, <1>9, <2>3, <2>4, <2>5, StillBusy
  <1>14. ThreadInv(u)'
    <2>1. ThreadInv(u) /\ Same(u)
      BY <1>5, <1>8 DEF IInv
    <2>2. Idle(u)
      BY <1>5, <1>6, IdleInLine DEF Busy, InLine
    <2>3. Idle(u)' /\ ServerWaits(u)' = ServerWaits(u)
      BY <1>7, <2>1, <2>2 DEF Idle, Killed, Same, SameMain, ServerWaits
    <2>4. ClientWaits(u)' = {} /\ ClientWaits(u) = {}
      BY <1>5, <1>6, <1>7, <1>12, <2>1 DEF ClientWaits, MainWaits, Same, SameMain
    <2>5. QED
      BY <2>1, <2>3, <2>4 DEF ThreadInv, Same
  <1>15. \A s \in Threads \ {1, u} : ThreadInv(s)'
    <2> TAKE s \in Threads \ {1, u}
    <2>1. Same(s) /\ ThreadInv(s) /\ (TapeHas(s)' <=> TapeHas(s)) /\ (TapeWaits(s)' <=> TapeWaits(s))
      BY <1>8, <1>11, <1>12 DEF IInv
    <2>2. QED
      BY <1>7, <2>1, SameThread
  <1>16. Types'
    BY <1>2, ThreadBasics DEF Types, history, conds
  <1>17. \A s \in Threads : ThreadInv(s)'
    BY <1>13, <1>14, <1>15
  <1>18. QED
    BY <1>2, <1>5, <1>16, <1>17, MainStays DEF InLine

LEMMA EndTapeStep ==
  ASSUME IInv, prog' = prog, NEW t \in Threads, EndTape(t)
  PROVE  IInv'
  <1>1. /\ tpc[t] = "execute" /\ pc[t] \notin DOMAIN Code(t)
        /\ tinfo' = tinfo \/ tinfo' = [tinfo EXCEPT ![t].pos = usage[t]]
        /\ tpc' = [tpc EXCEPT ![t] = "finish"]
        /\ UNCHANGED <<main, held, conds, program, arg, pc, usage, failed, history>>
    BY DEF EndTape, GoTo
  <1>2. /\ tinfo' \in [Threads -> Info] /\ tinfo'[t].prognum = tinfo[t].prognum
        /\ tinfo'[t].arg = tinfo[t].arg /\ tinfo'[t].finished = tinfo[t].finished
        /\ tinfo'[t].ready = tinfo[t].ready
        /\ \A s \in Threads \ {t} : tinfo'[s] = tinfo[s]
    <2>1. CASE tinfo' = tinfo
      BY <2>1, ThreadBasics
    <2>2. CASE tinfo' = [tinfo EXCEPT ![t].pos = usage[t]]
      <3>1. tinfo' \in [Threads -> Info]
        BY <2>2, InfoFacts, NewInfo
      <3>2. QED
        BY <2>2, <3>1, ThreadBasics DEF Info
    <2>3. QED
      BY <1>1, <2>1, <2>2
  <1>3. \A s \in Threads \ {t} : Same(s)
    BY <1>1, <1>2, ThreadBasics DEF Same, history, conds
  <1>4. SameMain
    BY <1>1 DEF main, SameMain
  <1>5. /\ tpc'[t] = "finish" /\ program'[t] = program[t] /\ pc'[t] = pc[t]
        /\ asked'[t] = asked[t] /\ client_ready'[t] = client_ready[t]
        /\ server_ready'[t] = server_ready[t] /\ began'[t] = began[t] /\ arg'[t] = arg[t]
    BY <1>1, ThreadBasics DEF history, conds
  <1>6. /\ Busy(t) /\ Taken(t) /\ Assigned(t) /\ Code(t) \in Seq(Instr)
        /\ Code(t) = Tape(program[t]).code /\ program[t] \in DOMAIN prog.tapes
        /\ pc[t] \in 1 .. Len(Code(t)) + 1 /\ prog \in Programs
    BY <1>1, ExecutingKnows, ThreadBasics DEF Executing
  <1>7. pc[t] = Len(Code(t)) + 1
    BY <1>1, <1>6
  <1>8. \A s \in Threads : TapeHas(s)' <=> TapeHas(s)
    <2>1. CASE t = 1
      <3>1. \A s \in Threads : ~ TapeHas(s)
        BY <1>6, <1>7, <2>1, NothingStartedAtEnd DEF TapeHas
      <3>2. \A s \in Threads : ~ TapeHas(s)'
        BY <1>5, <2>1 DEF TapeHas, Executing
      <3>3. QED
        BY <3>1, <3>2
    <2>2. CASE t # 1
      <3>1. Same(1)
        BY <1>3, <2>2, ThreadBasics
      <3>2. QED
        BY <1>4, <3>1 DEF TapeHas, Same, SameMain, Tape
    <2>3. QED
      BY <2>1, <2>2
  <1>9. \A s \in Threads : TapeWaits(s)' <=> TapeWaits(s)
    <2>1. CASE t = 1
      BY <1>1, <1>5, <2>1 DEF TapeWaits
    <2>2. CASE t # 1
      <3>1. Same(1)
        BY <1>3, <2>2, ThreadBasics
      <3>2. \A s \in Threads : tinfo'[s].finished = tinfo[s].finished
        BY <1>2
      <3>3. QED
        BY <1>4, <3>1, <3>2 DEF TapeWaits, Same, SameMain, Instruction, Code, Tape
    <2>3. QED
      BY <2>1, <2>2
  <1>10. ThreadInv(t)'
    <2>1. ThreadInv(t)
      BY DEF IInv
    <2>2. Code(t)' = Code(t)
      BY <1>4, <1>5 DEF Code, Tape, SameMain
    <2>3. Taken(t)'
      BY <1>1, <1>2, <1>5, <1>6, <2>2 DEF Taken
    <2>4. MainHas(t)' <=> MainHas(t)
      BY <1>4 DEF MainHas, SameMain, numt
    <2>5. Assigned(t)'
      BY <1>2, <1>4, <1>5, <1>6, <2>4 DEF Assigned, SameMain
    <2>6. Busy(t)'
      BY <1>2, <1>6, <1>8, <2>3, <2>4, <2>5 DEF Busy
    <2>7. ClientWaits(t)' = ClientWaits(t)
      BY <1>2, <1>4, <1>9 DEF ClientWaits, MainWaits, SameMain
    <2>8. ServerWaits(t)' = {} /\ ServerWaits(t) = {}
      BY <1>1, <1>5 DEF ServerWaits
    <2>9. QED
      BY <1>5, <2>1, <2>6, <2>7, <2>8 DEF ThreadInv
  <1>11. Types'
    BY <1>1, <1>2, ThreadBasics DEF Types, history, conds
  <1>12. failed' => mpc \in InLine
    BY <1>1, ThreadBasics
  <1>13. QED
    BY <1>1, <1>3, <1>8, <1>9, <1>10, <1>11, <1>12, OneThread

LEMMA FinishStep ==
  ASSUME IInv, prog' = prog, NEW t \in Threads, Finish(t)
  PROVE  IInv'
  <1>1. /\ tpc[t] = "finish"
        /\ tinfo' = [tinfo EXCEPT ![t].finished = TRUE]
        /\ log' = [log EXCEPT ![t] = Append(@, [tape |-> program[t], arg |-> arg[t], pos |-> began[t]])]
        /\ tpc' = [tpc EXCEPT ![t] = "wait"]
        /\ UNCHANGED <<main, held, server_ready, program, arg, pc, usage, failed, reads, asked, began>>
    BY DEF Finish, GoTo
  <1>2. /\ DOMAIN client_ready' = Threads /\ client_ready'[t] = {}
        /\ \A s \in Threads \ {t} : client_ready'[s] = client_ready[s]
    BY SignalledClient DEF Finish
  <1>3. tinfo' \in [Threads -> Info]
    BY <1>1, InfoFacts, NewInfo
  <1>4. /\ tinfo'[t].prognum = tinfo[t].prognum /\ tinfo'[t].finished /\ tinfo'[t].ready = tinfo[t].ready
        /\ tpc'[t] = "wait" /\ server_ready'[t] = server_ready[t]
    BY <1>1, ThreadBasics DEF Info
  <1>5. \A s \in Threads \ {t} : Same(s)
    BY <1>1, <1>2, ThreadBasics DEF Same
  <1>6. SameMain
    BY <1>1 DEF main, SameMain
  <1>7. t = 1 => tpc[1] \notin Executing /\ tpc'[1] \notin Executing
    BY <1>1, <1>4 DEF Executing
  <1>8. ThreadInv(t)
    BY DEF IInv
  <1>9. Busy(t) /\ Taken(t)
    BY <1>1, <1>8 DEF ThreadInv, New, Idle, Busy, Ended, Offered
  <1>10. mpc \in InLine
    BY <1>9, BusyKnows
  <1>11. Idle(t)'
    BY <1>4, <1>6, <1>9, <1>10 DEF Idle, Killed, Busy, Taken, SameMain, Starting, Ending, InLine
  <1>12. ClientWaits(t)' = {}
    BY <1>4, <1>6, <1>10 DEF ClientWaits, MainWaits, TapeWaits, SameMain, InLine
  <1>13. ServerWaits(t)' = {} /\ ServerWaits(t) = {}
    BY <1>1, <1>4 DEF ServerWaits
  <1>14. ThreadInv(t)'
    BY <1>2, <1>4, <1>8, <1>11, <1>12, <1>13 DEF ThreadInv
  <1>15. Types'
    BY <1>1, <1>2, <1>3, ThreadBasics DEF Types
  <1>16. failed' => mpc \in InLine
    BY <1>10
  <1>17. QED
    BY <1>1, <1>5, <1>6, <1>7, <1>14, <1>15, <1>16, OneThread, OutsideTape, ThreadBasics

LEMMA StoppedKnows ==
  ASSUME IInv, NEW t \in Threads, tpc[t] \in {"stop", "stopping"}
  PROVE  Ended(t) /\ tinfo[t].prognum = -2 /\ client_ready[t] = {} /\ mpc \in Ending
  <1>1. ThreadInv(t)
    BY DEF IInv
  <1>2. Ended(t) /\ tinfo[t].prognum = -2
    BY <1>1 DEF ThreadInv, New, Idle, Busy, Offered, Taken, Ended
  <1>3. mpc \in Ending /\ tinfo[t].finished
    BY <1>2 DEF Ended, Killed
  <1>4. ClientWaits(t) = {}
    BY <1>3 DEF ClientWaits, MainWaits, TapeWaits, Ending
  <1>5. QED
    BY <1>1, <1>2, <1>3, <1>4 DEF ThreadInv

LEMMA WaitForReleaseStep ==
  ASSUME IInv, prog' = prog, NEW t \in Threads, WaitForRelease(t)
  PROVE  IInv'
  <1>1. /\ tpc[t] = "stop" /\ ~ tinfo[t].ready
        /\ server_ready' = [server_ready EXCEPT ![t] = @ \cup {t}]
        /\ tpc' = [tpc EXCEPT ![t] = "stopping"]
        /\ UNCHANGED <<main, tinfo, held, client_ready, program, arg, pc, usage, failed, history>>
    BY DEF WaitForRelease, Wait, GoTo
  <1>2. \A s \in Threads \ {t} : Same(s)
    BY <1>1, ThreadBasics DEF Same, history
  <1>3. SameMain
    BY <1>1 DEF main, SameMain
  <1>4. tpc'[t] = "stopping"
    BY <1>1, ThreadBasics
  <1>5. t = 1 => tpc[1] \notin Executing /\ tpc'[1] \notin Executing
    BY <1>1, <1>4 DEF Executing
  <1>6. Ended(t) /\ tinfo[t].prognum = -2 /\ client_ready[t] = {} /\ mpc \in Ending
    BY <1>1, StoppedKnows
  <1>7. ThreadInv(t)'
    <2>1. server_ready[t] = {}
      BY <1>1 DEF IInv, ThreadInv, ServerWaits
    <2>2. server_ready'[t] = {t}
      BY <1>1, <2>1, ThreadBasics
    <2>3. ServerWaits(t)' = {t}
      BY <1>1, <1>4 DEF ServerWaits
    <2>4. Ended(t)'
      BY <1>1, <1>3, <1>4, <1>6 DEF Ended, Killed, Released, SameMain
    <2>5. ClientWaits(t)' = {}
      BY <1>1, <1>3, <1>6 DEF ClientWaits, MainWaits, TapeWaits, Ended, Ending, SameMain
    <2>6. QED
      BY <1>1, <1>6, <2>2, <2>3, <2>4, <2>5 DEF ThreadInv
  <1>8. Types'
    BY <1>1, ThreadBasics DEF Types, history
  <1>9. failed' => mpc \in InLine
    BY <1>1, ThreadBasics
  <1>10. QED
    BY <1>1, <1>2, <1>3, <1>5, <1>7, <1>8, <1>9, OneThread, OutsideTape, ThreadBasics

LEMMA ExitStep ==
  ASSUME IInv, prog' = prog, NEW t \in Threads, Exit(t)
  PROVE  IInv'
  <1>1. /\ \/ tpc[t] = "stop" /\ tinfo[t].ready
           \/ tpc[t] = "stopping" /\ t \notin server_ready[t]
        /\ tpc' = [tpc EXCEPT ![t] = "gone"]
        /\ UNCHANGED <<main, tinfo, held, conds, program, arg, pc, usage, failed, history>>
    BY DEF Exit, GoTo
  <1>2. \A s \in Threads \ {t} : Same(s)
    BY <1>1, ThreadBasics DEF Same, history, conds
  <1>3. SameMain
    BY <1>1 DEF main, SameMain
  <1>4. tpc'[t] = "gone"
    BY <1>1, ThreadBasics
  <1>5. t = 1 => tpc[1] \notin Executing /\ tpc'[1] \notin Executing
    BY <1>1, <1>4 DEF Executing
  <1>6. Ended(t) /\ tinfo[t].prognum = -2 /\ client_ready[t] = {} /\ mpc \in Ending
    BY <1>1, StoppedKnows
  <1>7. ThreadInv(t)'
    <2>1. server_ready[t] = {} /\ server_ready'[t] = server_ready[t] /\ client_ready'[t] = client_ready[t]
      BY <1>1 DEF IInv, ThreadInv, ServerWaits, conds
    <2>2. ServerWaits(t)' = {}
      BY <1>4 DEF ServerWaits
    <2>3. Ended(t)'
      BY <1>1, <1>3, <1>4, <1>6 DEF Ended, Killed, Released, SameMain
    <2>4. ClientWaits(t)' = {}
      BY <1>1, <1>3, <1>6 DEF ClientWaits, MainWaits, TapeWaits, Ended, Ending, SameMain
    <2>5. QED
      BY <1>6, <2>1, <2>2, <2>3, <2>4 DEF ThreadInv
  <1>8. Types'
    BY <1>1, ThreadBasics DEF Types, history, conds
  <1>9. failed' => mpc \in InLine
    BY <1>1, ThreadBasics
  <1>10. QED
    BY <1>1, <1>2, <1>3, <1>5, <1>7, <1>8, <1>9, OneThread, OutsideTape, ThreadBasics

LEMMA ThreadStep ==
  ASSUME IInv, NEW t \in Threads, ThreadNext(t)
  PROVE  IInv'
  BY ReadyStep, WaitForProgramStep, TakeProgramStep, ResetStep, SeekStep, UseStep, RunStep,
     WaitForThreadStep, JoinThreadStep, EndTapeStep, FinishStep, WaitForReleaseStep, ExitStep
     DEF ThreadNext

-----------------------------------------------------------------------------
(* The steps of the main thread.                                            *)
LEMMA MainKnows ==
  ASSUME IInv
  PROVE  /\ mpc \in Starting \cup Ending \cup InLine \cup {"line", "joined"}
         /\ i \in Threads /\ line \in Nat \ {0} /\ pos \in Nat /\ used_by_tape \in Nat
         /\ held = HeldNow
         /\ mpc \in InLine \cup {"joined"} => line \in DOMAIN prog.schedule
         /\ mpc \in InLine => i <= numt
         /\ mpc = "increase" => used_by_tape = Returned(prog.schedule[line][i].tape)
         /\ failed => mpc \in InLine
  BY DEF IInv, MainInv

LEMMA LineKnows ==
  ASSUME IInv, line \in DOMAIN prog.schedule
  PROVE  numt \in Threads
  BY LineFacts, ThreadBasics DEF numt

(* A step of the main thread that does not touch thread s.                  *)
LEMMA KeptByMain ==
  ASSUME IInv, NEW s \in Threads, Same(s), prog' = prog, UNCHANGED <<tpc, program, pc>>,
         Busy(s) => line' = line /\ (MainHas(s)' <=> MainHas(s)),
         MainWaits(s)' <=> MainWaits(s),
         New(s) => New(s)', Idle(s) => Idle(s)', Ended(s) => Ended(s)'
  PROVE  ThreadInv(s)'
  <1>1. TapeHas(s)' <=> TapeHas(s)
    BY DEF TapeHas, Tape
  <1>2. TapeWaits(s)' <=> TapeWaits(s)
    BY DEF Same, TapeWaits, Instruction, Code, Tape
  <1>3. ClientWaits(s)' = ClientWaits(s)
    BY <1>2 DEF ClientWaits
  <1>4. ServerWaits(s)' = ServerWaits(s)
    BY DEF Same, ServerWaits
  <1>5. Busy(s) => Busy(s)'
    <2>1. SUFFICES ASSUME Busy(s) PROVE Busy(s)'
      OBVIOUS
    <2>2. line' = line /\ (MainHas(s)' <=> MainHas(s))
      BY <2>1
    <2>3. Assigned(s)'
      BY <2>1, <2>2 DEF Busy, Assigned, Same
    <2>4. Offered(s) => Offered(s)'
      BY DEF Offered, Same
    <2>5. Taken(s) => Taken(s)'
      BY DEF Taken, Same, Code, Tape, Instruction
    <2>6. QED
      BY <1>1, <2>1, <2>2, <2>3, <2>4, <2>5 DEF Busy, Same
  <1>6. ThreadInv(s)
    BY DEF IInv
  <1>7. QED
    BY <1>3, <1>4, <1>5, <1>6 DEF ThreadInv, Same

LEMMA SyncWaitStep ==
  ASSUME IInv, prog' = prog, SyncWait
  PROVE  IInv'
  <1>1. PICK j : j = i
    OBVIOUS
  <1>2. /\ mpc = "sync" /\ ~ tinfo[j].ready /\ mpc' = "syncing" /\ i = j /\ i' = j
        /\ client_ready' = [client_ready EXCEPT ![j] = @ \cup {Main}]
        /\ held' = held \ {j}
        /\ UNCHANGED <<line, used_by_tape, usage_unknown, pos, tinfo, server_ready, threads,
                       failed, history>>
    BY <1>1 DEF SyncWait, Wait
  <1>3. j \in Threads /\ j \in Nat /\ held = j .. NThreads /\ NThreads \in Nat
    BY <1>2, MainKnows, ThreadBasics DEF HeldNow
  <1>4. \A s \in Threads \ {j} : Same(s)
    BY <1>2, <1>3, ThreadBasics DEF Same, history, threads
  <1>5. \A s \in Threads : ~ Busy(s) /\ (New(s) \/ Idle(s) \/ Ended(s)) /\ tpc[1] \notin Executing
    BY <1>2, NobodyBusy DEF InLine
  <1>6. \A s \in Threads : (New(s) => New(s)') /\ (Idle(s) => Idle(s)') /\ ~ Ended(s)
    BY <1>2 DEF New, Idle, Ended, Killed, Starting, Ending, threads
  <1>7. UNCHANGED <<tpc, program, pc>>
    BY <1>2 DEF threads
  <1>8. \A s \in Threads \ {j} : ThreadInv(s)'
    <2> TAKE s \in Threads \ {j}
    <2>1. MainWaits(s)' <=> MainWaits(s)
      BY <1>2 DEF MainWaits
    <2>2. QED
      BY <1>4, <1>5, <1>6, <1>7, <2>1, KeptByMain
  <1>9. ThreadInv(j)'
    <2>1. client_ready[j] = ClientWaits(j) /\ server_ready[j] = ServerWaits(j)
      BY <1>3 DEF IInv, ThreadInv
    <2>2. ClientWaits(j) = {}
      BY <1>2, <1>3, <1>5 DEF ClientWaits, MainWaits, TapeWaits, Executing
    <2>3. client_ready'[j] = {Main}
      BY <1>2, <1>3, <2>1, <2>2, ThreadBasics
    <2>4. ClientWaits(j)' = {Main}
      BY <1>2 DEF ClientWaits, MainWaits
    <2>5. ServerWaits(j)' = ServerWaits(j) /\ server_ready'[j] = server_ready[j]
      BY <1>2, <1>7 DEF ServerWaits
    <2>6. New(j)' \/ Idle(j)'
      BY <1>3, <1>5, <1>6
    <2>7. QED
      BY <2>1, <2>3, <2>4, <2>5, <2>6 DEF ThreadInv
  <1>10. MainInv'
    <2>1. held' = j + 1 .. NThreads
      BY <1>2, <1>3
    <2>2. HeldNow' = j + 1 .. NThreads
      BY <1>2 DEF HeldNow
    <2>3. QED
      BY <1>2, <1>3, <2>1, <2>2, MainKnows DEF MainInv, Starting, InLine
  <1>11. Types'
    BY <1>2, <1>3, ThreadBasics DEF Types, threads, history
  <1>12. QED
    BY <1>8, <1>9, <1>10, <1>11 DEF IInv

LEMMA SyncWokenStep ==
  ASSUME IInv, prog' = prog, SyncWoken
  PROVE  IInv'
  <1>1. PICK j : j = i
    OBVIOUS
  <1>2. /\ mpc = "syncing" /\ Main \notin client_ready[j] /\ mpc' = "sync" /\ i = j /\ i' = j
        /\ held' = held \cup {j}
        /\ UNCHANGED <<line, used_by_tape, usage_unknown, pos, tinfo, conds, threads,
                       failed, history>>
    BY <1>1 DEF SyncWoken
  <1>3. j \in Threads /\ j \in 1 .. NThreads /\ held = j + 1 .. NThreads /\ NThreads \in Nat
    BY <1>2, MainKnows, ThreadBasics DEF HeldNow
  <1>4. \A s \in Threads : Same(s)
    BY <1>2, <1>3, ThreadBasics DEF Same, history, threads, conds
  <1>5. \A s \in Threads : ~ Busy(s)
    BY <1>2, NobodyBusy DEF InLine
  <1>6. \A s \in Threads : (New(s) => New(s)') /\ (Idle(s) => Idle(s)') /\ ~ Ended(s)
    BY <1>2 DEF New, Idle, Ended, Killed, Starting, Ending, threads
  <1>7. UNCHANGED <<tpc, program, pc>>
    BY <1>2 DEF threads
  <1>8. tinfo[j].ready
    BY <1>2, <1>3 DEF IInv, ThreadInv, ClientWaits, MainWaits
  <1>9. \A s \in Threads : ThreadInv(s)'
    <2> TAKE s \in Threads
    <2>1. MainWaits(s)' <=> MainWaits(s)
      BY <1>2, <1>8 DEF MainWaits
    <2>2. QED
      BY <1>4, <1>5, <1>6, <1>7, <2>1, KeptByMain
  <1>10. MainInv'
    <2>1. held' = j .. NThreads
      BY <1>2, <1>3
    <2>2. HeldNow' = j .. NThreads
      BY <1>2 DEF HeldNow
    <2>3. QED
      BY <1>2, <1>3, <2>1, <2>2, MainKnows DEF MainInv, Starting, InLine
  <1>11. Types'
    BY <1>2, <1>3, ThreadBasics DEF Types, threads, history, conds
  <1>12. QED
    BY <1>9, <1>10, <1>11 DEF IInv

LEMMA SyncDoneStep ==
  ASSUME IInv, prog' = prog, SyncDone
  PROVE  IInv'
  <1>1. PICK j : j = i
    OBVIOUS
  <1>2. /\ mpc = "sync" /\ tinfo[j].ready /\ i = j
        /\ held' = held \ {j}
        /\ IF j = NThreads THEN mpc' = "line" /\ i' = 1 ELSE i' = j + 1 /\ mpc' = "sync"
        /\ UNCHANGED <<line, used_by_tape, usage_unknown, pos, tinfo, conds, threads,
                       failed, history>>
    BY <1>1 DEF SyncDone
  <1>3. /\ j \in Threads /\ j \in 1 .. NThreads /\ held = j .. NThreads /\ NThreads \in Nat
        /\ Threads = 1 .. NThreads
    BY <1>2, MainKnows, ThreadBasics DEF HeldNow
  <1>4. \A s \in Threads : Same(s)
    BY <1>2, <1>3, ThreadBasics DEF Same, history, threads, conds
  <1>5. \A s \in Threads : ~ Busy(s)
    BY <1>2, NobodyBusy DEF InLine
  <1>6. \A s \in Threads : (New(s) => New(s)') /\ (Idle(s) => Idle(s)') /\ ~ Ended(s)
    <2> TAKE s \in Threads
    <2>1. s \in 1 .. NThreads
      BY <1>3
    <2>2. New(s) => New(s)'
      <3>1. SUFFICES ASSUME New(s) PROVE New(s)'
        OBVIOUS
      <3>2. s # j /\ j <= s
        BY <1>2, <3>1 DEF New
      <3>3. j # NThreads /\ j + 1 <= s
        BY <1>3, <2>1, <3>2
      <3>4. QED
        BY <1>2, <3>1, <3>3 DEF New, threads, Starting
    <2>3. Idle(s) => Idle(s)'
      <3>1. SUFFICES ASSUME Idle(s) PROVE Idle(s)'
        OBVIOUS
      <3>2. s <= j
        BY <1>2, <3>1 DEF Idle, Starting
      <3>3. s <= j + 1
        BY <1>3, <2>1, <3>2
      <3>4. QED
        BY <1>2, <3>1, <3>3 DEF Idle, Killed, threads, Starting, Ending
    <2>4. ~ Ended(s)
      BY <1>2 DEF Ended, Killed, Ending
    <2>5. QED
      BY <2>2, <2>3, <2>4
  <1>7. UNCHANGED <<tpc, program, pc>>
    BY <1>2 DEF threads
  <1>8. \A s \in Threads : ThreadInv(s)'
    <2> TAKE s \in Threads
    <2>1. MainWaits(s)' <=> MainWaits(s)
      BY <1>2 DEF MainWaits
    <2>2. QED
      BY <1>4, <1>5, <1>6, <1>7, <2>1, KeptByMain
  <1>9. MainInv'
    <2>1. CASE j = NThreads
      <3>1. held' = {} /\ HeldNow' = {}
        BY <1>2, <1>3, <2>1 DEF HeldNow
      <3>2. QED
        BY <1>2, <1>3, <2>1, <3>1, MainKnows, ThreadBasics DEF MainInv, Starting, InLine
    <2>2. CASE j # NThreads
      <3>1. j + 1 \in Threads /\ held' = j + 1 .. NThreads
        BY <1>2, <1>3, <2>2
      <3>2. HeldNow' = j + 1 .. NThreads
        BY <1>2, <2>2 DEF HeldNow
      <3>3. QED
        BY <1>2, <1>3, <2>2, <3>1, <3>2, MainKnows DEF MainInv, Starting, InLine
    <2>3. QED
      BY <2>1, <2>2
  <1>10. Types'
    BY <1>2, <1>3, ThreadBasics DEF Types, threads, history, conds
  <1>11. QED
    BY <1>8, <1>9, <1>10 DEF IInv

LEMMA BeginLineStep ==
  ASSUME IInv, prog' = prog, BeginLine
  PROVE  IInv'
  <1>1. /\ mpc = "line" /\ i' = 1 /\ line' = line
        /\ mpc' = IF line \in DOMAIN prog.schedule THEN "run" ELSE "kill"
        /\ UNCHANGED <<used_by_tape, usage_unknown, pos, tinfo, held, conds, threads,
                       failed, history>>
    BY DEF BeginLine
  <1>2. \A s \in Threads : Same(s)
    BY <1>1, ThreadBasics DEF Same, history, threads, conds
  <1>3. \A s \in Threads : ~ Busy(s)
    BY <1>1, NobodyBusy DEF InLine
  <1>4. \A s \in Threads : ~ New(s) /\ (Idle(s) => Idle(s)') /\ ~ Ended(s)
    <2> TAKE s \in Threads
    <2>1. s \in Nat \ {0}
      BY ThreadBasics
    <2>2. ~ Killed(s)'
      BY <1>1, <2>1 DEF Killed, Ending
    <2>3. QED
      BY <1>1, <2>2 DEF New, Idle, Ended, Killed, Starting, Ending, threads
  <1>5. UNCHANGED <<tpc, program, pc>>
    BY <1>1 DEF threads
  <1>6. \A s \in Threads : ThreadInv(s)'
    <2> TAKE s \in Threads
    <2>1. MainWaits(s)' <=> MainWaits(s)
      BY <1>1 DEF MainWaits
    <2>2. QED
      BY <1>2, <1>3, <1>4, <1>5, <2>1, KeptByMain
  <1>7. MainInv'
    <2>1. held' = {} /\ HeldNow' = {}
      BY <1>1, MainKnows DEF HeldNow
    <2>2. line \in DOMAIN prog.schedule => numt \in Threads
      BY LineKnows
    <2>3. line \in DOMAIN prog.schedule => 1 <= numt' /\ numt' = numt
      BY <1>1, <2>2, ThreadBasics DEF numt
    <2>4. QED
      BY <1>1, <2>1, <2>3, MainKnows, ThreadBasics DEF MainInv, InLine, Ending
  <1>8. Types'
    BY <1>1, ThreadBasics DEF Types, threads, history, conds
  <1>9. QED
    BY <1>6, <1>7, <1>8 DEF IInv

LEMMA EndLineStep ==
  ASSUME IInv, prog' = prog, EndLine
  PROVE  IInv'
  <1>1. /\ mpc = "joined" /\ mpc' = "line" /\ line' = line + 1 /\ i' = i
        /\ pos' \in {pos, tinfo[1].pos}
        /\ UNCHANGED <<used_by_tape, tinfo, held, conds, threads, failed, history>>
    BY DEF EndLine
  <1>2. \A s \in Threads : Same(s)
    BY <1>1, ThreadBasics DEF Same, history, threads, conds
  <1>3. \A s \in Threads : ~ Busy(s)
    BY <1>1, NobodyBusy DEF InLine
  <1>4. \A s \in Threads : ~ New(s) /\ (Idle(s) => Idle(s)') /\ ~ Ended(s)
    BY <1>1 DEF New, Idle, Ended, Killed, Starting, Ending, threads
  <1>5. UNCHANGED <<tpc, program, pc>>
    BY <1>1 DEF threads
  <1>6. \A s \in Threads : ThreadInv(s)'
    <2> TAKE s \in Threads
    <2>1. MainWaits(s)' <=> MainWaits(s)
      BY <1>1 DEF MainWaits
    <2>2. QED
      BY <1>2, <1>3, <1>4, <1>5, <2>1, KeptByMain
  <1>7. MainInv'
    <2>1. held' = {} /\ HeldNow' = {}
      BY <1>1, MainKnows DEF HeldNow
    <2>2. pos' \in Nat
      BY <1>1, MainKnows, ThreadBasics, SMTT(30) DEF Info
    <2>3. QED
      BY <1>1, <2>1, <2>2, MainKnows DEF MainInv, InLine, Ending
  <1>8. Types'
    BY <1>1, ThreadBasics DEF Types, threads, history, conds
  <1>9. QED
    BY <1>6, <1>7, <1>8 DEF IInv

(* While the main thread starts tapes, none of them starts or joins others. *)
LEMMA NotNestedYet ==
  ASSUME IInv, mpc = "run"
  PROVE  /\ \A s \in Threads : ~ TapeHas(s)
         /\ tpc[1] # "joining"
  <1>1. \A s : ~ TapeHas(s)
    BY TapeHasKnows
  <1>2. ASSUME tpc[1] = "joining"
        PROVE  FALSE
    <2>1. 1 \in Threads /\ tpc[1] \in Executing
      BY <1>2, ThreadBasics DEF Executing
    <2>2. pc[1] \in DOMAIN Code(1) /\ Instruction(1).op = "join"
      BY <1>2, <2>1, ExecutingKnows
    <2>3. TapeHas(Instruction(1).thread)
      BY <2>1, <2>2, JoiningKnows
    <2>4. QED
      BY <1>1, <2>3
  <1>3. QED
    BY <1>1, <1>2

LEMMA RunTapeStep ==
  ASSUME IInv, prog' = prog, RunTape
  PROVE  IInv'
  <1>1. PICK j, n, a : j = i /\ n = prog.schedule[line][j].tape /\ a = prog.schedule[line][j].arg
    OBVIOUS
  <1>2. /\ mpc = "run" /\ i = j /\ i' = j /\ mpc' = "increase" /\ line' = line
        /\ HandOver(j, n, a)
        /\ used_by_tape' = Returned(n)
        /\ failed' = (Tape(n).unknown /\ numt > 1)
        /\ UNCHANGED <<pos, held, client_ready, threads, reads, began, log>>
    <2>1. HandOver(j, n, a)
      BY <1>1 DEF RunTape, HandOver, Signal
    <2>2. QED
      BY <1>1, <2>1 DEF RunTape
  <1>3. /\ j \in Threads /\ j \in Nat \ {0} /\ line \in DOMAIN prog.schedule /\ numt \in Nat
        /\ j <= numt /\ held = {} /\ prog \in Programs
    BY <1>2, MainKnows, LineKnows, ThreadBasics DEF InLine, HeldNow
  <1>4. n \in DOMAIN prog.tapes /\ a \in Nat /\ n \in Nat \ {0}
    <2>1. j \in 1 .. Len(prog.schedule[line])
      BY <1>3 DEF numt
    <2>2. n \in DOMAIN prog.tapes /\ a \in Nat
      BY <1>1, <1>3, <2>1, LineFacts
    <2>3. QED
      BY <1>3, <2>2, ProgramFacts
  <1>5. Returned(n) \in Nat /\ Tape(n).unknown \in BOOLEAN
    BY <1>3, <1>4, TapeFacts
  <1>6. /\ tinfo' \in [Threads -> Info] /\ tinfo'[j].prognum = n /\ tinfo'[j].arg = a
        /\ tinfo'[j].pos = pos /\ ~ tinfo'[j].finished /\ tinfo'[j].ready = tinfo[j].ready
        /\ DOMAIN asked' = Threads /\ asked'[j] \in Work
        /\ asked'[j].tape = n /\ asked'[j].arg = a /\ asked'[j].pos = pos
        /\ DOMAIN server_ready' = Threads /\ server_ready'[j] = {}
        /\ \A s \in Threads \ {j} : /\ tinfo'[s] = tinfo[s] /\ asked'[s] = asked[s]
                                   /\ server_ready'[s] = server_ready[s]
    BY <1>2, <1>3, <1>4, Offering
  <1>7. \A s \in Threads \ {j} : Same(s)
    BY <1>2, <1>6 DEF Same, threads
  <1>8. tpc[1] # "joining" /\ \A s \in Threads : ~ TapeHas(s)
    BY <1>2, NotNestedYet
  <1>9. UNCHANGED <<tpc, program, pc>>
    BY <1>2 DEF threads
  <1>10. Idle(j)
    <2>1. ~ MainHas(j)
      BY <1>2, <1>3 DEF MainHas
    <2>2. QED
      BY <1>2, <1>3, <1>8, <2>1, IdleInLine DEF Busy, InLine
  <1>11. \A s \in Threads \ {j} : ThreadInv(s)'
    <2> TAKE s \in Threads \ {j}
    <2>1. s \in Nat
      BY ThreadBasics
    <2>2. MainHas(s)' <=> MainHas(s)
      BY <1>2, <1>3, <2>1 DEF MainHas
    <2>3. MainWaits(s)' <=> MainWaits(s)
      BY <1>2 DEF MainWaits
    <2>4. ~ New(s) /\ (Idle(s) => Idle(s)') /\ ~ Ended(s)
      BY <1>2, <1>7 DEF New, Idle, Ended, Killed, Starting, Ending, Same
    <2>5. QED
      BY <1>2, <1>7, <1>9, <2>2, <2>3, <2>4, KeptByMain
  <1>12. ThreadInv(j)'
    <2>1. client_ready[j] = ClientWaits(j)
      BY <1>3 DEF IInv, ThreadInv
    <2>2. ClientWaits(j) = {} /\ ClientWaits(j)' = {}
      BY <1>2, <1>8, <1>9 DEF ClientWaits, MainWaits, TapeWaits
    <2>3. ServerWaits(j)' = {}
      BY <1>4, <1>6, <1>9, <1>10 DEF ServerWaits, Idle
    <2>4. MainHas(j)'
      BY <1>2, <1>3 DEF MainHas
    <2>5. Assigned(j)'
      BY <1>1, <1>2, <1>4, <1>6, <2>4 DEF Assigned
    <2>6. Offered(j)'
      BY <1>6, <1>9, <1>10 DEF Offered, Idle
    <2>7. Busy(j)'
      BY <1>6, <1>10, <2>4, <2>5, <2>6 DEF Busy, Idle
    <2>8. QED
      BY <1>2, <1>6, <2>1, <2>2, <2>3, <2>7 DEF ThreadInv
  <1>13. MainInv'
    <2>1. HeldNow' = {} /\ numt' = numt /\ Returned(n)' = Returned(n)
      BY <1>2 DEF HeldNow, numt, Returned, Tape
    <2>2. prog'.schedule[line'][i'].tape = n
      BY <1>1, <1>2
    <2>3. used_by_tape' \in Nat /\ used_by_tape' = Returned(prog.schedule[line][i].tape)'
      BY <1>2, <1>5, <2>2 DEF Returned, Tape
    <2>4. QED
      BY <1>2, <1>3, <2>1, <2>3, MainKnows DEF MainInv, InLine
  <1>14. Types'
    <2>1. failed' \in BOOLEAN /\ usage' \in [Threads -> Nat]
      BY <1>2, <1>5, ThreadBasics DEF threads
    <2>2. QED
      BY <1>2, <1>6, <2>1, ThreadBasics DEF Types, threads
  <1>15. QED
    BY <1>11, <1>12, <1>13, <1>14 DEF IInv

LEMMA IncreasePositionStep ==
  ASSUME IInv, prog' = prog, IncreasePosition
  PROVE  IInv'
  <1>1. PICK j : j = i
    OBVIOUS
  <1>2. /\ mpc = "increase" /\ i = j /\ line' = line /\ pos' = pos + used_by_tape
        /\ IF j = numt THEN mpc' = "join" /\ i' = 1 ELSE mpc' = "run" /\ i' = j + 1
        /\ UNCHANGED <<used_by_tape, tinfo, held, conds, threads, failed, history>>
    BY <1>1 DEF IncreasePosition
  <1>3. /\ j \in Threads /\ j \in Nat \ {0} /\ line \in DOMAIN prog.schedule /\ numt \in Threads
        /\ numt \in Nat /\ j <= numt /\ held = {} /\ Threads = 1 .. NThreads /\ NThreads \in Nat
    BY <1>2, MainKnows, LineKnows, ThreadBasics DEF InLine, HeldNow
  <1>4. \A s \in Threads : Same(s)
    BY <1>2, ThreadBasics DEF Same, history, threads, conds
  <1>5. UNCHANGED <<tpc, program, pc>> /\ mpc' \in {"join", "run"} /\ numt' = numt
    BY <1>2 DEF threads, numt
  <1>6. \A s \in Threads : ThreadInv(s)'
    <2> TAKE s \in Threads
    <2>1. s \in Nat \ {0}
      BY ThreadBasics
    <2>2. MainHas(s)' <=> MainHas(s)
      <3>1. CASE j = numt
        BY <1>2, <1>3, <1>5, <2>1, <3>1 DEF MainHas
      <3>2. CASE j # numt
        BY <1>2, <1>3, <1>5, <2>1, <3>2 DEF MainHas
      <3>3. QED
        BY <3>1, <3>2
    <2>3. MainWaits(s)' <=> MainWaits(s)
      BY <1>2, <1>5 DEF MainWaits
    <2>4. ~ New(s) /\ (Idle(s) => Idle(s)') /\ ~ Ended(s)
      BY <1>2, <1>4, <1>5 DEF New, Idle, Ended, Killed, Starting, Ending, Same
    <2>5. QED
      BY <1>2, <1>4, <1>5, <2>2, <2>3, <2>4, KeptByMain
  <1>7. MainInv'
    <2>1. HeldNow' = {} /\ held' = {}
      BY <1>2, <1>3, <1>5 DEF HeldNow
    <2>2. pos' \in Nat
      BY <1>2, MainKnows
    <2>3. i' \in Threads /\ i' <= numt'
      BY <1>2, <1>3, <1>5
    <2>4. QED
      BY <1>2, <1>3, <1>5, <2>1, <2>2, <2>3, MainKnows DEF MainInv, InLine
  <1>8. Types'
    BY <1>2, ThreadBasics DEF Types, threads, history, conds
  <1>9. QED
    BY <1>6, <1>7, <1>8 DEF IInv

LEMMA JoinWaitStep ==
  ASSUME IInv, prog' = prog, JoinWait
  PROVE  IInv'
  <1>1. PICK j : j = i
    OBVIOUS
  <1>2. /\ mpc = "join" /\ ~ tinfo[j].finished /\ i = j /\ i' = j /\ mpc' = "joining" /\ line' = line
        /\ client_ready' = [client_ready EXCEPT ![j] = @ \cup {Main}]
        /\ UNCHANGED <<used_by_tape, pos, tinfo, held, server_ready, threads, failed, history>>
    BY <1>1 DEF JoinWait, Wait
  <1>3. j \in Threads /\ line \in DOMAIN prog.schedule /\ j <= numt /\ held = {} /\ numt' = numt
    BY <1>2, MainKnows DEF InLine, HeldNow, numt
  <1>4. \A s \in Threads \ {j} : Same(s)
    BY <1>2, <1>3, ThreadBasics DEF Same, history, threads
  <1>5. UNCHANGED <<tpc, program, pc>>
    BY <1>2 DEF threads
  <1>6. \A s : MainHas(s)' <=> MainHas(s)
    BY <1>2, <1>3 DEF MainHas
  <1>7. \A s \in Threads : ~ New(s) /\ (Idle(s) => Idle(s)') /\ ~ Ended(s)
    BY <1>2, <1>5 DEF New, Idle, Ended, Killed, Starting, Ending
  <1>8. \A s \in Threads \ {j} : ThreadInv(s)'
    <2> TAKE s \in Threads \ {j}
    <2>1. MainWaits(s)' <=> MainWaits(s)
      BY <1>2 DEF MainWaits
    <2>2. QED
      BY <1>2, <1>4, <1>5, <1>6, <1>7, <2>1, KeptByMain
  <1>9. ThreadInv(j)'
    <2>1. client_ready[j] = ClientWaits(j) /\ server_ready[j] = ServerWaits(j)
      BY <1>3 DEF IInv, ThreadInv
    <2>2. ~ TapeWaits(j)
      <3>1. SUFFICES ASSUME TapeWaits(j) PROVE FALSE
        OBVIOUS
      <3>2. 1 \in Threads /\ tpc[1] \in Executing /\ tpc[1] = "joining"
        BY <3>1, ThreadBasics DEF TapeWaits, Executing
      <3>3. pc[1] \in DOMAIN Code(1) /\ Instruction(1).op = "join"
        BY <3>2, ExecutingKnows
      <3>4. TapeHas(j)
        BY <3>1, <3>2, <3>3, JoiningKnows DEF TapeWaits
      <3>5. QED
        BY <1>2, <3>4, TapeHasKnows
    <2>3. client_ready'[j] = {Main}
      BY <1>2, <1>3, <2>1, <2>2, ThreadBasics DEF ClientWaits, MainWaits
    <2>4. ClientWaits(j)' = {Main}
      BY <1>2 DEF ClientWaits, MainWaits
    <2>5. ServerWaits(j)' = ServerWaits(j) /\ server_ready'[j] = server_ready[j]
      BY <1>2, <1>5 DEF ServerWaits
    <2>6. Busy(j)
      BY <1>2, <1>3, IdleInLine DEF Idle, InLine
    <2>7. TapeHas(j)' <=> TapeHas(j)
      BY <1>5 DEF TapeHas, Tape
    <2>8. Assigned(j)'
      BY <1>2, <1>5, <1>6, <2>6 DEF Busy, Assigned, history
    <2>9. Offered(j) => Offered(j)'
      BY <1>2, <1>5 DEF Offered, history
    <2>10. Taken(j) => Taken(j)'
      BY <1>2, <1>5 DEF Taken, history, threads, Code, Tape, Instruction
    <2>11. Busy(j)'
      BY <1>2, <1>6, <2>6, <2>7, <2>8, <2>9, <2>10 DEF Busy
    <2>12. QED
      BY <2>1, <2>3, <2>4, <2>5, <2>11 DEF ThreadInv
  <1>10. MainInv'
    <2>1. HeldNow' = {} /\ held' = {}
      BY <1>2, <1>3 DEF HeldNow
    <2>2. QED
      BY <1>2, <1>3, <2>1, MainKnows DEF MainInv, InLine
  <1>11. Types'
    BY <1>2, <1>3, ThreadBasics DEF Types, threads, history
  <1>12. QED
    BY <1>8, <1>9, <1>10, <1>11 DEF IInv

LEMMA JoinTapeStep ==
  ASSUME IInv, prog' = prog, ~ failed, JoinTape
  PROVE  IInv'
  <1>1. PICK j : j = i
    OBVIOUS
  <1>2. /\ mpc \in {"join", "joining"} /\ i = j /\ line' = line
        /\ (mpc = "join" /\ tinfo[j].finished) \/ (mpc = "joining" /\ Main \notin client_ready[j])
        /\ IF j = numt THEN mpc' = "joined" /\ i' = 1 ELSE mpc' = "join" /\ i' = j + 1
        /\ UNCHANGED <<used_by_tape, pos, tinfo, held, conds, threads, failed, history>>
    BY <1>1 DEF JoinTape, Joined
  <1>3. /\ j \in Threads /\ j \in Nat \ {0} /\ line \in DOMAIN prog.schedule /\ numt \in Threads
        /\ numt \in Nat /\ j <= numt /\ held = {} /\ Threads = 1 .. NThreads /\ NThreads \in Nat
    BY <1>2, MainKnows, LineKnows, ThreadBasics DEF InLine, HeldNow
  <1>4. \A s \in Threads : Same(s)
    BY <1>2, ThreadBasics DEF Same, history, threads, conds
  <1>5. UNCHANGED <<tpc, program, pc>> /\ mpc' \in {"join", "joined"} /\ numt' = numt
    BY <1>2 DEF threads, numt
  <1>6. tinfo[j].finished
    BY <1>2, <1>3 DEF IInv, ThreadInv, ClientWaits, MainWaits
  <1>7. ~ Busy(j)
    BY <1>6 DEF Busy
  <1>8. \A s : ~ TapeHas(s)
    <2>1. SUFFICES ASSUME NEW s, TapeHas(s) PROVE FALSE
      OBVIOUS
    <2>2. 1 \in Threads /\ tpc[1] \in Executing
      BY <2>1, ThreadBasics DEF TapeHas
    <2>3. Busy(1) /\ j = 1
      BY <1>2, <2>1, <2>2, ExecutingKnows, TapeHasKnows
    <2>4. QED
      BY <1>7, <2>3
  <1>9. \A s \in Threads : ThreadInv(s)'
    <2> TAKE s \in Threads
    <2>1. s \in Nat \ {0}
      BY ThreadBasics
    <2>2. ASSUME Busy(s)
          PROVE  MainHas(s)' <=> MainHas(s)
      <3>1. s # j /\ j <= s /\ s <= numt
        BY <1>2, <1>7, <1>8, <2>2 DEF Busy, MainHas
      <3>2. j # numt /\ j + 1 <= s
        BY <1>3, <2>1, <3>1
      <3>3. QED
        BY <1>2, <1>5, <3>1, <3>2 DEF MainHas
    <2>3. MainWaits(s)' <=> MainWaits(s)
      BY <1>2, <1>5, <1>6 DEF MainWaits
    <2>4. ~ New(s) /\ (Idle(s) => Idle(s)') /\ ~ Ended(s)
      BY <1>2, <1>4, <1>5 DEF New, Idle, Ended, Killed, Starting, Ending, Same
    <2>5. QED
      BY <1>2, <1>4, <1>5, <2>2, <2>3, <2>4, KeptByMain
  <1>10. MainInv'
    <2>1. HeldNow' = {} /\ held' = {}
      BY <1>2, <1>3, <1>5 DEF HeldNow
    <2>2. i' \in Threads /\ (mpc' \in InLine => i' <= numt')
      BY <1>2, <1>3, <1>5 DEF InLine
    <2>3. QED
      BY <1>2, <1>3, <1>5, <2>1, <2>2, MainKnows DEF MainInv, InLine
  <1>11. Types'
    BY <1>2, ThreadBasics DEF Types, threads, history, conds
  <1>12. QED
    BY <1>9, <1>10, <1>11 DEF IInv

LEMMA KillStep ==
  ASSUME IInv, prog' = prog, Kill
  PROVE  IInv'
  <1>1. PICK j, r : j = i /\ r = [tinfo[j] EXCEPT !.prognum = -1, !.ready = FALSE]
    OBVIOUS
  <1>2. /\ mpc = "kill" /\ i = j /\ tinfo' = [tinfo EXCEPT ![j] = r] /\ Signal(server_ready, j)
        /\ IF j = NThreads THEN mpc' = "release" /\ i' = 1 ELSE i' = j + 1 /\ mpc' = "kill"
        /\ UNCHANGED <<line, used_by_tape, pos, held, client_ready, threads, failed, history>>
    <2>1. Signal(server_ready, j)
      BY <1>1 DEF Kill
    <2>2. QED
      BY <1>1, <2>1 DEF Kill
  <1>3. /\ j \in Threads /\ j \in 1 .. NThreads /\ held = {} /\ NThreads \in Nat
        /\ Threads = 1 .. NThreads /\ mpc' \in {"kill", "release"}
    BY <1>2, MainKnows, ThreadBasics DEF HeldNow
  <1>4. /\ tinfo' \in [Threads -> Info] /\ tinfo'[j] = r /\ r.prognum = -1 /\ ~ r.ready
        /\ r.finished = tinfo[j].finished
    <2>1. r \in Info
      BY <1>1, <1>3, InfoFacts
    <2>2. tinfo' \in [Threads -> Info] /\ tinfo'[j] = r
      BY <1>2, <1>3, <2>1, NewInfo
    <2>3. tinfo[j] \in Info
      BY <1>3, ThreadBasics
    <2>4. r.prognum = -1 /\ ~ r.ready /\ r.finished = tinfo[j].finished
      BY <1>1, <2>3 DEF Info
    <2>5. QED
      BY <2>2, <2>4
  <1>5. /\ DOMAIN server_ready' = Threads /\ server_ready'[j] = {}
        /\ \A s \in Threads \ {j} : server_ready'[s] = server_ready[s]
    BY <1>2, <1>3, SignalledServer
  <1>6. \A s \in Threads \ {j} : Same(s)
    BY <1>2, <1>5, ThreadBasics DEF Same, history, threads
  <1>7. UNCHANGED <<tpc, program, pc>>
    BY <1>2 DEF threads
  <1>8. \A s \in Threads : ~ Busy(s) /\ ~ New(s) /\ (Idle(s) \/ Ended(s)) /\ tpc[1] \notin Executing
    BY <1>2, NobodyBusy DEF New, InLine, Starting
  <1>9. \A s \in Threads : Killed(s)' <=> s = j \/ Killed(s)
    <2> TAKE s \in Threads
    <2>1. s \in 1 .. NThreads
      BY <1>3
    <2>2. CASE j = NThreads
      BY <1>2, <1>3, <2>1, <2>2 DEF Killed, Ending
    <2>3. CASE j # NThreads
      BY <1>2, <1>3, <2>1, <2>3 DEF Killed, Ending
    <2>4. QED
      BY <2>2, <2>3
  <1>10. \A s \in Threads : ~ Released(s) /\ ~ Released(s)'
    <2> TAKE s \in Threads
    <2>1. s \in 1 .. NThreads
      BY <1>3
    <2>2. QED
      BY <1>2, <2>1 DEF Released
  <1>11. \A s \in Threads \ {j} : ThreadInv(s)'
    <2> TAKE s \in Threads \ {j}
    <2>1. MainWaits(s)' <=> MainWaits(s)
      BY <1>2, <1>3 DEF MainWaits
    <2>2. Idle(s) => Idle(s)'
      BY <1>3, <1>6, <1>9 DEF Idle, Same, Starting
    <2>3. Ended(s) => Ended(s)'
      BY <1>6, <1>9, <1>10 DEF Ended, Same
    <2>4. QED
      BY <1>6, <1>7, <1>8, <2>1, <2>2, <2>3, KeptByMain
  <1>12. ThreadInv(j)'
    <2>1. client_ready[j] = ClientWaits(j)
      BY <1>3 DEF IInv, ThreadInv
    <2>2. ClientWaits(j) = {} /\ ClientWaits(j)' = {}
      BY <1>2, <1>3, <1>7, <1>8 DEF ClientWaits, MainWaits, TapeWaits, Executing
    <2>3. ~ Ended(j)
      BY <1>2, <1>3 DEF Ended, Killed
    <2>4. Idle(j)
      BY <1>3, <1>8, <2>3
    <2>5. ServerWaits(j)' = {}
      BY <1>4, <1>7, <2>4 DEF ServerWaits, Idle
    <2>6. Ended(j)'
      BY <1>3, <1>4, <1>7, <1>9, <1>10, <2>4 DEF Ended, Idle
    <2>7. QED
      BY <1>2, <1>5, <2>1, <2>2, <2>5, <2>6 DEF ThreadInv
  <1>13. MainInv'
    <2>1. HeldNow' = {} /\ held' = {} /\ ~ failed
      BY <1>2, <1>3, MainKnows DEF HeldNow, InLine
    <2>2. i' \in Threads
      BY <1>2, <1>3
    <2>3. QED
      BY <1>2, <1>3, <2>1, <2>2, MainKnows DEF MainInv, InLine, Ending
  <1>14. Types'
    BY <1>2, <1>4, <1>5, ThreadBasics DEF Types, threads, history
  <1>15. QED
    BY <1>11, <1>12, <1>13, <1>14 DEF IInv

LEMMA ReleaseStep ==
  ASSUME IInv, prog' = prog, Release
  PROVE  IInv'
  <1>1. PICK j, r : j = i /\ r = [tinfo[j] EXCEPT !.ready = TRUE]
    OBVIOUS
  <1>2. /\ mpc = "release" /\ i = j /\ i' = j /\ mpc' = "exit"
        /\ tinfo' = [tinfo EXCEPT ![j] = r] /\ Signal(server_ready, j)
        /\ UNCHANGED <<line, used_by_tape, pos, held, client_ready, threads, failed, history>>
    <2>1. Signal(server_ready, j)
      BY <1>1 DEF Release
    <2>2. QED
      BY <1>1, <2>1 DEF Release
  <1>3. /\ j \in Threads /\ j \in 1 .. NThreads /\ held = {} /\ NThreads \in Nat
        /\ Threads = 1 .. NThreads
    BY <1>2, MainKnows, ThreadBasics DEF HeldNow
  <1>4. /\ tinfo' \in [Threads -> Info] /\ tinfo'[j] = r /\ r.prognum = tinfo[j].prognum /\ r.ready
        /\ r.finished = tinfo[j].finished
    <2>1. r \in Info
      BY <1>1, <1>3, InfoFacts
    <2>2. tinfo' \in [Threads -> Info] /\ tinfo'[j] = r
      BY <1>2, <1>3, <2>1, NewInfo
    <2>3. tinfo[j] \in Info
      BY <1>3, ThreadBasics
    <2>4. r.prognum = tinfo[j].prognum /\ r.ready /\ r.finished = tinfo[j].finished
      BY <1>1, <2>3 DEF Info
    <2>5. QED
      BY <2>2, <2>4
  <1>5. /\ DOMAIN server_ready' = Threads /\ server_ready'[j] = {}
        /\ \A s \in Threads \ {j} : server_ready'[s] = server_ready[s]
    BY <1>2, <1>3, SignalledServer
  <1>6. \A s \in Threads \ {j} : Same(s)
    BY <1>2, <1>5, ThreadBasics DEF Same, history, threads
  <1>7. UNCHANGED <<tpc, program, pc>>
    BY <1>2 DEF threads
  <1>8. \A s \in Threads : Killed(s) /\ Killed(s)'
    BY <1>2 DEF Killed, Ending
  <1>9. \A s \in Threads : Ended(s) /\ ~ Busy(s) /\ ~ New(s) /\ ~ Idle(s) /\ tpc[1] \notin Executing
    BY <1>2, <1>8, NobodyBusy DEF New, Idle, InLine, Starting
  <1>10. \A s \in Threads : Released(s)' <=> s = j \/ Released(s)
    <2> TAKE s \in Threads
    <2>1. s \in 1 .. NThreads
      BY <1>3
    <2>2. QED
      BY <1>2, <1>3, <2>1 DEF Released
  <1>11. \A s \in Threads \ {j} : ThreadInv(s)'
    <2> TAKE s \in Threads \ {j}
    <2>1. MainWaits(s)' <=> MainWaits(s)
      BY <1>2 DEF MainWaits
    <2>2. Ended(s) => Ended(s)'
      BY <1>6, <1>8, <1>10 DEF Ended, Same
    <2>3. QED
      BY <1>6, <1>7, <1>9, <2>1, <2>2, KeptByMain
  <1>12. ThreadInv(j)'
    <2>1. client_ready[j] = ClientWaits(j)
      BY <1>3 DEF IInv, ThreadInv
    <2>2. ClientWaits(j) = {} /\ ClientWaits(j)' = {}
      BY <1>2, <1>3, <1>7, <1>9 DEF ClientWaits, MainWaits, TapeWaits, Executing
    <2>3. Ended(j)
      BY <1>3, <1>9
    <2>4. ServerWaits(j)' = {}
      BY <1>4, <1>7, <2>3 DEF ServerWaits, Ended
    <2>5. Ended(j)'
      BY <1>3, <1>4, <1>7, <1>8, <1>10, <2>3 DEF Ended
    <2>6. QED
      BY <1>2, <1>5, <2>1, <2>2, <2>4, <2>5 DEF ThreadInv
  <1>13. MainInv'
    <2>1. HeldNow' = {} /\ held' = {} /\ ~ failed
      BY <1>2, <1>3, MainKnows DEF HeldNow, InLine
    <2>2. QED
      BY <1>2, <1>3, <2>1, MainKnows DEF MainInv, InLine, Ending
  <1>14. Types'
    BY <1>2, <1>4, <1>5, ThreadBasics DEF Types, threads, history
  <1>15. QED
    BY <1>11, <1>12, <1>13, <1>14 DEF IInv

LEMMA ThreadGoneStep ==
  ASSUME IInv, prog' = prog, ThreadGone
  PROVE  IInv'
  <1>1. PICK j : j = i
    OBVIOUS
  <1>2. /\ mpc = "exit" /\ i = j
        /\ IF j = NThreads THEN mpc' = "done" /\ i' = j ELSE mpc' = "release" /\ i' = j + 1
        /\ UNCHANGED <<line, used_by_tape, pos, tinfo, held, conds, threads, failed, history>>
    BY <1>1 DEF ThreadGone
  <1>3. /\ j \in Threads /\ j \in 1 .. NThreads /\ held = {} /\ NThreads \in Nat
        /\ Threads = 1 .. NThreads /\ mpc' \in {"done", "release"}
    BY <1>2, MainKnows, ThreadBasics DEF HeldNow
  <1>4. \A s \in Threads : Same(s)
    BY <1>2, ThreadBasics DEF Same, history, threads, conds
  <1>5. UNCHANGED <<tpc, program, pc>>
    BY <1>2 DEF threads
  <1>6. \A s \in Threads : Killed(s) /\ Killed(s)'
    BY <1>2, <1>3 DEF Killed, Ending
  <1>7. \A s \in Threads : ~ Busy(s) /\ ~ New(s) /\ ~ Idle(s)
    BY <1>2, <1>6, NobodyBusy DEF New, Idle, InLine, Starting
  <1>8. \A s \in Threads : Released(s)' <=> Released(s)
    <2> TAKE s \in Threads
    <2>1. s \in 1 .. NThreads
      BY <1>3
    <2>2. CASE j = NThreads
      BY <1>2, <1>3, <2>1, <2>2 DEF Released
    <2>3. CASE j # NThreads
      BY <1>2, <1>3, <2>1, <2>3 DEF Released
    <2>4. QED
      BY <2>2, <2>3
  <1>9. \A s \in Threads : ThreadInv(s)'
    <2> TAKE s \in Threads
    <2>1. MainWaits(s)' <=> MainWaits(s)
      BY <1>2, <1>3 DEF MainWaits
    <2>2. Ended(s) => Ended(s)'
      BY <1>4, <1>6, <1>8 DEF Ended, Same
    <2>3. QED
      BY <1>4, <1>5, <1>7, <2>1, <2>2, KeptByMain
  <1>10. MainInv'
    <2>1. HeldNow' = {} /\ held' = {} /\ ~ failed
      BY <1>2, <1>3, MainKnows DEF HeldNow, InLine
    <2>2. i' \in Threads
      BY <1>2, <1>3
    <2>3. QED
      BY <1>2, <1>3, <2>1, <2>2, MainKnows DEF MainInv, InLine, Ending
  <1>11. Types'
    BY <1>2, ThreadBasics DEF Types, threads, history, conds
  <1>12. QED
    BY <1>9, <1>10, <1>11 DEF IInv

LEMMA MainStep ==
  ASSUME IInv, MainNext
  PROVE  IInv'
  BY SyncWaitStep, SyncWokenStep, SyncDoneStep, BeginLineStep, RunTapeStep, IncreasePositionStep,
     JoinWaitStep, JoinTapeStep, EndLineStep, KillStep, ReleaseStep, ThreadGoneStep
     DEF MainNext

-----------------------------------------------------------------------------
LEMMA Initially == Init => IInv
  <1>1. SUFFICES ASSUME Init PROVE IInv
    OBVIOUS
  <1>2. prog \in Programs /\ 1 \in Threads /\ NThreads \in Nat /\ Threads = 1 .. NThreads
    BY <1>1, ProgramFacts DEF Init, Threads
  <1>3. /\ mpc = "sync" /\ line = 1 /\ i = 1 /\ held = Threads /\ failed = FALSE
        /\ tinfo = [t \in Threads |-> [prognum |-> -2, arg |-> 0, pos |-> 0,
                                       finished |-> TRUE, ready |-> FALSE]]
        /\ client_ready = [t \in Threads |-> {}] /\ server_ready = [t \in Threads |-> {}]
        /\ tpc = [t \in Threads |-> "start"]
    BY <1>1 DEF Init
  <1>4. Types
    <2>1. tinfo \in [Threads -> Info]
      BY <1>3 DEF Info
    <2>2. usage \in [Threads -> Nat]
      BY <1>1 DEF Init
    <2>3. QED
      BY <1>1, <2>1, <2>2 DEF Init, Types
  <1>5. MainInv
    BY <1>1, <1>2, <1>3 DEF Init, MainInv, Starting, InLine, HeldNow
  <1>6. ASSUME NEW t \in Threads
        PROVE  ThreadInv(t)
    <2>1. /\ tpc[t] = "start" /\ tpc[1] = "start" /\ tinfo[t].prognum = -2 /\ tinfo[t].finished
          /\ ~ tinfo[t].ready /\ client_ready[t] = {} /\ server_ready[t] = {}
      BY <1>2, <1>3
    <2>2. New(t)
      BY <1>2, <1>3, <2>1 DEF New, Starting
    <2>3. ClientWaits(t) = {} /\ ServerWaits(t) = {}
      BY <1>3, <2>1 DEF ClientWaits, MainWaits, TapeWaits, ServerWaits
    <2>4. QED
      BY <2>1, <2>2, <2>3 DEF ThreadInv
  <1>7. QED
    BY <1>4, <1>5, <1>6 DEF IInv

LEMMA Stuttering ==
  ASSUME IInv, UNCHANGED vars
  PROVE  IInv'
  <1>1. /\ SameMain /\ held' = held /\ UNCHANGED <<prog, main, tinfo, held, conds, threads, failed, history>>
        /\ UNCHANGED <<tpc, program, pc>>
    BY DEF vars, SameMain, main, threads
  <1>2. \A s \in Threads : Same(s)
    BY <1>1 DEF Same, threads, conds, history
  <1>3. \A s \in Threads : ThreadInv(s)'
    <2> TAKE s \in Threads
    <2>1. TapeHas(s)' <=> TapeHas(s)
      BY <1>1 DEF TapeHas, Tape, SameMain
    <2>2. TapeWaits(s)' <=> TapeWaits(s)
      BY <1>1 DEF TapeWaits, Tape, SameMain, Instruction, Code
    <2>3. QED
      BY <1>1, <1>2, <2>1, <2>2, SameThread DEF IInv
  <1>4. Types'
    BY <1>1, ThreadBasics DEF Types, threads, history, conds
  <1>5. failed' => mpc \in InLine
    BY <1>1, ThreadBasics
  <1>6. QED
    BY <1>1, <1>3, <1>4, <1>5, MainStays

(* The invariant holds in every reachable state, of any number of threads   *)
(* and any well-formed programs.                                            *)
THEOREM Invariance == Spec => []IInv
  <1>1. Init => IInv
    BY Initially
  <1>2. IInv /\ [Next]_vars => IInv'
    BY MainStep, ThreadStep, Stuttering DEF Next
  <1>3. QED
    BY <1>1, <1>2, PTL DEF Spec

(* Machine.cpp and Online-Thread.cpp test what they wait for with an if and *)
(* not in a loop: whoever is woken, the main thread, a thread without a     *)
(* tape or one that is told to stop, or a tape that joins another, finds it *)
(* true.                                                                    *)
THEOREM WakeupsAreJustified == Spec => []WakeupsJustified
  <1>1. IInv => WakeupsJustified
    <2>1. SUFFICES ASSUME IInv PROVE WakeupsJustified
      OBVIOUS
    <2>2. mpc = "joining" /\ Main \notin client_ready[i] => tinfo[i].finished
      <3>1. i \in Threads
        BY <2>1, MainKnows
      <3>2. PICK j : j = i
        OBVIOUS
      <3>3. client_ready[j] = ClientWaits(j)
        BY <2>1, <3>1, <3>2 DEF IInv, ThreadInv
      <3>4. QED
        BY <3>2, <3>3 DEF ClientWaits, MainWaits
    <2>3. ASSUME NEW t \in Threads
          PROVE  /\ tpc[t] = "waiting" /\ t \notin server_ready[t] => tinfo[t].prognum # -2
                 /\ tpc[t] = "stopping" /\ t \notin server_ready[t] => tinfo[t].ready
      BY <2>1 DEF IInv, ThreadInv, ServerWaits
    <2>4. ASSUME NEW t \in Threads, tpc[t] = "joining", t \notin client_ready[Instruction(t).thread]
          PROVE  tinfo[Instruction(t).thread].finished
      <3>1. PICK u : u = Instruction(t).thread
        OBVIOUS
      <3>2. tpc[t] \in Executing /\ pc[t] \in DOMAIN Code(t) /\ Instruction(t).op = "join"
        BY <2>1, <2>4, ExecutingKnows DEF Executing
      <3>3. t = 1 /\ TapeHas(u)
        BY <2>1, <3>1, <3>2, JoiningKnows
      <3>4. u \in Threads /\ u # 1 /\ i = 1 /\ mpc # "syncing"
        BY <2>1, <3>3, TapeHasKnows
      <3>5. client_ready[u] = ClientWaits(u) /\ ~ MainWaits(u)
        BY <2>1, <3>4 DEF IInv, ThreadInv, MainWaits
      <3>6. QED
        BY <2>4, <3>1, <3>3, <3>5 DEF ClientWaits, TapeWaits
    <2>5. QED
      BY <2>2, <2>3, <2>4 DEF WakeupsJustified
  <1>2. QED
    BY <1>1, Invariance, PTL

(* The main thread goes on to the next line of the schedule only when no    *)
(* tape of the last one runs or is waiting to be run, nor any that a tape   *)
(* has started.                                                             *)
THEOREM LinesStayApart == Spec => []LinesApart
  <1>1. IInv => LinesApart
    <2>1. SUFFICES ASSUME IInv, mpc \in {"joined", "line"}, NEW t \in Threads
          PROVE  /\ tinfo[t].prognum = -2 /\ tinfo[t].finished
                 /\ tpc[t] \in {"wait", "waiting"}
      BY DEF LinesApart
    <2>2. New(t) \/ Idle(t) \/ Ended(t)
      BY <2>1, NobodyBusy DEF InLine
    <2>3. Idle(t)
      BY <2>1, <2>2 DEF New, Ended, Killed, Starting, Ending
    <2>4. QED
      BY <2>3 DEF Idle
  <1>2. QED
    BY <1>1, Invariance, PTL

-----------------------------------------------------------------------------
(* The refinement of TapePool.  A thread that is handed a tape has none.    *)
LEMMA MainGives ==
  ASSUME IInv, RunTape
  PROVE  \E u \in Threads, n \in Nat \ {0}, a \in Nat : HandOver(u, n, a) /\ Idle(u) /\ log' = log
  <1>1. PICK j, n, a : j = i /\ n = prog.schedule[line][j].tape /\ a = prog.schedule[line][j].arg
    OBVIOUS
  <1>2. mpc = "run" /\ i = j /\ HandOver(j, n, a) /\ log' = log
    <2>1. HandOver(j, n, a)
      BY <1>1 DEF RunTape, HandOver, Signal
    <2>2. QED
      BY <1>1, <2>1 DEF RunTape
  <1>3. j \in Threads /\ line \in DOMAIN prog.schedule /\ j \in 1 .. numt /\ prog \in Programs
    <2>1. j \in Threads /\ line \in DOMAIN prog.schedule /\ j <= numt /\ prog \in Programs
      BY <1>2, MainKnows, ThreadBasics DEF InLine
    <2>2. numt \in Nat /\ j \in Nat \ {0}
      BY <2>1, LineKnows, ThreadBasics
    <2>3. QED
      BY <2>1, <2>2
  <1>4. n \in DOMAIN prog.tapes /\ a \in Nat
    BY <1>1, <1>3, LineFacts DEF numt
  <1>5. n \in Nat \ {0}
    BY <1>3, <1>4, ProgramFacts
  <1>6. ~ Busy(j)
    BY <1>2, <1>3, NotNestedYet, ThreadBasics DEF Busy, MainHas
  <1>7. Idle(j)
    BY <1>2, <1>3, <1>6, IdleInLine DEF InLine
  <1>8. QED
    BY <1>2, <1>3, <1>4, <1>5, <1>7

LEMMA TapeGives ==
  ASSUME IInv, NEW t \in Threads, Run(t)
  PROVE  \E u \in Threads, n \in Nat \ {0}, a \in Nat : HandOver(u, n, a) /\ Idle(u) /\ log' = log
  <1>1. PICK x, u, n, a : x = Instruction(t) /\ u = x.thread /\ n = x.tape /\ a = x.arg
    OBVIOUS
  <1>2. tpc[t] = "execute" /\ pc[t] \in DOMAIN Code(t) /\ x.op = "run" /\ log' = log
    <2>1. Executes(t, "run") /\ log' = log
      BY DEF Run
    <2>2. QED
      BY <1>1, <2>1 DEF Executes, Instruction
  <1>3. /\ x \in Instr /\ u \in Threads /\ n \in DOMAIN prog.tapes
        /\ ~ TapeHas(u) /\ ~ MainHas(u) /\ mpc \in {"increase", "join", "joining"}
    BY <1>1, <1>2, RunningKnows
  <1>4. n \in Nat \ {0} /\ a \in Nat
    BY <1>1, <1>3, ProgramFacts, ThreadBasics DEF Instr
  <1>5. HandOver(u, n, a)
    BY <1>1 DEF Run, HandOver, Signal
  <1>6. Idle(u)
    BY <1>3, IdleInLine DEF Busy, InLine
  <1>7. QED
    BY <1>2, <1>3, <1>4, <1>5, <1>6

Given == [t \in Threads |-> IF tinfo[t].finished THEN <<>> ELSE asked[t]]

LEMMA GiveImplemented ==
  ASSUME IInv, NEW u \in Threads, NEW n \in Nat \ {0}, NEW a \in Nat, HandOver(u, n, a),
         Idle(u), log' = log
  PROVE  Pool!Give(u)
  <1>1. /\ ~ tinfo'[u].finished /\ asked'[u] \in Work
        /\ \A s \in Threads \ {u} : tinfo'[s] = tinfo[s] /\ asked'[s] = asked[s]
    BY Offering
  <1>2. Given[u] = <<>>
    BY DEF Given, Idle
  <1>3. Given'[u] = asked'[u]
    BY <1>1 DEF Given
  <1>4. Given' = [Given EXCEPT ![u] = Given'[u]]
    <2>1. \A s \in Threads \ {u} : Given'[s] = Given[s]
      BY <1>1 DEF Given
    <2>2. Given' = [s \in Threads |-> Given'[s]]
      BY DEF Given
    <2>3. Given = [s \in Threads |-> Given[s]]
      BY DEF Given
    <2>4. QED
      BY <2>1, <2>2, <2>3
  <1>5. QED
    BY <1>1, <1>2, <1>3, <1>4 DEF Pool!Give, Given

LEMMA FinishImplemented ==
  ASSUME IInv, NEW t \in Threads, Finish(t)
  PROVE  Pool!Finish(t)
  <1>1. /\ tpc[t] = "finish"
        /\ tinfo' = [tinfo EXCEPT ![t].finished = TRUE]
        /\ log' = [log EXCEPT ![t] = Append(@, [tape |-> program[t], arg |-> arg[t], pos |-> began[t]])]
        /\ asked' = asked
    BY DEF Finish
  <1>2. Busy(t) /\ Taken(t)
    BY <1>1 DEF IInv, ThreadInv, New, Idle, Busy, Ended, Offered
  <1>3. asked[t] \in Work /\ ~ tinfo[t].finished
    BY <1>2 DEF Busy, Assigned
  <1>4. [tape |-> program[t], arg |-> arg[t], pos |-> began[t]] = asked[t]
    BY <1>1, <1>2, <1>3 DEF Taken, Work
  <1>5. Given[t] = asked[t]
    BY <1>3 DEF Given
  <1>6. asked[t] # <<>>
    <2>1. PICK r : r = asked[t]
      OBVIOUS
    <2>2. "tape" \in DOMAIN r
      BY <1>3, <2>1 DEF Work
    <2>3. DOMAIN <<>> = {}
      OBVIOUS
    <2>4. QED
      BY <2>1, <2>2, <2>3
  <1>7. log' = [log EXCEPT ![t] = Append(@, Given[t])]
    BY <1>1, <1>4, <1>5
  <1>8. Given' = [Given EXCEPT ![t] = <<>>]
    <2>1. tinfo'[t].finished /\ \A s \in Threads \ {t} : tinfo'[s] = tinfo[s]
      BY <1>1, ThreadBasics DEF Info
    <2>2. \A s \in Threads \ {t} : Given'[s] = Given[s]
      BY <1>1, <2>1 DEF Given
    <2>3. Given'[t] = <<>>
      BY <2>1 DEF Given
    <2>4. Given' = [s \in Threads |-> Given'[s]]
      BY DEF Given
    <2>5. Given = [s \in Threads |-> Given[s]]
      BY DEF Given
    <2>6. QED
      BY <2>2, <2>3, <2>4, <2>5
  <1>9. QED
    BY <1>5, <1>6, <1>7, <1>8 DEF Pool!Finish, Given

LEMMA Unseen ==
  ASSUME asked' = asked, log' = log,
         \A s \in Threads : tinfo'[s].finished = tinfo[s].finished
  PROVE  UNCHANGED Pool!vars
  BY DEF Pool!vars

LEMMA ThreadUnseen ==
  ASSUME IInv, NEW t \in Threads,
         \/ Ready(t) \/ WaitForProgram(t) \/ TakeProgram(t) \/ Reset(t) \/ Seek(t) \/ Use(t)
         \/ WaitForThread(t) \/ JoinThread(t) \/ EndTape(t) \/ WaitForRelease(t) \/ Exit(t)
  PROVE  UNCHANGED Pool!vars
  <1>1. asked' = asked /\ log' = log
    BY DEF Ready, WaitForProgram, TakeProgram, Reset, Seek, Use, WaitForThread, JoinThread, EndTape,
           WaitForRelease, Exit, history
  <1>2. \/ tinfo' = tinfo
        \/ tinfo' = [tinfo EXCEPT ![t].ready = TRUE]
        \/ tinfo' = [tinfo EXCEPT ![t].prognum = -2]
        \/ tinfo' = [tinfo EXCEPT ![t].pos = usage[t]]
    BY DEF Ready, WaitForProgram, TakeProgram, Reset, Seek, Use, WaitForThread, JoinThread, EndTape,
           WaitForRelease, Exit
  <1>3. \A s \in Threads : tinfo'[s].finished = tinfo[s].finished
    <2>1. PICK f, u : f = tinfo /\ u = usage[t] /\ f \in [Threads -> Info]
      BY ThreadBasics
    <2>2. tinfo' = f => tinfo'[t].finished = f[t].finished
      OBVIOUS
    <2>3. tinfo' = [f EXCEPT ![t].ready = TRUE] => tinfo'[t].finished = f[t].finished
      BY <2>1 DEF Info
    <2>4. tinfo' = [f EXCEPT ![t].prognum = -2] => tinfo'[t].finished = f[t].finished
      BY <2>1 DEF Info
    <2>5. tinfo' = [f EXCEPT ![t].pos = u] => tinfo'[t].finished = f[t].finished
      BY <2>1 DEF Info
    <2>6. tinfo'[t].finished = tinfo[t].finished
      BY <1>2, <2>1, <2>2, <2>3, <2>4, <2>5
    <2>7. \A s \in Threads \ {t} : tinfo'[s] = tinfo[s]
      BY <1>2, ThreadBasics
    <2>8. QED
      BY <2>6, <2>7
  <1>4. QED
    BY <1>1, <1>3, Unseen

LEMMA MainUnseen ==
  ASSUME IInv,
         \/ SyncWait \/ SyncWoken \/ SyncDone \/ BeginLine \/ IncreasePosition \/ JoinWait
         \/ JoinTape \/ EndLine \/ Kill \/ Release \/ ThreadGone
  PROVE  UNCHANGED Pool!vars
  <1>1. asked' = asked /\ log' = log
    BY DEF SyncWait, SyncWoken, SyncDone, BeginLine, IncreasePosition, JoinWait, JoinTape, Joined,
           EndLine, Kill, Release, ThreadGone, history
  <1>2. \/ tinfo' = tinfo
        \/ tinfo' = [tinfo EXCEPT ![i].prognum = -1, ![i].ready = FALSE]
        \/ tinfo' = [tinfo EXCEPT ![i].ready = TRUE]
    BY DEF SyncWait, SyncWoken, SyncDone, BeginLine, IncreasePosition, JoinWait, JoinTape, Joined,
           EndLine, Kill, Release, ThreadGone
  <1>3. \A s \in Threads : tinfo'[s].finished = tinfo[s].finished
    <2>1. PICK f, j : f = tinfo /\ j = i /\ f \in [Threads -> Info] /\ j \in Threads
      BY ThreadBasics, MainKnows
    <2>2. tinfo' = f => tinfo'[j].finished = f[j].finished
      OBVIOUS
    <2>3. ASSUME tinfo' = [f EXCEPT ![j].prognum = -1, ![j].ready = FALSE]
          PROVE  tinfo'[j].finished = f[j].finished
      <3>1. PICK q : q = [f[j] EXCEPT !.prognum = -1, !.ready = FALSE]
        OBVIOUS
      <3>2. tinfo' = [f EXCEPT ![j] = q]
        BY <2>1, <2>3, <3>1
      <3>3. q.finished = f[j].finished
        BY <2>1, <3>1 DEF Info
      <3>4. QED
        BY <2>1, <3>2, <3>3
    <2>4. tinfo' = [f EXCEPT ![j].ready = TRUE] => tinfo'[j].finished = f[j].finished
      BY <2>1 DEF Info
    <2>5. tinfo'[j].finished = tinfo[j].finished
      BY <1>2, <2>1, <2>2, <2>3, <2>4
    <2>6. \A s \in Threads \ {j} : tinfo'[s] = tinfo[s]
      BY <1>2, <2>1
    <2>7. QED
      BY <2>5, <2>6
  <1>4. QED
    BY <1>1, <1>3, Unseen

(* Each tape that is handed to a thread runs there once, with the argument  *)
(* and from the position handed over with it, before the thread is handed   *)
(* another, although the thread reads both after the unlock.                *)
THEOREM PoolImplemented == Spec => ImplementsPool
  <1>1. Init => Pool!Init
    BY DEF Init, Pool!Init
  <1>2. IInv /\ [Next]_vars => [Pool!Next]_(Pool!vars)
    <2>1. SUFFICES ASSUME IInv, [Next]_vars PROVE Pool!Next \/ UNCHANGED Pool!vars
      OBVIOUS
    <2>2. CASE RunTape
      BY <2>1, <2>2, MainGives, GiveImplemented DEF Pool!Next
    <2>3. CASE \E t \in Threads : Run(t)
      BY <2>1, <2>3, TapeGives, GiveImplemented DEF Pool!Next
    <2>4. CASE \E t \in Threads : Finish(t)
      BY <2>1, <2>4, FinishImplemented DEF Pool!Next
    <2>5. CASE MainNext /\ ~ RunTape
      BY <2>1, <2>5, MainUnseen DEF MainNext
    <2>6. ASSUME NEW t \in Threads, ThreadNext(t), ~ Run(t), ~ Finish(t)
          PROVE  UNCHANGED Pool!vars
      BY <2>1, <2>6, ThreadUnseen DEF ThreadNext
    <2>7. CASE UNCHANGED vars
      BY <2>7, Unseen DEF vars, history
    <2>8. QED
      BY <2>1, <2>2, <2>3, <2>4, <2>5, <2>6, <2>7 DEF Next
  <1>3. QED
    BY <1>1, <1>2, Invariance, PTL DEF Spec, ImplementsPool, Pool!Spec
-----------------------------------------------------------------------------
(* Programs in which no tape starts another: what each thread may still     *)
(* read lies apart from what the others may, and has not been read; nor has *)
(* what comes after the line.                                               *)
Working(t) == MainHas(t) /\ ~ tinfo[t].finished

UnknownTape(t) == Tape(asked[t].tape).unknown
UpTo(t) == asked[t].pos + Tape(asked[t].tape).usage
Reached(t) == IF tpc[t] \in {"wait", "waiting", "reset", "seek"} THEN asked[t].pos ELSE usage[t]
LineEnd == IF mpc = "increase" THEN pos + used_by_tape ELSE pos
Unread(x) == reads[x] = 0
UnreadFrom(p) == \A x \in Items : p <= x => Unread(x)

FlatThread(t) ==
  /\ UnknownTape(t) => numt = 1 /\ usage_unknown
  /\ tpc[t] \in {"execute", "finish"} => usage[t] = asked[t].pos + pc[t] - 1
  /\ \A x \in Items : Reached(t) <= x /\ (UnknownTape(t) \/ x < UpTo(t)) => Unread(x)
  /\ ~ UnknownTape(t) => UpTo(t) <= LineEnd

FlatUnknown ==
  /\ mpc \in {"increase", "join", "joining", "joined"} /\ numt = 1
  /\ Working(1) => UnknownTape(1) /\ (tpc[1] = "finish" => tinfo[1].pos = usage[1])
  /\ ~ Working(1) => UnreadFrom(tinfo[1].pos)

FlatInv ==
  /\ DOMAIN reads = Items /\ \A x \in Items : reads[x] \in {0, 1}
  /\ ~ failed =>
       /\ \A t \in Threads : Working(t) => FlatThread(t)
       /\ \A s, t \in Threads : Working(s) /\ Working(t) /\ s < t => UpTo(s) <= asked[t].pos
       /\ usage_unknown => FlatUnknown
       /\ ~ usage_unknown => UnreadFrom(LineEnd)

FlatIInv == ~ Nested(prog) => FlatInv

(* The tapes of such a program only take items.                             *)
LEMMA FlatCode ==
  ASSUME prog \in Programs, ~ Nested(prog), NEW n \in DOMAIN prog.tapes, NEW c \in DOMAIN Tape(n).code
  PROVE  Tape(n).code[c].op = "use"
  <1>1. PICK x : x = Tape(n).code[c]
    OBVIOUS
  <1>2. /\ x \in Instr /\ c \in Nat \ {0} /\ x.op # "run"
        /\ x.op = "join" => Started(Tape(n).code, c, x.thread)
    BY <1>1, InstructionFacts
  <1>3. c \in 1 .. Len(Tape(n).code) + 1
    <2>1. Tape(n).code \in Seq(Instr)
      BY TapeFacts
    <2>2. QED
      BY <2>1
  <1>4. x.op # "join"
    BY <1>2, <1>3, StartedFacts
  <1>5. QED
    BY <1>1, <1>2, <1>4 DEF Instr

(* The sums of their costs: one for each item.                              *)
LEMMA FlatCost ==
  ASSUME prog \in Programs, ~ Nested(prog), NEW n \in DOMAIN prog.tapes
  PROVE  CostUpto(prog, Tape(n).code)[Len(Tape(n).code)] = Len(Tape(n).code)
  <1>1. PICK code, p : code = Tape(n).code /\ p = prog
    OBVIOUS
  <1>2. code \in Seq(Instr) /\ Len(code) \in Nat
    BY <1>1, TapeFacts
  <1>3. \A k \in 1 .. Len(code) : Cost(p, code[k]) = 1
    BY <1>1, <1>2, FlatCode DEF Cost
  <1> DEFINE N == 0 .. Len(code)
             Sums(f) == f = [k \in N |-> IF k = 0 THEN 0 ELSE f[k - 1] + Cost(p, code[k])]
  <1>4. CostUpto(p, code) = CHOOSE f : Sums(f)
    BY DEF CostUpto
  <1>5. \E f : Sums(f)
    <2>1. PICK g : g = [k \in N |-> k]
      OBVIOUS
    <2>2. \A k \in N : k = IF k = 0 THEN 0 ELSE g[k - 1] + Cost(p, code[k])
      <3> TAKE k \in N
      <3>1. CASE k = 0
        BY <3>1
      <3>2. CASE k # 0
        <4>1. k - 1 \in N /\ k \in 1 .. Len(code) /\ k \in Nat
          BY <1>2, <3>2
        <4>2. g[k - 1] = k - 1 /\ Cost(p, code[k]) = 1
          BY <1>3, <2>1, <4>1
        <4>3. QED
          BY <3>2, <4>1, <4>2
      <3>3. QED
        BY <3>1, <3>2
    <2>3. Sums(g)
      BY <2>1, <2>2
    <2>4. QED
      BY <2>3
  <1>6. PICK f : f = CostUpto(p, code) /\ Sums(f)
    BY <1>4, <1>5
  <1>7. \A k \in N : f[k] = IF k = 0 THEN 0 ELSE f[k - 1] + Cost(p, code[k])
    BY <1>6
  <1> DEFINE Bad == {k \in N : f[k] # k}
  <1>8. Bad = {}
    <2>1. SUFFICES ASSUME Bad # {} PROVE FALSE
      OBVIOUS
    <2>2. Bad \subseteq Nat
      BY <1>2
    <2>3. PICK m \in Bad : \A k \in Bad : m <= k
      BY <2>1, <2>2, LeastNatural
    <2>4. m \in N /\ f[m] # m /\ m # 0
      BY <1>2, <1>7, <2>3
    <2>5. m - 1 \in N /\ m \in 1 .. Len(code) /\ m \in Nat
      BY <1>2, <2>4
    <2>6. m - 1 \notin Bad
      <3>1. ~ (m <= m - 1)
        BY <2>5
      <3>2. QED
        BY <2>3, <3>1
    <2>7. f[m - 1] = m - 1
      BY <2>5, <2>6
    <2>8. f[m] = f[m - 1] + Cost(p, code[m])
      BY <1>7, <2>4
    <2>9. f[m] = (m - 1) + 1
      BY <1>3, <2>5, <2>7, <2>8
    <2>10. QED
      BY <2>4, <2>5, <2>9
  <1>9. f[Len(code)] = Len(code)
    BY <1>2, <1>8
  <1>10. QED
    BY <1>1, <1>6, <1>9

(* A tape takes no more items than it declares.                             *)
LEMMA FlatUsage ==
  ASSUME prog \in Programs, ~ Nested(prog), NEW n \in DOMAIN prog.tapes, ~ Tape(n).unknown
  PROVE  Len(Tape(n).code) <= Tape(n).usage
  <1>1. WellFormedProgram(prog)
    BY ProgramsAssumption
  <1>2. WellFormedTape(prog, n)
    BY <1>1 DEF WellFormedProgram
  <1>3. CostUpto(prog, Tape(n).code)[Len(Tape(n).code)] <= Tape(n).usage
    BY <1>2 DEF WellFormedTape, Tape
  <1>4. QED
    BY <1>3, FlatCost

(* Who works on a tape that the main thread has not joined is busy with it. *)
LEMMA WorkingKnows ==
  ASSUME IInv, NEW t \in Threads, Working(t)
  PROVE  /\ Busy(t) /\ Assigned(t) /\ (Offered(t) \/ Taken(t)) /\ mpc \in InLine
         /\ asked[t].tape \in DOMAIN prog.tapes /\ asked[t].tape \in Nat \ {0} /\ asked[t].pos \in Nat
         /\ Tape(asked[t].tape).usage \in Nat /\ UpTo(t) \in Nat /\ usage[t] \in Nat
         /\ numt \in Nat /\ i \in 1 .. numt /\ t \in 1 .. numt
  <1>1. mpc \in InLine
    BY DEF Working, MainHas, InLine
  <1>2. Busy(t)
    BY <1>1, IdleInLine DEF Working, Idle
  <1>3. /\ asked[t].tape \in DOMAIN prog.tapes /\ asked[t] \in Work /\ numt \in Threads
        /\ i \in 1 .. numt /\ t \in 1 .. numt
    BY <1>2, BusyKnows DEF Working
  <1>4. Tape(asked[t].tape).usage \in Nat /\ usage[t] \in Nat /\ numt \in Nat
    BY <1>3, TapeFacts, ThreadBasics
  <1>5. asked[t].pos \in Nat /\ asked[t].tape \in Nat \ {0}
    BY <1>3 DEF Work
  <1>6. UpTo(t) \in Nat
    BY <1>4, <1>5 DEF UpTo
  <1>7. QED
    BY <1>1, <1>2, <1>3, <1>4, <1>5, <1>6 DEF Busy

LEMMA FlatExecutes ==
  ASSUME IInv, ~ Nested(prog), NEW t \in Threads, tpc[t] \in Executing
  PROVE  /\ Working(t) /\ tpc[t] = "execute" /\ program[t] = asked[t].tape
         /\ pc[t] \in DOMAIN Code(t) => Instruction(t).op = "use"
  <1>1. Busy(t) /\ program[t] = asked[t].tape /\ program[t] \in DOMAIN prog.tapes /\ prog \in Programs
    BY ExecutingKnows, ThreadBasics
  <1>2. Working(t)
    BY <1>1, TapeHasKnows DEF Busy, Working
  <1>3. pc[t] \in DOMAIN Code(t) => Instruction(t).op = "use"
    BY <1>1, FlatCode DEF Instruction, Code
  <1>4. tpc[t] # "joining"
    BY <1>3, ExecutingKnows
  <1>5. QED
    BY <1>1, <1>2, <1>3, <1>4 DEF Executing

(* Steps that read nothing and hand over nothing.                           *)
LEMMA FlatKept ==
  ASSUME IInv, FlatInv, ~ failed, prog' = prog, line' = line,
         UNCHANGED <<reads, asked, failed, usage_unknown>>, LineEnd' = LineEnd,
         \A s \in Threads : Working(s)' =>
            /\ Working(s) /\ Reached(s)' = Reached(s)
            /\ tpc'[s] \in {"execute", "finish"} => usage'[s] = asked[s].pos + pc'[s] - 1,
         usage_unknown => FlatUnknown'
  PROVE  FlatInv'
  <1>1. DOMAIN reads' = Items /\ \A x \in Items : reads'[x] \in {0, 1}
    BY DEF FlatInv
  <1>2. numt' = numt /\ \A s : UnknownTape(s)' = UnknownTape(s) /\ UpTo(s)' = UpTo(s)
    BY DEF numt, UnknownTape, UpTo, Tape
  <1>3. ASSUME NEW s \in Threads, Working(s)'
        PROVE  FlatThread(s)'
    <2>1. FlatThread(s)
      BY <1>3 DEF FlatInv
    <2>2. Reached(s)' = Reached(s) /\ (tpc'[s] \in {"execute", "finish"} => usage'[s] = asked[s].pos + pc'[s] - 1)
      BY <1>3
    <2>3. QED
      BY <1>2, <2>1, <2>2 DEF FlatThread, Unread
  <1>4. \A s, t \in Threads : Working(s)' /\ Working(t)' /\ s < t => UpTo(s)' <= asked'[t].pos
    BY <1>2 DEF FlatInv
  <1>5. ~ usage_unknown' => UnreadFrom(LineEnd)'
    BY DEF FlatInv, UnreadFrom, Unread
  <1>6. QED
    BY <1>1, <1>3, <1>4, <1>5 DEF FlatInv

LEMMA FlatQuiet ==
  ASSUME IInv, FlatInv, ~ failed, ~ Nested(prog), NEW t \in Threads,
         UNCHANGED <<prog, main, reads, asked, failed>>,
         \A s \in Threads \ {t} : /\ tinfo'[s] = tinfo[s] /\ tpc'[s] = tpc[s]
                                  /\ usage'[s] = usage[s] /\ pc'[s] = pc[s],
         tinfo'[t].finished = tinfo[t].finished, tinfo'[t].pos = tinfo[t].pos,
         Working(t) => /\ Reached(t)' = Reached(t)
                       /\ tpc'[t] \in {"execute", "finish"} => usage'[t] = asked[t].pos + pc'[t] - 1,
         tpc'[t] # "finish"
  PROVE  FlatInv'
  <1>1. SameMain /\ UNCHANGED <<usage_unknown, pos, used_by_tape>> /\ LineEnd' = LineEnd /\ numt' = numt
    BY DEF SameMain, main, LineEnd, numt
  <1>2. \A s \in Threads : Working(s)' <=> Working(s)
    <2>1. \A s : MainHas(s)' <=> MainHas(s)
      BY <1>1 DEF MainHas, SameMain
    <2>2. \A s \in Threads : tinfo'[s].finished = tinfo[s].finished
      OBVIOUS
    <2>3. QED
      BY <2>1, <2>2 DEF Working
  <1>3. ASSUME NEW s \in Threads, Working(s)'
        PROVE  /\ Working(s) /\ Reached(s)' = Reached(s)
               /\ tpc'[s] \in {"execute", "finish"} => usage'[s] = asked[s].pos + pc'[s] - 1
    <2>1. CASE s = t
      BY <1>2, <1>3, <2>1
    <2>2. CASE s # t
      BY <1>2, <1>3, <2>2 DEF FlatInv, FlatThread, Reached
    <2>3. QED
      BY <2>1, <2>2
  <1>4. usage_unknown => FlatUnknown'
    <2>1. SUFFICES ASSUME usage_unknown PROVE FlatUnknown'
      OBVIOUS
    <2>2. FlatUnknown /\ 1 \in Threads
      BY <2>1, ThreadBasics DEF FlatInv
    <2>3. UnknownTape(1)' = UnknownTape(1)
      BY <1>1 DEF UnknownTape, Tape, SameMain
    <2>4. tinfo'[1].pos = tinfo[1].pos /\ (tpc'[1] = "finish" => tpc[1] = "finish" /\ usage'[1] = usage[1])
      BY <2>2
    <2>5. QED
      BY <1>1, <1>2, <2>2, <2>3, <2>4 DEF FlatUnknown, SameMain, UnreadFrom, Unread
  <1>5. QED
    BY <1>1, <1>3, <1>4, FlatKept DEF SameMain

(* Up to the first instruction, and after the last tape.                    *)
LEMMA FlatThreadQuiet ==
  ASSUME IInv, FlatInv, ~ failed, ~ Nested(prog), NEW t \in Threads, prog' = prog,
         \/ Ready(t) \/ WaitForProgram(t) \/ TakeProgram(t) \/ Reset(t) \/ Seek(t)
         \/ WaitForRelease(t) \/ Exit(t)
  PROVE  FlatInv'
  <1>1. UNCHANGED <<prog, main, reads, asked, failed>>
    BY DEF Ready, WaitForProgram, TakeProgram, Reset, Seek, WaitForRelease, Exit, history
  <1>2. \/ tinfo' = tinfo
        \/ tinfo' = [tinfo EXCEPT ![t].ready = TRUE]
        \/ tinfo' = [tinfo EXCEPT ![t].prognum = -2]
    BY DEF Ready, WaitForProgram, TakeProgram, Reset, Seek, WaitForRelease, Exit
  <1>3. /\ \A s \in Threads \ {t} : tinfo'[s] = tinfo[s]
        /\ tinfo'[t].finished = tinfo[t].finished /\ tinfo'[t].pos = tinfo[t].pos
    <2>1. PICK f : f = tinfo /\ f \in [Threads -> Info]
      BY ThreadBasics
    <2>2. CASE tinfo' = f
      BY <2>1, <2>2
    <2>3. CASE tinfo' = [f EXCEPT ![t].ready = TRUE]
      BY <2>1, <2>3 DEF Info
    <2>4. CASE tinfo' = [f EXCEPT ![t].prognum = -2]
      BY <2>1, <2>4 DEF Info
    <2>5. QED
      BY <1>2, <2>1, <2>2, <2>3, <2>4
  <1>4. PICK where : tpc' = [tpc EXCEPT ![t] = where] /\ where # "finish"
    BY DEF Ready, WaitForProgram, TakeProgram, Reset, Seek, WaitForRelease, Exit, GoTo
  <1>5. \A s \in Threads \ {t} : tpc'[s] = tpc[s] /\ usage'[s] = usage[s] /\ pc'[s] = pc[s]
    <2>1. \A s \in Threads \ {t} : tpc'[s] = tpc[s]
      BY <1>4, ThreadBasics
    <2>2. \A s \in Threads \ {t} : usage'[s] = usage[s]
      BY ThreadBasics DEF Ready, WaitForProgram, TakeProgram, Reset, Seek, WaitForRelease, Exit
    <2>3. \A s \in Threads \ {t} : pc'[s] = pc[s]
      BY ThreadBasics DEF Ready, WaitForProgram, TakeProgram, Reset, Seek, WaitForRelease, Exit
    <2>4. QED
      BY <2>1, <2>2, <2>3
  <1>6. tpc'[t] = where
    BY <1>4, ThreadBasics
  <1>7. ASSUME Working(t)
        PROVE  /\ Reached(t)' = Reached(t)
               /\ tpc'[t] \in {"execute", "finish"} => usage'[t] = asked[t].pos + pc'[t] - 1
    <2>1. /\ Assigned(t) /\ (Offered(t) \/ Taken(t)) /\ asked[t].tape \in Nat \ {0} /\ asked[t].pos \in Nat
          /\ usage[t] \in Nat
      BY <1>7, WorkingKnows
    <2>2. tpc[t] \notin {"start", "stop", "stopping"}
      BY <2>1 DEF Offered, Taken
    <2>3. CASE WaitForProgram(t)
      BY <1>1, <2>3, ThreadBasics DEF WaitForProgram, GoTo, Reached
    <2>4. CASE TakeProgram(t)
      <3>1. tpc[t] \in {"wait", "waiting"}
        BY <2>4 DEF TakeProgram
      <3>2. tinfo[t].prognum # -1
        BY <2>1, <3>1 DEF Offered, Taken
      <3>3. tpc'[t] = "reset"
        BY <2>4, <3>2, ThreadBasics DEF TakeProgram, GoTo
      <3>4. QED
        BY <1>1, <3>1, <3>3 DEF Reached
    <2>5. CASE Reset(t)
      BY <1>1, <2>5, ThreadBasics DEF Reset, GoTo, Reached
    <2>6. CASE Seek(t)
      <3>1. tpc[t] = "seek" /\ tpc'[t] = "execute" /\ usage'[t] = tinfo[t].pos /\ pc' = pc
        BY <2>6, ThreadBasics DEF Seek, GoTo
      <3>2. pc[t] = 1 /\ tinfo[t].pos = asked[t].pos
        BY <2>1, <3>1 DEF Offered, Taken, Assigned
      <3>3. QED
        BY <1>1, <2>1, <3>1, <3>2 DEF Reached
    <2>7. QED
      BY <2>2, <2>3, <2>4, <2>5, <2>6 DEF Ready, WaitForRelease, Exit
  <1>8. QED
    BY <1>1, <1>3, <1>4, <1>5, <1>6, <1>7, FlatQuiet

(* A tape of unknown usage tells how far it has read,                       *)
LEMMA FlatEndTape ==
  ASSUME IInv, FlatInv, ~ failed, ~ Nested(prog), NEW t \in Threads, prog' = prog, EndTape(t)
  PROVE  FlatInv'
  <1>1. /\ tpc[t] = "execute" /\ tpc' = [tpc EXCEPT ![t] = "finish"]
        /\ tinfo' = IF Tape(program[t]).unknown THEN [tinfo EXCEPT ![t].pos = usage[t]] ELSE tinfo
        /\ UNCHANGED <<main, pc, usage, failed, reads, asked>>
    BY DEF EndTape, GoTo, history
  <1>2. Working(t) /\ program[t] = asked[t].tape
    BY <1>1, FlatExecutes DEF Executing
  <1>3. /\ SameMain /\ UNCHANGED <<usage_unknown, pos, used_by_tape>> /\ LineEnd' = LineEnd
        /\ numt' = numt
    BY <1>1 DEF SameMain, main, LineEnd, numt
  <1>4. /\ \A s \in Threads : tinfo'[s].finished = tinfo[s].finished
        /\ Tape(program[t]).unknown => tinfo'[t].pos = usage[t]
    <2>1. PICK f, u : f = tinfo /\ u = usage[t] /\ f \in [Threads -> Info]
      BY ThreadBasics
    <2>2. CASE tinfo' = [f EXCEPT ![t].pos = u]
      BY <2>1, <2>2 DEF Info
    <2>3. CASE tinfo' = f /\ ~ Tape(program[t]).unknown
      BY <2>1, <2>3
    <2>4. QED
      BY <1>1, <2>1, <2>2, <2>3
  <1>5. \A s \in Threads : Working(s)' <=> Working(s)
    <2>1. \A s : MainHas(s)' <=> MainHas(s)
      BY <1>3 DEF MainHas, SameMain
    <2>2. QED
      BY <1>4, <2>1 DEF Working
  <1>6. tpc'[t] = "finish" /\ \A s \in Threads \ {t} : tpc'[s] = tpc[s]
    BY <1>1, ThreadBasics
  <1>7. ASSUME NEW s \in Threads, Working(s)'
        PROVE  /\ Working(s) /\ Reached(s)' = Reached(s)
               /\ tpc'[s] \in {"execute", "finish"} => usage'[s] = asked[s].pos + pc'[s] - 1
    <2>1. FlatThread(s)
      BY <1>5, <1>7 DEF FlatInv
    <2>2. CASE s = t
      BY <1>1, <1>5, <1>6, <1>7, <2>1, <2>2 DEF FlatThread, Reached
    <2>3. CASE s # t
      BY <1>1, <1>5, <1>6, <1>7, <2>1, <2>3 DEF FlatThread, Reached
    <2>4. QED
      BY <2>2, <2>3
  <1>8. usage_unknown => FlatUnknown'
    <2>1. SUFFICES ASSUME usage_unknown PROVE FlatUnknown'
      OBVIOUS
    <2>2. FlatUnknown
      BY <2>1 DEF FlatInv
    <2>3. t = 1
      BY <1>2, <2>2, WorkingKnows DEF FlatUnknown
    <2>4. Working(1) /\ UnknownTape(1)
      BY <1>2, <2>2, <2>3 DEF FlatUnknown
    <2>5. tinfo'[1].pos = usage'[1]
      BY <1>1, <1>2, <1>4, <2>3, <2>4 DEF UnknownTape
    <2>6. Working(1)' /\ UnknownTape(1)'
      BY <1>1, <1>2, <1>3, <1>5, <2>3, <2>4 DEF UnknownTape, Tape, SameMain
    <2>7. QED
      BY <1>3, <2>2, <2>5, <2>6 DEF FlatUnknown, SameMain
  <1>9. QED
    BY <1>1, <1>3, <1>7, <1>8, FlatKept DEF SameMain

(* which is what the main thread finds when it has joined the thread.       *)
LEMMA FlatFinish ==
  ASSUME IInv, FlatInv, ~ failed, ~ Nested(prog), NEW t \in Threads, prog' = prog, Finish(t)
  PROVE  FlatInv'
  <1>1. /\ tpc[t] = "finish" /\ tpc' = [tpc EXCEPT ![t] = "wait"]
        /\ tinfo' = [tinfo EXCEPT ![t].finished = TRUE]
        /\ UNCHANGED <<main, pc, usage, failed, reads, asked>>
    BY DEF Finish, GoTo
  <1>2. Working(t)
    <2>1. Busy(t)
      BY <1>1 DEF IInv, ThreadInv, New, Idle, Ended
    <2>2. QED
      BY <2>1, TapeHasKnows DEF Busy, Working
  <1>3. /\ SameMain /\ UNCHANGED <<usage_unknown, pos, used_by_tape>> /\ LineEnd' = LineEnd
        /\ numt' = numt
    BY <1>1 DEF SameMain, main, LineEnd, numt
  <1>4. /\ tinfo'[t].finished /\ tinfo'[t].pos = tinfo[t].pos
        /\ \A s \in Threads \ {t} : tinfo'[s] = tinfo[s] /\ tpc'[s] = tpc[s]
    BY <1>1, ThreadBasics DEF Info
  <1>5. ~ Working(t)' /\ \A s \in Threads \ {t} : Working(s)' <=> Working(s)
    <2>1. \A s : MainHas(s)' <=> MainHas(s)
      BY <1>3 DEF MainHas, SameMain
    <2>2. QED
      BY <1>4, <2>1 DEF Working
  <1>6. ASSUME NEW s \in Threads, Working(s)'
        PROVE  /\ Working(s) /\ Reached(s)' = Reached(s)
               /\ tpc'[s] \in {"execute", "finish"} => usage'[s] = asked[s].pos + pc'[s] - 1
    <2>1. s # t /\ Working(s) /\ FlatThread(s)
      BY <1>5, <1>6 DEF FlatInv
    <2>2. QED
      BY <1>1, <1>4, <2>1 DEF FlatThread, Reached
  <1>7. usage_unknown => FlatUnknown'
    <2>1. SUFFICES ASSUME usage_unknown PROVE FlatUnknown'
      OBVIOUS
    <2>2. FlatUnknown
      BY <2>1 DEF FlatInv
    <2>3. t = 1
      BY <1>2, <2>2, WorkingKnows DEF FlatUnknown
    <2>4. UnknownTape(1) /\ tinfo[1].pos = usage[1] /\ FlatThread(1)
      BY <1>1, <1>2, <2>2, <2>3 DEF FlatUnknown, FlatInv
    <2>5. \A x \in Items : tinfo[1].pos <= x => Unread(x)
      BY <1>1, <2>3, <2>4 DEF FlatThread, Reached
    <2>6. UnreadFrom(tinfo[1].pos)'
      BY <1>1, <1>4, <2>3, <2>5 DEF UnreadFrom, Unread
    <2>7. QED
      BY <1>3, <1>5, <2>2, <2>3, <2>6 DEF FlatUnknown, SameMain
  <1>8. QED
    BY <1>1, <1>3, <1>6, <1>7, FlatKept DEF SameMain

(* An item that is taken had not been read, and nobody else may take it.    *)
LEMMA FlatUse ==
  ASSUME IInv, FlatInv, ~ failed, ~ Nested(prog), NEW t \in Threads, prog' = prog, Use(t)
  PROVE  FlatInv'
  <1>1. PICK y : y = usage[t]
    OBVIOUS
  <1>2. /\ tpc[t] = "execute" /\ pc[t] \in DOMAIN Code(t)
        /\ IF y \in Items THEN reads' = [reads EXCEPT ![y] = @ + 1] /\ failed' = failed
           ELSE reads' = reads /\ failed' = TRUE
        /\ usage' = [usage EXCEPT ![t] = @ + 1] /\ pc' = [pc EXCEPT ![t] = @ + 1]
        /\ UNCHANGED <<main, tinfo, tpc, asked>>
    BY <1>1 DEF Use, Executes, Step
  <1>3. Working(t) /\ program[t] = asked[t].tape /\ FlatThread(t)
    BY <1>2, FlatExecutes DEF Executing, FlatInv
  <1>4. /\ asked[t].tape \in DOMAIN prog.tapes /\ asked[t].pos \in Nat /\ UpTo(t) \in Nat
        /\ Tape(asked[t].tape).usage \in Nat /\ y \in Nat /\ prog \in Programs
    BY <1>1, <1>3, WorkingKnows, ThreadBasics
  <1>5. pc[t] \in Nat /\ Code(t) \in Seq(Instr) /\ Code(t) = Tape(program[t]).code
    BY <1>2, ExecutingKnows DEF Executing
  <1>6. y = asked[t].pos + pc[t] - 1 /\ Reached(t) = y
    BY <1>1, <1>2, <1>3 DEF FlatThread, Reached
  <1>7. ~ UnknownTape(t) => y < UpTo(t)
    <2>1. SUFFICES ASSUME ~ UnknownTape(t) PROVE y < UpTo(t)
      OBVIOUS
    <2>2. Len(Code(t)) <= Tape(asked[t].tape).usage
      BY <1>3, <1>4, <1>5, <2>1, FlatUsage DEF UnknownTape
    <2>3. pc[t] <= Len(Code(t)) /\ Len(Code(t)) \in Nat
      BY <1>2, <1>5
    <2>4. PICK a, u, n, c : a = asked[t].pos /\ u = Tape(asked[t].tape).usage /\ n = Len(Code(t)) /\ c = pc[t]
      OBVIOUS
    <2>5. a \in Nat /\ u \in Nat /\ n \in Nat /\ c \in Nat /\ y = a + c - 1 /\ n <= u /\ c <= n
      BY <1>4, <1>5, <1>6, <2>2, <2>3, <2>4
    <2>6. y < a + u
      BY <2>5
    <2>7. QED
      BY <2>4, <2>6 DEF UpTo
  <1>8. y \in Items => Unread(y)
    BY <1>3, <1>4, <1>6, <1>7 DEF FlatThread
  <1>9. /\ DOMAIN reads' = Items
        /\ \A x \in Items : reads'[x] \in {0, 1} /\ (y \in Items => (Unread(x)' <=> Unread(x) /\ x # y))
    <2>1. DOMAIN reads = Items /\ DOMAIN reads' = Items
      BY <1>2 DEF FlatInv
    <2> SUFFICES ASSUME NEW x \in Items
                 PROVE  reads'[x] \in {0, 1} /\ (y \in Items => (Unread(x)' <=> Unread(x) /\ x # y))
      BY <2>1
    <2>2. CASE x = y
      BY <1>2, <1>8, <2>1, <2>2 DEF Unread
    <2>3. CASE x # y
      BY <1>2, <2>1, <2>3 DEF FlatInv, Unread
    <2>4. QED
      BY <2>2, <2>3
  <1>10. SUFFICES ASSUME ~ failed' PROVE FlatInv'
    BY <1>9 DEF FlatInv
  <1>11. y \in Items
    BY <1>2, <1>10
  <1>12. /\ SameMain /\ UNCHANGED <<usage_unknown, pos, used_by_tape>> /\ LineEnd' = LineEnd
         /\ numt' = numt
    BY <1>2 DEF SameMain, main, LineEnd, numt
  <1>13. \A s \in Threads : /\ Working(s)' <=> Working(s)
                            /\ UnknownTape(s)' = UnknownTape(s) /\ UpTo(s)' = UpTo(s)
    BY <1>2, <1>12 DEF Working, MainHas, SameMain, UnknownTape, UpTo, Tape
  <1>14. /\ usage'[t] = y + 1 /\ pc'[t] = pc[t] + 1
         /\ \A s \in Threads \ {t} : usage'[s] = usage[s] /\ pc'[s] = pc[s]
    BY <1>1, <1>2, ThreadBasics
  <1>15. FlatThread(t)'
    <2>1. Reached(t)' = y + 1
      BY <1>2, <1>14 DEF Reached
    <2>2. \A x \in Items : y + 1 <= x => x # y /\ y <= x
      BY <1>4 DEF Items
    <2>3. \A x \in Items : Reached(t)' <= x /\ (UnknownTape(t)' \/ x < UpTo(t)') => Unread(x)'
      BY <1>3, <1>6, <1>9, <1>11, <1>13, <2>1, <2>2 DEF FlatThread
    <2>4. usage'[t] = asked'[t].pos + pc'[t] - 1
      <3>1. PICK a, c : a = asked[t].pos /\ c = pc[t] /\ a \in Nat /\ c \in Nat /\ y = a + c - 1
        BY <1>4, <1>5, <1>6
      <3>2. asked'[t].pos = a /\ pc'[t] = c + 1 /\ usage'[t] = y + 1
        BY <1>2, <1>14, <3>1
      <3>3. y + 1 = a + (c + 1) - 1
        BY <3>1
      <3>4. QED
        BY <3>2, <3>3
    <2>5. QED
      BY <1>3, <1>12, <1>13, <2>3, <2>4 DEF FlatThread
  <1>16. ASSUME NEW s \in Threads \ {t}, Working(s)
         PROVE  FlatThread(s)'
    <2>1. FlatThread(s) /\ asked[s].pos \in Nat /\ UpTo(s) \in Nat /\ usage[s] \in Nat
      BY <1>16, WorkingKnows DEF FlatInv
    <2>2. ~ UnknownTape(s) /\ ~ UnknownTape(t)
      <3>1. s \in 1 .. numt /\ t \in 1 .. numt /\ numt \in Nat
        BY <1>3, <1>16, WorkingKnows
      <3>2. numt # 1
        BY <3>1
      <3>3. QED
        BY <1>3, <2>1, <3>2 DEF FlatThread
    <2>3. asked[s].pos <= Reached(s) /\ Reached(s) \in Nat
      <3>1. CASE tpc[s] \in {"wait", "waiting", "reset", "seek"}
        BY <2>1, <3>1 DEF Reached
      <3>2. CASE tpc[s] \notin {"wait", "waiting", "reset", "seek"}
        <4>1. (Offered(s) \/ Taken(s)) /\ asked[s].tape \in DOMAIN prog.tapes
          BY <1>16, WorkingKnows
        <4>2. tpc[s] \in {"execute", "finish", "joining"} /\ Taken(s)
          BY <3>2, <4>1 DEF Offered, Taken
        <4>3. tpc[s] # "joining"
          BY FlatExecutes DEF Executing
        <4>4. pc[s] \in 1 .. Len(Code(s)) + 1 /\ program[s] = asked[s].tape
          BY <4>2 DEF Taken
        <4>5. Code(s) \in Seq(Instr)
          BY <1>4, <4>1, <4>4, TapeFacts DEF Code
        <4>6. pc[s] \in Nat /\ pc[s] >= 1
          BY <4>4, <4>5
        <4>7. usage[s] = asked[s].pos + pc[s] - 1 /\ Reached(s) = usage[s]
          BY <2>1, <3>2, <4>2, <4>3 DEF FlatThread, Reached
        <4>8. QED
          BY <2>1, <4>6, <4>7
      <3>3. QED
        BY <3>1, <3>2
    <2>4. \A x \in Items : Reached(s) <= x /\ x < UpTo(s) => x # y
      <3>1. s \in Nat /\ t \in Nat
        BY ThreadBasics
      <3>2. CASE s < t
        <4>1. UpTo(s) <= asked[t].pos
          BY <1>3, <1>16, <3>2 DEF FlatInv
        <4>2. UpTo(s) <= y
          BY <1>4, <1>5, <1>6, <2>1, <4>1, ExecutingKnows, <1>2, SMTT(30) DEF Executing
        <4>3. QED
          BY <1>4, <2>1, <4>2
      <3>3. CASE t < s
        <4>1. UpTo(t) <= asked[s].pos
          BY <1>3, <1>16, <3>3 DEF FlatInv
        <4>2. y < Reached(s)
          BY <1>4, <1>7, <2>1, <2>2, <2>3, <4>1
        <4>3. QED
          BY <1>4, <2>3, <4>2
      <3>4. QED
        BY <3>1, <3>2, <3>3
    <2>5. Reached(s)' = Reached(s)
      BY <1>2, <1>14 DEF Reached
    <2>6. QED
      BY <1>2, <1>9, <1>11, <1>12, <1>13, <1>14, <2>1, <2>2, <2>4, <2>5 DEF FlatThread
  <1>17. \A s \in Threads : Working(s)' => FlatThread(s)'
    BY <1>13, <1>15, <1>16
  <1>18. \A s, u \in Threads : Working(s)' /\ Working(u)' /\ s < u => UpTo(s)' <= asked'[u].pos
    BY <1>2, <1>13 DEF FlatInv
  <1>19. usage_unknown' => FlatUnknown'
    <2>1. SUFFICES ASSUME usage_unknown PROVE FlatUnknown'
      BY <1>12
    <2>2. FlatUnknown /\ 1 \in Threads
      BY <1>10, <2>1, ThreadBasics DEF FlatInv
    <2>3. t = 1
      BY <1>3, <2>2, WorkingKnows DEF FlatUnknown
    <2>4. QED
      BY <1>2, <1>3, <1>12, <1>13, <2>2, <2>3 DEF FlatUnknown, SameMain
  <1>20. ~ usage_unknown' => UnreadFrom(LineEnd)'
    <2>1. SUFFICES ASSUME ~ usage_unknown PROVE UnreadFrom(LineEnd)'
      BY <1>12
    <2>2. UnreadFrom(LineEnd)
      BY <2>1 DEF FlatInv
    <2>3. ~ UnknownTape(t) /\ UpTo(t) <= LineEnd
      BY <1>3, <2>1 DEF FlatThread
    <2>4. LineEnd \in Nat
      BY MainKnows DEF LineEnd
    <2>5. \A x \in Items : LineEnd <= x => x # y
      BY <1>4, <1>7, <2>3, <2>4
    <2>6. QED
      BY <1>9, <1>11, <1>12, <2>2, <2>5 DEF UnreadFrom
  <1>21. QED
    BY <1>9, <1>17, <1>18, <1>19, <1>20 DEF FlatInv

(* The steps of a thread: a flat tape neither runs others nor joins them.   *)
LEMMA FlatThreadStep ==
  ASSUME IInv, FlatInv, ~ Nested(prog), NEW t \in Threads, ThreadNext(t)
  PROVE  FlatInv'
  <1>1. ~ failed /\ prog' = prog
    BY DEF ThreadNext
  <1>2. ~ Run(t)
    <2>1. SUFFICES ASSUME Run(t) PROVE FALSE
      OBVIOUS
    <2>2. tpc[t] = "execute" /\ pc[t] \in DOMAIN Code(t) /\ Instruction(t).op = "run"
      BY <2>1 DEF Run, Executes, Instruction
    <2>3. QED
      BY <2>2, FlatExecutes DEF Executing
  <1>3. ~ WaitForThread(t) /\ ~ JoinThread(t)
    <2>1. SUFFICES ASSUME \/ tpc[t] = "joining"
                          \/ tpc[t] = "execute" /\ pc[t] \in DOMAIN Code(t) /\ Instruction(t).op = "join"
                   PROVE  FALSE
      BY DEF WaitForThread, JoinThread, Executes, Instruction
    <2>2. QED
      BY <2>1, FlatExecutes DEF Executing
  <1>4. QED
    BY <1>1, <1>2, <1>3, FlatThreadQuiet, FlatUse, FlatEndTape, FlatFinish DEF ThreadNext

(* The main thread outside of the lines: the position is where it was.      *)
LEMMA FlatOutside ==
  ASSUME IInv, FlatInv, ~ failed, prog' = prog,
         \/ SyncWait \/ SyncWoken \/ SyncDone \/ BeginLine \/ Kill \/ Release \/ ThreadGone
  PROVE  FlatInv'
  <1>1. /\ mpc \in Starting \cup Ending \cup {"line"} /\ line' = line
        /\ UNCHANGED <<reads, asked, failed, usage_unknown, pos, used_by_tape>>
        /\ mpc' \in Starting \cup Ending \cup {"line"} \/ (mpc' = "run" /\ i' = 1)
    BY DEF SyncWait, SyncWoken, SyncDone, BeginLine, Kill, Release, ThreadGone, history, Starting, Ending
  <1>2. \A s \in Threads : ~ MainHas(s)'
    <2> TAKE s \in Threads
    <2>1. s \in Nat \ {0}
      BY ThreadBasics
    <2>2. QED
      BY <1>1, <2>1 DEF MainHas, Starting, Ending
  <1>3. \A s \in Threads : ~ Working(s)'
    BY <1>2 DEF Working
  <1>4. LineEnd' = LineEnd
    BY <1>1 DEF LineEnd, Starting, Ending
  <1>5. ~ usage_unknown
    BY <1>1 DEF FlatInv, FlatUnknown, Starting, Ending
  <1>6. QED
    BY <1>1, <1>3, <1>4, <1>5, FlatKept

(* The main thread within a line.  It has joined all when none works.       *)
LEMMA FlatInside ==
  ASSUME IInv, FlatInv, ~ failed, prog' = prog, IncreasePosition \/ JoinWait \/ JoinTape
  PROVE  FlatInv'
  <1>1. PICK j : j = i
    OBVIOUS
  <1>2. /\ i = j /\ line' = line /\ UNCHANGED <<reads, asked, failed, usage_unknown, tinfo, threads>>
        /\ \/ /\ mpc = "increase" /\ pos' = pos + used_by_tape
              /\ IF j = numt THEN mpc' = "join" /\ i' = 1 ELSE mpc' = "run" /\ i' = j + 1
           \/ mpc = "join" /\ ~ tinfo[j].finished /\ mpc' = "joining" /\ i' = j /\ pos' = pos
           \/ /\ mpc \in {"join", "joining"} /\ pos' = pos
              /\ (mpc = "join" /\ tinfo[j].finished) \/ (mpc = "joining" /\ Main \notin client_ready[j])
              /\ IF j = numt THEN mpc' = "joined" /\ i' = 1 ELSE mpc' = "join" /\ i' = j + 1
    BY <1>1 DEF IncreasePosition, JoinWait, JoinTape, Joined, history
  <1>3. /\ j \in Threads /\ j \in Nat \ {0} /\ line \in DOMAIN prog.schedule
        /\ numt \in Nat /\ j <= numt /\ numt' = numt
    BY <1>2, MainKnows, LineKnows, ThreadBasics DEF InLine, numt
  <1>4. UNCHANGED <<tpc, pc, usage>> /\ LineEnd' = LineEnd
    BY <1>2 DEF threads, LineEnd
  <1>5. mpc \in {"join", "joining"} /\ mpc' # "joining" => tinfo[j].finished
    BY <1>2, <1>3 DEF IInv, ThreadInv, ClientWaits, MainWaits
  <1>6. \A s \in Threads : Working(s)' <=> Working(s)
    <2> TAKE s \in Threads
    <2>1. s \in Nat \ {0}
      BY ThreadBasics
    <2>2. CASE mpc = "increase"
      BY <1>2, <1>3, <2>1, <2>2 DEF Working, MainHas
    <2>3. CASE mpc # "increase" /\ mpc' = "joining"
      BY <1>2, <1>3, <2>1, <2>3 DEF Working, MainHas
    <2>4. CASE mpc \in {"join", "joining"} /\ mpc' # "joining"
      <3>1. tinfo[j].finished /\ (s # j => (j <= s <=> j + 1 <= s))
        BY <1>3, <1>5, <2>1, <2>4
      <3>2. CASE j = numt
        BY <1>2, <1>3, <2>1, <2>4, <3>1, <3>2 DEF Working, MainHas
      <3>3. CASE j # numt
        BY <1>2, <1>3, <2>1, <2>4, <3>1, <3>3 DEF Working, MainHas
      <3>4. QED
        BY <3>2, <3>3
    <2>5. QED
      BY <1>2, <2>2, <2>3, <2>4
  <1>7. ASSUME NEW s \in Threads, Working(s)'
        PROVE  /\ Working(s) /\ Reached(s)' = Reached(s)
               /\ tpc'[s] \in {"execute", "finish"} => usage'[s] = asked[s].pos + pc'[s] - 1
    <2>1. Working(s) /\ FlatThread(s)
      BY <1>6, <1>7 DEF FlatInv
    <2>2. QED
      BY <1>2, <1>4, <2>1 DEF FlatThread, Reached
  <1>8. usage_unknown => FlatUnknown'
    <2>1. SUFFICES ASSUME usage_unknown PROVE FlatUnknown'
      OBVIOUS
    <2>2. FlatUnknown /\ 1 \in Threads
      BY <2>1, ThreadBasics DEF FlatInv
    <2>3. mpc' \in {"join", "joining", "joined"}
      BY <1>2, <1>3, <2>2 DEF FlatUnknown
    <2>4. UnknownTape(1)' = UnknownTape(1) /\ (Working(1)' <=> Working(1))
      BY <1>2, <1>6, <2>2 DEF UnknownTape, Tape
    <2>5. QED
      BY <1>2, <1>3, <1>4, <2>2, <2>3, <2>4 DEF FlatUnknown, UnreadFrom, Unread
  <1>9. QED
    BY <1>2, <1>4, <1>7, <1>8, FlatKept

(* After a tape of unknown usage the position is where the tape has ended.  *)
LEMMA FlatEndLine ==
  ASSUME IInv, FlatInv, ~ failed, prog' = prog, EndLine
  PROVE  FlatInv'
  <1>1. /\ mpc = "joined" /\ mpc' = "line" /\ ~ usage_unknown'
        /\ pos' = IF usage_unknown THEN tinfo[1].pos ELSE pos
        /\ reads' = reads
    BY DEF EndLine, history
  <1>2. \A s : ~ Working(s)' /\ ~ Working(s)
    BY <1>1 DEF Working, MainHas
  <1>3. UnreadFrom(pos')
    BY <1>1, <1>2 DEF FlatInv, FlatUnknown, LineEnd
  <1>4. UnreadFrom(LineEnd)'
    BY <1>1, <1>3 DEF UnreadFrom, Unread, LineEnd
  <1>5. DOMAIN reads' = Items /\ \A x \in Items : reads'[x] \in {0, 1}
    BY <1>1 DEF FlatInv
  <1>6. QED
    BY <1>1, <1>2, <1>4, <1>5 DEF FlatInv

(* A tape is started where the last one of the line ends; one of unknown    *)
(* usage must be alone.                                                     *)
LEMMA FlatRunTape ==
  ASSUME IInv, FlatInv, ~ failed, prog' = prog, RunTape
  PROVE  FlatInv'
  <1>1. PICK j, n, a : j = i /\ n = prog.schedule[line][j].tape /\ a = prog.schedule[line][j].arg
    OBVIOUS
  <1>2. /\ mpc = "run" /\ i = j /\ i' = j /\ mpc' = "increase" /\ line' = line /\ pos' = pos
        /\ HandOver(j, n, a)
        /\ used_by_tape' = Returned(n)
        /\ failed' = (Tape(n).unknown /\ numt > 1)
        /\ usage_unknown' = (usage_unknown \/ (Tape(n).unknown /\ numt <= 1))
        /\ UNCHANGED <<threads, reads>>
    <2>1. HandOver(j, n, a)
      BY <1>1 DEF RunTape, HandOver, Signal
    <2>2. QED
      BY <1>1, <2>1 DEF RunTape
  <1>3. /\ j \in Threads /\ j \in Nat \ {0} /\ line \in DOMAIN prog.schedule /\ numt \in Nat
        /\ j <= numt /\ prog \in Programs /\ numt' = numt /\ pos \in Nat
    BY <1>2, MainKnows, LineKnows, ThreadBasics DEF InLine, numt
  <1>4. n \in DOMAIN prog.tapes /\ a \in Nat /\ n \in Nat \ {0}
    <2>1. j \in 1 .. Len(prog.schedule[line])
      BY <1>3 DEF numt
    <2>2. n \in DOMAIN prog.tapes /\ a \in Nat
      BY <1>1, <1>3, <2>1, LineFacts
    <2>3. QED
      BY <1>3, <2>2, ProgramFacts
  <1>5. Returned(n) \in Nat /\ Tape(n).unknown \in BOOLEAN /\ Tape(n).usage \in Nat
    BY <1>3, <1>4, TapeFacts
  <1>6. /\ asked'[j].tape = n /\ asked'[j].pos = pos /\ ~ tinfo'[j].finished
        /\ \A s \in Threads \ {j} : tinfo'[s] = tinfo[s] /\ asked'[s] = asked[s]
    BY <1>2, <1>3, <1>4, Offering
  <1>7. DOMAIN reads' = Items /\ \A x \in Items : reads'[x] \in {0, 1}
    BY <1>2 DEF FlatInv
  <1>8. SUFFICES ASSUME ~ failed' PROVE FlatInv'
    BY <1>7 DEF FlatInv
  <1>9. ~ usage_unknown /\ UnreadFrom(pos) /\ LineEnd = pos
    BY <1>2 DEF FlatInv, FlatUnknown, LineEnd
  <1>10. /\ Tape(n).unknown => numt = 1 /\ usage_unknown' /\ used_by_tape' = 0
         /\ ~ Tape(n).unknown => ~ usage_unknown' /\ used_by_tape' = Tape(n).usage
    BY <1>2, <1>3, <1>5, <1>8, <1>9 DEF Returned
  <1>11. \A s \in Threads \ {j} : Working(s)' <=> Working(s)
    <2> TAKE s \in Threads \ {j}
    <2>1. s \in Nat
      BY ThreadBasics
    <2>2. QED
      BY <1>2, <1>3, <1>6, <2>1 DEF Working, MainHas
  <1>12. Working(j)'
    BY <1>2, <1>3, <1>6 DEF Working, MainHas
  <1>13. tpc'[j] = tpc[j] /\ tpc[j] \in {"wait", "waiting"}
    <2>1. ~ Busy(j)
      BY <1>2, <1>3, NotNestedYet DEF Busy, MainHas
    <2>2. QED
      BY <1>2, <1>3, <2>1, IdleInLine DEF InLine, Idle, threads
  <1>14. UnknownTape(j)' = Tape(n).unknown /\ UpTo(j)' = pos + Tape(n).usage
    BY <1>6 DEF UnknownTape, UpTo, Tape
  <1>15. LineEnd' = pos + used_by_tape' /\ used_by_tape' \in Nat
    BY <1>2, <1>5 DEF LineEnd
  <1>16. FlatThread(j)'
    <2>1. Reached(j)' = pos
      BY <1>6, <1>13 DEF Reached
    <2>2. \A x \in Items : pos <= x => Unread(x)'
      BY <1>2, <1>9 DEF UnreadFrom, Unread
    <2>3. ~ UnknownTape(j)' => UpTo(j)' <= LineEnd'
      BY <1>3, <1>5, <1>10, <1>14, <1>15
    <2>4. UnknownTape(j)' => numt' = 1 /\ usage_unknown'
      BY <1>3, <1>10, <1>14
    <2>5. tpc'[j] \notin {"execute", "finish"}
      BY <1>13
    <2>6. QED
      BY <2>1, <2>2, <2>3, <2>4, <2>5 DEF FlatThread
  <1>17. ASSUME NEW s \in Threads \ {j}, Working(s)
         PROVE  FlatThread(s)' /\ s < j /\ UpTo(s)' <= pos
    <2>1. FlatThread(s) /\ UpTo(s) \in Nat
      BY <1>17, WorkingKnows DEF FlatInv
    <2>2. s < j /\ s \in Nat /\ s >= 1
      BY <1>2, <1>17, ThreadBasics DEF Working, MainHas
    <2>3. numt # 1
      BY <1>3, <2>2
    <2>4. ~ UnknownTape(s) /\ UpTo(s) <= pos
      BY <1>9, <2>1, <2>3 DEF FlatThread
    <2>5. UnknownTape(s)' = UnknownTape(s) /\ UpTo(s)' = UpTo(s) /\ Reached(s)' = Reached(s)
      BY <1>2, <1>6 DEF UnknownTape, UpTo, Tape, Reached, threads
    <2>6. UpTo(s)' <= LineEnd'
      BY <1>3, <1>15, <2>1, <2>4, <2>5
    <2>7. asked'[s] = asked[s] /\ UNCHANGED <<tpc, usage, pc, reads>>
      BY <1>2, <1>6 DEF threads
    <2>8. QED
      BY <2>1, <2>2, <2>4, <2>5, <2>6, <2>7 DEF FlatThread, Unread
  <1>18. \A s \in Threads : Working(s)' => FlatThread(s)'
    BY <1>11, <1>16, <1>17
  <1>19. ASSUME NEW s \in Threads, NEW u \in Threads, Working(s)', Working(u)', s < u
         PROVE  UpTo(s)' <= asked'[u].pos
    <2>1. s \in Nat /\ u \in Nat
      BY ThreadBasics
    <2>2. CASE u = j
      <3>1. s # j
        BY <1>19, <2>1, <2>2
      <3>2. UpTo(s)' <= pos
        BY <1>11, <1>17, <1>19, <3>1
      <3>3. QED
        BY <1>6, <2>2, <3>2
    <2>3. CASE u # j
      <3>1. Working(u) /\ u < j
        BY <1>11, <1>17, <1>19, <2>3
      <3>2. s # j /\ Working(s)
        BY <1>3, <1>11, <1>19, <2>1, <3>1
      <3>3. UpTo(s) <= asked[u].pos
        BY <1>19, <3>1, <3>2 DEF FlatInv
      <3>4. UpTo(s)' = UpTo(s) /\ asked'[u] = asked[u]
        BY <1>6, <2>3, <3>2 DEF UpTo, Tape
      <3>5. QED
        BY <3>3, <3>4
    <2>4. QED
      BY <2>2, <2>3
  <1>20. usage_unknown' => FlatUnknown'
    <2>1. SUFFICES ASSUME usage_unknown' PROVE FlatUnknown'
      OBVIOUS
    <2>2. Tape(n).unknown /\ numt = 1
      BY <1>2, <1>9, <1>10, <2>1
    <2>3. j = 1
      BY <1>3, <2>2
    <2>4. tpc'[1] # "finish"
      BY <1>13, <2>3
    <2>5. QED
      BY <1>2, <1>3, <1>12, <1>14, <2>2, <2>3, <2>4 DEF FlatUnknown
  <1>21. UnreadFrom(LineEnd)'
    <2>1. \A x \in Items : pos + used_by_tape' <= x => pos <= x
      <3>1. PICK p, u : p = pos /\ u = used_by_tape' /\ p \in Nat /\ u \in Nat
        BY <1>3, <1>15
      <3>2. \A x \in Items : x \in Int
        BY DEF Items
      <3>3. ASSUME NEW x \in Int, p + u <= x
            PROVE  p <= x
        <4>1. p \in Int /\ u \in Int /\ 0 <= u
          BY <3>1
        <4>2. QED
          BY <3>3, <4>1
      <3>4. QED
        BY <3>1, <3>2, <3>3
    <2>2. QED
      BY <1>2, <1>9, <1>15, <2>1 DEF UnreadFrom, Unread
  <1>22. QED
    BY <1>7, <1>18, <1>19, <1>20, <1>21 DEF FlatInv

LEMMA FlatMainStep ==
  ASSUME IInv, FlatInv, MainNext
  PROVE  FlatInv'
  BY FlatOutside, FlatInside, FlatEndLine, FlatRunTape DEF MainNext

(* The invariant of flat programs.                                          *)
THEOREM FlatInvariance == Spec => [](~ Nested(prog) => FlatInv)
  <1> DEFINE Flat == ~ Nested(prog) => FlatInv
  <1>1. Init => Flat
    <2>1. SUFFICES ASSUME Init PROVE FlatInv
      OBVIOUS
    <2>2. /\ reads = [x \in Items |-> 0] /\ usage_unknown = FALSE /\ mpc = "sync"
      BY <2>1 DEF Init
    <2>3. \A t \in Threads : ~ Working(t)
      BY <2>2 DEF Working, MainHas
    <2>4. QED
      BY <2>2, <2>3 DEF FlatInv, UnreadFrom, Unread
  <1>2. IInv /\ Flat /\ [Next]_vars => Flat'
    <2>1. SUFFICES ASSUME IInv, Flat, [Next]_vars, ~ Nested(prog)' PROVE FlatInv'
      OBVIOUS
    <2>2. prog' = prog
      BY <2>1 DEF Next, MainNext, ThreadNext, vars
    <2>3. ~ Nested(prog) /\ FlatInv
      BY <2>1, <2>2 DEF Nested
    <2>4. CASE MainNext
      BY <2>1, <2>3, <2>4, FlatMainStep
    <2>5. CASE \E t \in Threads : ThreadNext(t)
      BY <2>1, <2>3, <2>5, FlatThreadStep
    <2>6. CASE UNCHANGED vars
      BY <2>3, <2>6 DEF vars, main, threads, history, FlatInv, FlatThread, FlatUnknown, Working, MainHas,
         UnknownTape, UpTo, Reached, LineEnd, Unread, UnreadFrom, Tape, numt
    <2>7. QED
      BY <2>1, <2>4, <2>5, <2>6 DEF Next
  <1>3. QED
    BY <1>1, <1>2, Invariance, PTL DEF Spec

(* Where no tape starts another, no item of offline data is read twice: the *)
(* positions that the main thread hands out keep threads and lines apart,   *)
(* also when a tape uses less than it declares or declares nothing.         *)
THEOREM FlatReadsOnce == Spec => []FlatUsedOnce
  <1>1. (~ Nested(prog) => FlatInv) => FlatUsedOnce
    BY DEF FlatInv, FlatUsedOnce, UsedOnce
  <1>2. QED
    BY <1>1, FlatInvariance, PTL

(* Where no tape starts another, the machine's position after each line     *)
(* lies behind all that has been read: what pruning leaves is unused.       *)
THEOREM PositionCoversReads == Spec => []RecordComplete
  <1>1. IInv /\ (~ Nested(prog) => FlatInv) => RecordComplete
    <2>1. SUFFICES ASSUME IInv, FlatInv, mpc \in {"line", "kill"}, NEW x \in Items, reads[x] > 0
                   PROVE  x < pos
      BY DEF RecordComplete
    <2>2. ~ failed /\ ~ usage_unknown
      BY <2>1, MainKnows DEF InLine, FlatInv, FlatUnknown
    <2>3. ~ (pos <= x)
      BY <2>1, <2>2 DEF FlatInv, UnreadFrom, Unread, LineEnd
    <2>4. pos \in Nat /\ x \in Int
      BY <2>1, MainKnows DEF Items
    <2>5. QED
      BY <2>3, <2>4
  <1>2. QED
    BY <1>1, Invariance, FlatInvariance, PTL
=============================================================================
