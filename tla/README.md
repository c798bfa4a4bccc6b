# A TLA+ model of SPDZ-Yao

SPDZ-Yao is SPDZ-2 (multi-party computation with a preprocessing phase) extended
by a Boolean virtual machine and by Yao's garbled circuits between two players.
This directory models the part that the repository adds, the two-party protocol of
`yao-player.x` and `yao-simulate.x` with its multithreaded garbling and the evaluator's
message store; the BMR protocol between more parties, its network and its garbling; and
of SPDZ-2 the threads of the online machine, the merging and reordering of a block by
the compiler together with the players that run it, openings and their MAC checks, the
threads of the triple generator and what they compute, the compiler's library (ORAMs,
protocols on secret integers, sorting and permutation networks), the two tables of
instruction formats, and the arithmetic of the fields.
Lines are those of the files under `src/`.

Contents: [system](#the-system) · [modules](#modules-and-code) ·
[runs](#what-the-runs-check) · [fairness](#fairness) · [proofs](#what-is-proved) ·
[findings](#findings) · [limits](#what-is-not-modelled) · [plan](#plan)

## The system

### Parts that are modelled

**Yao gates and wires** (`Yao/YaoGate`, `YaoGarbleWire`, `YaoEvalWire`, `BMR/Key.h`).
State: on the garbler, a key and a mask bit per wire, the global `delta`, the gate
counter and the buffers `gates` and `output_masks`; on the evaluator, a key and an
external bit per wire, a gate counter and the positions in the received buffers.
Operations: public input, random bit, XOR without communication, AND alone or in an
`ANDRS` with its labels hashed in advance, copy, reveal.
Hard: each player numbers gates on its own, an `ANDRS` is hashed in advance on one
side and gate by gate on the other, and the external bit is carried beside the key it
must agree with.
Correct if: the evaluator has exactly one of the two keys of each wire, and what it
reveals is what the plain circuit computes.

**Yao players** (`YaoPlayer`, `YaoGarbler`, `YaoEvaluator`, `YaoSimulator`).
State: the batch in the buffers, the break that ended it, the complexity since the
last one, the connection, the two stores. Operations: execute until a break, send and
clear, receive or peek, push, pop, hand over.
Interaction: two untagged messages per batch, and a long -1 after the last.
Hard: nothing in a message says where a batch ends or which of the two it is; reads
of the buffers are not checked; the result of `pop` is ignored.
Correct if: no buffer is read past its end or dropped with something left in it, and
batches, messages and stores together are the two streams of the gates module.

**Multithreaded garbling** (`YaoGarbleWire::andrs_multithread`, `YaoAndJob.h`,
`Worker.h`, `WaitQueue.h`). State: one job object and two queues per worker,
`and_jobs` indexed without a check, raw pointers into the gate buffer. Operations:
cut an instruction into jobs, queue them, garble, report back, stop and join.
Hard: job fields are read and advanced without a lock; `pop` tests with `if` and
returns `running` after unlocking; workers write output wires while others read
inputs.
Correct if: for every interleaving the result is that of one thread garbling one
instruction after the other, and everybody terminates.

**Message store** (`Tools/FlexBuffer`). State: a ring of moved buffers, and files.
Operations: push, pop. Hard: after pops the ring has room while older messages are in
files. Correct if: ring and files are one queue and each buffer has one owner.

**Garbled-circuit VM** (`GC/`). State: program counter, registers, complexity.
Operations: the instructions of `GC/instructions.h`, the breaks of
`Program::execute`. Only what reaches the wires is modelled; a tape is a trace of it.

**Compiler of circuits** (`Compiler/GC`): only what it promises of a tape, as the
assumption `WellFormed` of `GCTape` and `WellFormedInstr` of `AndInstrs`.

**Online machine and threads** (`Processor/Machine.cpp`, `Online-Thread.cpp`).
State: per thread a `thread_info` with program, argument, position and two flags, under
a mutex with two condition variables; the machine's own position in the offline data.
Operations: start a tape in a thread and join it, from the schedule or from a tape that
runs in another thread; shutdown in two rounds.
Hard: waits test with `if`; the thread reads argument and position after unlocking; the
machine's position moves on only after the thread has started; a tape of unknown usage
tells its position at its end.
Correct if: each tape runs once with what it was given, a join returns after that tape,
no item of offline data is used twice, and what remains in the files is unused.

**Offline data** (`Processor/Data_Files`): positions in one file in the machine, the
sequences of tuples and masks in the processor.

**Merging of blocks** (`Compiler/allocator.py`, `graph.py`, `program.py`). State: the
dependency graph of a block, openings by round, inputs by player. Operations: eliminate
dead code, merge openings and inputs, choose a pre-order, sort, give out registers.
Hard: what may pass what is decided by the class of an instruction; dependencies through
memory and through the order of communication are edges that can be forgotten.
Correct if: the reordered block, run by players who only exchange messages, has the
outputs and memory of the block as written.

**Online processor** (`Processor/Processor`, `Instruction`, `Input`, `PrivateOutput`,
`Math/Share`). State: registers, memory, the vectors of openings, inputs and private
outputs that have begun, positions in the offline data. Operations: the instructions.
Interaction: a message per player for an opening or an input, matched by order alone;
all instructions and both fields share a connection.
Correct if: every MAC fits its value, and the above.

**MAC checks** (`Auth/MAC_Check`). State: lists of values and of MACs and the number of
values complete. Operations: begin and end an opening by a tree of sums, directly or by
passing on; add; check. Hard: values and MACs are stored at different times, and a check
cuts both lists while openings are under way.
Correct if: each MAC is checked with its value, and all players check alike.

**BMR network** (`BMR/network`). State: per node, who has identified itself, a map from
connections to parties, a counter of those that know all others, a queue and a send thread
per connection. Operations: connect, identify, become ready, send, stop. Hard: one listener
thread per connection with hardly a lock; a node that identifies itself after it has said
that it knows all others; the first messages of a fast party; stopping with messages queued.

**BMR parties** (`BMR/Party`, `TrustedParty`, `CommonParty`). State: a store for each kind
of message, counters of answers. Operations: the cases of `NewMessage`, and evaluation.
Interaction: the trusted party sends keys and masks, the parties return PRFs, it garbles
and sends the circuit, piece by piece; then it launches the evaluation.
Correct if: what is used together belongs to one piece, nothing needed is lost when the
first party stops, and all return.

**BMR gates** (`BMR/Register`, `GarbledGate`). One program is executed four times with
different registers (`RandomRegister`, `PRFRegister`, `GarbleRegister`, `EvalRegister`),
which hand each other keys, masks, function values, wires and gates in streams without
tags. Correct if: streams are read as they were written, every label is the right one of
two, and all parties reveal what the plain circuit computes.

**Triple generator** (`OT/TripleMachine`, `NPartyTripleGenerator`, `OTMultiplier`). State:
a mutex and a condition variable per multiplier, without a flag. Operations: signal and
wait in both directions, oblivious transfers with the counterpart. Hard: a signal without
a waiter is lost; all players' waits together must have no cycle.
Correct if: what is added up is this loop's products, and everyone ends.

**Values of the triple generator** (`OT/OTExtensionWithMatrix`, `BitMatrix`,
`OTMultiplier`, `NPartyTripleGenerator`). State: matrices of bits and vectors of shares
per player. Operations: extend the base transfers by transposes, check the correlation,
multiply, amplify, authenticate, sacrifice. Hard: sender and receiver shuffle the same
matrices in mirrored order, and sizes are cut to multiples of squares.
Correct if: the products of all pairs add up to triples and MACs.

**Compiler's library** (`Compiler/oram.py`, `path_oram.py`, `circuit_oram.py`,
`comparison.py`, `floatingpoint.py`, `permutation.py`, `library.py`). Programs that
compute on secrets with a fixed flow of control. State: only the ORAMs have one, their
buckets, stash and position map. Operations: read and write at a secret index with the
evictions that follow; compare, truncate, shift, decompose, normalize; sort, permute,
split a loop among threads. Hard: an entry must be where its leaf says after any sequence
of evictions; masks must hide and not wrap; networks are built by index arithmetic.
Correct if: an ORAM is an array, and a call returns what its operator says.

**Instruction formats and clear instructions** (`Compiler/instructions.py`,
`instructions_base.py`; `Processor/Instruction`). Two tables kept by hand, of opcodes,
arguments and register types. Correct if: the machine reads back what the compiler has
written, has room for each register named, and computes on clear values what the
compiler's emulation does.

**Field arithmetic** (`Math/`). Limbs with Montgomery multiplication, conversions to and
from large and machine integers, GF(2^n) in one word and GF(2^128) in two lanes.
Hard: carries, partial words, reductions. Correct if: it is that of the field.

### Parts that are not modelled

Homomorphic encryption (`FHE/`) is arithmetic of polynomial rings with noise over data of
cryptographic size; its offline phase (`FHEOffline/`) is that arithmetic in rounds of
broadcasts that do not branch. The channels of STS are a key agreement whose content is
cryptographic. Circuit files of BMR and the parties for them, command-line tools, scripts
and the option parser are plain input and output. See also
[limits](#what-is-not-modelled).

## Modules and code

    PlainCircuit <--implements-- YaoGates <--implements-- YaoPlayers ....> Fifo
         |                        |                                        ^
       GCTape                  GCTape                                 implements
                                                                        MsgStore
    AndBatches <--implements-- AndJobs
         |                        |
     AndInstrs                AndInstrs

    TapePool <--implements-- MachineThreads

    TrustedMachine <--implements-- OnlineProcessor -- TapeMerger
         |                                                |
      Bytecode                                         Bytecode

    PlainCircuit <--implements-- BmrGates        BmrParties -- BmrNodes

    MacCheck        OtTriples        OramArray <--implements-- Oram -- Networks

    Calls -- SecretIntegers -- Networks
      |---- InstructionSet, PrimeField, BinaryField, OtExtension

A component's proofs are in `<component>_proofs`, those of `MsgStore` with the players that
use it, those of `AndJobs` and `OtTriples` together in `WorkerThreads_proofs`; facts about
sequences that several of them need are in `SequenceFacts`. `MC<component>` gives a
component's constants their values for a run; `MCSequential` puts `MsgStore`, `Oram` and
`Calls` into one.

| Module | Code | Correspondence |
| --- | --- | --- |
| `GCTape` | `GC/instructions.h`, `GC/Program.cpp`, the allocator | An entry is one tuple of an instruction, `i` of `n`. Branches test public integers, so a tape is the executed trace, the same on both sides. |
| `PlainCircuit` | `GC/FakeSecret`, `YaoGate` | Abstract: the tape on plain bits. |
| `YaoGates` | `YaoGarbleWire`, `YaoEvalWire`, `YaoGate`, `BMR/Key.h` | A key is the set of independent terms it is a sum of: `Delta`, the fresh key of each gate, values of the hash. Adding is the symmetric difference. One action per player; one disjunct per wire operation. `gkey`, `gmask` are the garbler's wire, `ekey`, `eext` the evaluator's, `glabels`, `elabels` the labels hashed in advance. `hkey`, `hmask`, `hctr`, `hout` are history. |
| `YaoPlayers` | `YaoPlayer`, `YaoGarbler`, `YaoEvaluator`, `YaoSimulator`, `Program::execute` | `gstate` and `estate` are the program counters of the two `run` functions; execution of an entry is that of `YaoGates`, instantiated once with each player's own buffers. |
| `Fifo` | what the evaluator expects of its stores | Abstract: a queue whose `pop` says whether there was a message. |
| `MsgStore` | `FlexBuffer.cpp` | `mem`, `start`, `mem_size`, `files` as in `ReceivedMsgStore`; a moved buffer is `Reset`. |
| `AndInstrs`, `AndBatches` | the sequential `andrs` | Abstract: an instruction is garbled at once. A gate is the record of the keys and number that went into it. |
| `AndJobs` | `andrs_multithread`, `YaoAndJob`, `Worker`, `WaitQueue.h` | What is under the lock of a queue is one operator; waiting and being woken are steps of their own. `pc`, `wpc` are the program counters of the main thread and the workers; `job[i]` is a `YaoAndJob`, `gates` a `SendBuffer` with its allocation, capacity and slots. `before` is history: what the registers, gates and counter were before the instruction in progress. |
| `TapePool` | what `run_tape` and `join_tape` are used for | Abstract: a thread finishes the tape it was given before it is given another. |
| `MachineThreads` | `Machine`, `Sub_Main_Func`, `Compiler/program.py`, `Processor/Program.cpp` | A program is its schedule and its tapes; of a tape, only the uses of offline data, `RUN_TAPE`, `JOIN_TAPE` and the usage it declares. `WellFormedProgram` is what the compiler promises. `mpc`, `tpc` are the program counters of main thread and threads, `tinfo` the `thread_info`s, `client_ready` and `server_ready` the sets of those that wait. What happens under the mutex is one step, except for the constructor, which keeps mutexes (`held`). `reads`, `asked`, `began` and `log` are history. Thread and tape numbers start at 1. |
| `Bytecode` | `Processor/Instruction`, `Data_Files` | An instruction is a record of its opcode, registers, immediate and player; `PlainRun` is what a program means on plain values. |
| `TapeMerger` | `Compiler/allocator.py`, `graph.py`, `Tape.optimize` | Pure operators, no state: `Compiled(source)` is the block after every pass. Nodes are positions in the block; helpers have the names of the methods of `Merger`. |
| `TrustedMachine` | what the online phase is for | Abstract: the source run by one machine that hands out public and private outputs. |
| `OnlineProcessor` | `Processor`, `Instruction::execute`, `Input`, `PrivateOutput`, `Share` | `cpu[p]` is a player's `Processor`, memory and files, `chan` the connections. An instruction is one step, except that it waits for its messages. `result` is auxiliary: what the trusted machine computes. |
| `MacCheck` | `Auth/MAC_Check`, `Subroutines.cpp`, `POpen_Begin` and `POpen_End` | `prog` is the calls of a thread, `pc` the call a player is in and `at` where in it: what is to be done next, with which player or in which round; `macs`, `vals`, `popen_cnt` as in the code. A sum is the bag of the shares in it. |
| `BmrNodes` | `BMR/network` | `conn` and `starter` are two threads of a node, `listener` one per connection; `chan` is queue, send thread and socket in one. |
| `BmrParties` | `BaseParty`, `ProgramParty`, `BaseTrustedParty`, `TrustedProgramParty` | One action per case of `NewMessage`, on top of the nodes; a message holds the number of its piece, which no action looks at. |
| `BmrGates` | `BMR/Register`, `GarbledGate`, `CommonParty` | One disjunct per operation of each of the four register types; each execution has its own position in the tape. Keys are sets of terms, as in `YaoGates`, with one difference per party. `P(i)` is the plain circuit as party `i` computes it. |
| `OtTriples` | `TripleMachine`, `NPartyTripleGenerator`, `OTMultiplier` | Program counters of main threads, generators and multipliers of all players; `gen_i`, `gen_k` and `main_j` are the loop variables `i`, `k` and `j`; `owner` and `waiting` are mutexes and condition variables. Bits are the loop and phase they are drawn in. |
| `OtExtension` | `OTExtensionWithMatrix`, `BitMatrix`, `OTMultiplier`, `NPartyTripleGenerator` | Pure operators: a row of bits is a number, a square a function to rows. A transfer, a product or a generator's loop is the pair or tuple of what its parties hold afterwards. |
| `OramArray` | what `AbstractORAM` promises | Abstract: an array with `NoValue` where nothing was written. |
| `Oram` | `oram.py`, `path_oram.py`, `circuit_oram.py` | `shape` is the kind and sizes; buckets, stash and the packed index are the program's state. An access is one step with all it does to buckets and index; evictions choose nothing but new leaves. |
| `SecretIntegers` | `comparison.py`, `floatingpoint.py`, `library.py` | An operator is the set of results over all random numbers that the protocol draws. |
| `Networks` | `permutation.py`, `library.py`, `floatingpoint.py` | A list is a function from 0; networks are the loops of the source as recursive operators. Also the bits of a number, and the prefixes computed in logarithmic rounds (`PreOpL`), which the other modules of the library use. |
| `InstructionSet` | `instructions.py`, `instructions_base.py`, `Instruction.h`, `Instruction.cpp` | Tables from instruction to code and argument types on either side; writing and parsing of words; `get_max_reg` and the sizes of the banks. |
| `PrimeField` | `Zp_Data`, `modp`, `gfp`, `bigint`, clear instructions of `Instruction.cpp` | A residue is an array of limbs, each operation is the loop over limbs with its carries. |
| `BinaryField` | `gf2n`, `gf2nlong` | A word is the set of the positions of its ones. |
| `Calls` | callers of the above: `types.py`, `Processor`, the offline phases | `call` is a function with its arguments, `result` what it returns; one step calls, another starts anew. |

### Abstractions

* *Keys.* 128-bit strings are free sums. Fresh keys are independent, the hash agrees
  only on equal inputs, and signal bits follow `Delta` alone: `randomize` clears the
  bit of every other key (`YaoGarbleWire.cpp`). The signal bit of a hash value, which
  is arbitrary, is taken to be 0; it can only matter to a key decrypted with the wrong
  hash, which the invariant excludes.
* *Wires.* A register holds one wire; tuples with several gates occur in `AndJobs`,
  where a register stands for all its wires.
* *Gates in `AndJobs`* are records of what they were made from, so that a gate made
  from the wrong key, under the wrong number or in the wrong place is a different gate.
* *Connection.* In order, reliable, bounded; whole messages. The tag `of` of a message
  is not in the code. No action depends on it but the one that peeks for -1, where it
  stands for the comparison with a length, and the properties use it.
* *Files* of the store never fail; the code throws if they do.
* *Offline data.* One type of data, of which an instruction takes one item; the buffer
  holds one. An item past the end of the file throws, as it does without `-DINSECURE`;
  the exception ends the process.
* *Unlocked accesses.* The machine's position is read by `run_tape`, which a tape may
  call, while the main thread changes it without a lock; each is one step, so that a
  reader finds the old or the new position and no mixture.
* *Checks of MACs and broadcasts* at the end of a tape wait for other parties; they are
  taken to succeed and leave no trace.
* *BMR keys.* As for Yao. In addition the signal bit of a PRF value is taken as 0, and
  inputs come one bit at a time.
* *BMR undefined behaviour.* Three races of the code end in behaviour it does not define:
  two listeners that both see the count complete and become ready twice; a PRF output
  that arrives while the vector for it is being resized; and a PRF output of a party that
  the trusted party has mapped to 0. That comes about when the `ALL_IDENTIFIED` of a party
  overtakes its `ID`, as it may because the flag is set before the node identifies itself
  (`Node.cpp:142-143`): printing the sender makes an entry 0 for the connection
  (`Node.cpp:115`), which the later `insert` does not replace (`Node.cpp:110`), and
  `prf_outputs[from-1]` is then before the vector (`TrustedParty.cpp:246`). The model makes
  these steps, sets `undefined`, and stops. Nothing else at a program party or the trusted
  party uses the sender, so at the other nodes a wrong entry has no effect.
* *BMR map and broadcasts.* Each operation on `_clientsmap` is one step, though listeners
  use the map without a lock: a data race of the code in `std::map` is left out. `ID` and
  `ALL_IDENTIFIED` are each put into the queues of all others in one step; in the code the
  two threads may interleave and order them differently for different receivers. Only the
  order at the trusted party has an effect, and the model has both.
* *BMR pieces.* `Chunks` pieces stand for the breaks of `GC::Program::execute`; that all
  executions break alike is the property of the same loop in `YaoPlayers`.
* *Processor.* Fields are modulo `Q`, both of them; the key, masks and tuples of a field
  are fixed functions of `Seeds`. Openings are direct, so the MAC checks are only their
  vectors; `MacCheck` has the other methods and the checks. A message is a value.
* *Merger.* Instructions of one element; where CPython iterates over a set of numbers
  the model takes ascending order. It was compared with a port of the original on
  random blocks; they agree except for the order within such sets.
* *MAC checks.* Commitments and random coins are the messages they cause; a check
  compares names of values instead of sums in a field.
* *Triples.* An oblivious transfer is one message each way between counterparts. Waits
  end by a signal only.
* *ORAMs.* An access is one step: in a compiled program nothing interleaves with it. The
  index structure is packed as in the code and searched in full; its recursion into
  further ORAMs is left out. New leaves are arbitrary.
* *Secret integers.* An opening returns the number; shares and MACs are in
  `OnlineProcessor`. The field has `P = 127`, smaller than the numbers and masks for
  which the code chooses its prime, so draws are restricted where a sum would wrap.
* *Formats.* A word is four digits, a string its first word. Exceptions to the agreement
  of the tables are listed, with their reasons, as sets of the module.
* *Arithmetic.* Limbs of three bits instead of 64; GF(2^n) with words of a few bits.
  Operators of loops take intermediate values as parameters, so that TLC computes each
  once.
* *Values of triples.* `K` stands for 128; base transfers are given; a hash and the coins are
  fixed functions of what they are drawn for.
* *Modes.* Both players run with the same `-C`; the code leaves that to the operator.

## What the runs check

| Run | Instance | Properties |
| --- | --- | --- |
| `gates` | five registers; a tape with every operation, one with an `ANDRS` below and one above the batching limits, and every well-formed tape of two random wires, two operations on three registers and a reveal | `WireCorrect`, `SignalIsExternal`, `StreamsInStep`, `NeverBothKeys`, `EvaluatesThePlainCircuit` |
| `players` | six tapes, `Limit = 2`, `Capacity = 2`, all three modes | `NoUnderrun`, `FramesMatch`, `NothingLeftOver`, `ImplementsYaoGates`, `Termination` |
| `and_jobs` | four instructions, three threads, `Threshold = 2` | `JobsFit`, `PopFindsItem`, `ImplementsBatches`, `Termination` |
| `sequential` | one part per session: the store with two messages and a ring of two; five shapes of ORAM; calls of the library, of primitives, of the offline phase | `ImplementsFifo`, `ImplementsArray`, `LibraryCorrect`, `InstructionsAgree`, `ArithmeticCorrect`, `TriplesCorrect` |
| `machine` | three threads, six programs, eight items | `WakeupsJustified`, `LinesApart`, `FlatUsedOnce`, `RecordComplete`, `ImplementsPool`, `Termination` |
| `nested_positions` | the program with a tape that starts others | `UsedOnce`, violated: see [findings](#findings) |
| `bmr` | two parties and the trusted one, two pieces | `StoresInStep`, `NothingNeededLost`, `Termination` |
| `bmr_gates` | two parties; two tapes with every operation, and every tape of two loads and two of ten operations | `LabelsFit`, `StreamsUsedUp`, `EvaluatesThePlainCircuit` |
| `mac_check` | four players, sums of two, relays to two, four programs | `PairsMatch`, `SameChecks` |
| `triples` | three players with a generator each, two with one or two; two loops; all outputs | `SumsMatch`, `EventuallyDone` |
| `online` | three players, five source programs with one to three choices of options, modulo 5 | `MacsHold`, `MemoryAsWritten`, `ImplementsTrusted` |
| `input_order` | two players, one program | `InputsShared`, violated: see [findings](#findings) |

What they show, and the bounds:

* `gates` (50 072 states). The evaluator never decrypts a wrong entry and reveals the
  bits of the plain circuit, for every choice of masks and random bits and every
  interleaving of the two players. `GarblerBatchMin = 2` and `EvaluatorBatchMin = 3`
  stand for the code's `min(10, -t)` and 10; an `ANDRS` of two gates is then hashed in
  advance by the garbler only, one of three by both, which are the different cases. The
  short tapes hold all ways in which two operations can share operands and overwrite
  each other's results. `NeverBothKeys` speaks of the wires of the evaluator as a set
  and so needs wires that are sums of common terms; the tapes have them. The tape ends,
  so deadlock is not an error here.
* `players` (10 135 states). Batches meet at the same place on both sides, so the
  unchecked reads stay inside the buffers, untagged messages are taken for what they
  are, and nothing is left over. `Limit = 2` (1 << 20 in the code) lets a batch end at
  the last instruction (an empty batch follows), inside reveals, never, and after an
  `ANDRS` that alone exceeds it. `Capacity = 2` messages in the connection is the
  smallest number that lets the garbler run ahead by a whole batch, and it blocks.
* `and_jobs` (4 051 states). The instructions are one that the main thread garbles
  alone, one whose five tuples make jobs of 2, 2 and 1 and use all threads, one whose
  first tuple exceeds a thread's share so that a thread stays idle, and one of a single
  tuple. The second starts with workers that have or have not reached their first wait,
  the third with a queue that has been used. Three threads are the fewest with which an
  idle thread and two busy ones meet.
* `sequential` (27 728 states). One session runs one part; the parts share no state.
  *Store:* the ring has two slots (one in the code) so that it wraps
  and its oldest slot is not always the first. Three messages in files let pushes and
  pops alternate while files are in use; the bound is the state constraint `FewFiles`.
  *ORAMs:* a list, a tree of three levels, paths of one and two, a circuit ORAM of two
  with a stash of three. The buckets have room: the code loses an entry when one
  overflows, which sizes make improbable there and impossible here. `ImplementsArray`
  holds for all leaves that could be drawn.
  *Library:* protocols on numbers of 2 to 4 bits with masks of 2 bits more, for all
  numbers and draws; lists of zeroes and ones up to length 8, which is enough for
  networks that only compare and swap; all permutations of 2 and 4 and some of 8; loops
  of up to 7 rounds among up to 4 threads in chunks of 4.
  *Primitives:* every instruction in both tables; arithmetic with limbs below 8, digits
  below 16 and the primes 5, 13 and 29, which take one or two limbs.
  *Offline:* transfers, products, triples, MACs and bits of two and three players, in a
  field modulo a prime and in GF(2^n).
* `machine` (8 237 states). The programs have two lines with one and two tapes, a tape of
  unknown usage between two others, one that is refused because it is not alone, one
  that finds the files at their end, a tape that starts two others and one of their
  threads again, and one that is refused because it starts a tape of unknown usage. With
  three threads the main thread and a tape wait for different threads at once, one thread
  is used twice by one tape, and one stays idle. `ImplementsPool` covers the reads of
  argument and position after the unlock: they are what was given together with the
  program, because nobody gives a thread its next tape before joining the last.
  Processes end or throw, so deadlock is not an error; `Termination` excludes it.
  `FlatUsedOnce` is about the programs whose tapes start no tapes: tapes that use less than
  they declare and tapes of unknown usage leave the position where the next tape
  continues, so that no item of offline data is read twice. `RecordComplete` is what
  `Machine::run` relies on when it prunes the files at its end.
* `bmr` (154 557 states). From connecting to the return of `Start` at every node. Two
  parties are the fewest with which a first and a last answer differ, and two pieces the
  fewest for which a store can hold the wrong one; identification, its races and the
  shutdown by another party's end all happen. Threads end, so deadlock is not an error;
  `Termination` excludes it for the behaviours that never become undefined. So the run
  claims nothing of a start in which `ALL_IDENTIFIED` reaches the trusted party before
  `ID`: from there the party's first PRF output leads to `undefined`.
* `bmr_gates` (75 420 states). The default build has two parties. The tapes of two loads
  and two operations hold all ways to share and overwrite operands, the long ones follow
  an input with wires derived from it. Deadlock is an error: it would be a stream that
  runs out.
* `mac_check` (266 912 states). Four players with sums of two and relays to two give two
  rounds of sums and a second level of the tree, which three players would not;
  `PopenMax = 3` (`POPEN_MAX` is 1 000 000) makes openings call for checks. The programs
  check with an opening under way for each method that has a channel of its own, and with
  openings of two fields. Deadlock is an error.
* `triples` (196 887 states). With three players a generator serves two multipliers in
  turn and a cycle of waits could close; with two threads the main thread starts two
  generators together. A second loop is the first to find what the first has left.
  Deadlock is an error.
* `online` (243 608 states). Five blocks, as the types of the compiler emit them before
  they are merged: a product of inputs, linear arithmetic with inputs from the terminal
  and two private outputs to one player, loads and stores around an opening, both fields
  in turn, and all kinds of tuples. They are compiled with and without merging,
  reordering, dead-code elimination and a limit of the merge. Three players, so that
  messages of two others are under way to each. Modulo 5 a wrong share or sum is told
  from the right one, and every block is run for eight choices of inputs. No
  block stores a cell twice without a load in between (see [limits](#what-is-not-modelled)).
  Deadlock is an error: it would be an input or opening that waits for a message that
  never comes.

Every property of the passing runs has a mutant of a mapped definition that violates it. The mutated
definitions stand in the modules before their originals, marked `Fault`; nothing else
refers to them.

## Fairness

`YaoPlayers`: weak fairness of each player. They are processes that never choose to
stop; a player blocked in `send` or `receive` is not enabled.
`AndJobs`: weak fairness of the main thread and of each worker, which are operating
system threads. A signal wakes a waiting thread, and a woken thread eventually has the
mutex: it is held by at most two threads in turn. Wakeups without a signal, which POSIX
allows, are not in the model: `pop` takes the front of the queue after one test, so the
code relies on their absence, and `PopFindsItem` says nothing of them.
`MachineThreads`: weak fairness of the main thread and of each thread, for the same
reason. Here, too, wakeups without a signal are left out: all waits but the
constructor's test their condition once. `WakeupsJustified` shows that nothing else is
needed for an `if` in place of a `while`.
`BmrParties` and `OtTriples`: weak fairness of the whole next-state relation: some thread
that can run does. That is less than the scheduler gives, and enough, because no thread
of these programs can run forever: every behaviour is finite. `Termination` of
`BmrParties` excepts the behaviours that become undefined, among them those in which the
trusted party has taken a party for 0. In `OtTriples` a wait ends by
a signal only, as above; the code has no predicate to test after a wait.
The other modules state safety only; in `BmrGates`, `MacCheck` and `OnlineProcessor`,
whose players wait for each other, TLC checks that there is no deadlock.

## What is proved

`tlapm` checks the following for all values of the constants under the named
assumptions, for every set of tapes, programs or machines that satisfies them.

**`YaoGates_proofs`**, from `TapesAssumption` (tapes are well formed) and
`BatchMinAssumption` (the limits are natural numbers):
`TypeCorrect`, `InductiveInvariant`, `WiresMatch`, `ExternalIsSignal`,
`StreamsStayInStep`, `OneKeyOfTwo`, and `Implementation`: every step of the two players is
a step of the plain circuit or a stutter.

`WireCorrect` alone is not inductive. What the evaluator decrypts depends on a gate
garbled earlier, from wires that the garbler has since overwritten and under a label
that may have been hashed before other gates of the instruction. `IInv` therefore adds
the garbler's past as history with the rule of each entry (`HistoryOK`), gates in the
stream as functions of that history (`StreamsInStep`), that no garbler's key contains
`Delta` (`KeysClean`; without it the external bit would not be the signal), and that
the labels hashed in advance are those of all registers the instruction has not
written (`LabelsOK`; with `NoAlias` those are the ones it still reads). `PInv` of the
proof module adds what the proofs need of the types of history and is preserved by each action:
`LabelsAreKeys` gives the label of a tuple, `GarbledGate` the gate of a step,
`GateDecrypts` says that the entry selected by the external bits decrypts to the right
key, and `EvaluatedWire` puts them together.

`OneKeyOfTwo` is the security of a wire as far as free sums tell: no two of the
evaluator's keys differ by `Delta`. The keys that can be summed from what the evaluator
holds are a group, and the invariant is that this group never contains `Delta` or a sum
of it with fresh keys of gates still to come; a decrypted key adds one fresh term, which
no other key has.

**`YaoPlayers_proofs`**, from `TapesAssumption` and `BatchMinAssumption`: `Invariance`,
`BuffersSuffice`, `MessagesInTurn`, `AllUsedUp`, and `Refinement`, that the two processes
implement `YaoGates`. The invariant numbers the batches: batch `k` holds the entries from
`st[k]` on, and `st[k + 1]` is where the complexity counted from there reaches the limit.
Both players count alike, so the start of each next batch is the same function of the
last; the garbler has ended `n` batches, the evaluator has received `r` and begun `e`, and
buffers, connection and stores are what batches `e` to `n` contain, in order. The
refinement maps the streams to the concatenation of everything between the players
(`FlattenSeq`, about which `SequenceFacts` has the lemmas). Through it the theorems of
`YaoGates_proofs` carry over: `PlayersWires`, `PlayersOneKey`, and `PlayersEvaluate`, that
the two processes with their messages, batches and stores implement the plain circuit.

**`BmrGates_proofs`**, from `PartiesAssumption` (there is a party) and `TapesAssumption`
(tapes are well formed, inputs come from parties): `LabelsAlwaysFit`, `AllStreamsUsedUp`,
and `Implementation`, that every party computes the plain circuit, for every number of
parties, every set of wires, every tape and every interleaving of the evaluations.

`LabelsFit` is not inductive: what a party decrypts depends on gates, labels and masks that
were made in three executions before and have come to it in streams that do not say which
wire they are for. `IInv` therefore keeps the trusted party's keys and masks at each
position of the tape as history, and says

* how each position changed them (`RandomRule`), and that drawn keys have no signal bit;
* that each of the eight kinds of streams is the concatenation of the pieces from its
  reader's position to its writer's (`Streams`). `KeyPiece`, `WirePiece`, `Tuples`, `GateAt`
  and the like say what the piece of a position is as a function of history alone, so that
  writing and reading are lemmas about concatenation (`StreamWrite`, `StreamRead`);
* the same of the messages between two parties in the evaluation (`Messages`). A party that
  waits at an input has read its streams one position further than its other inputs, and
  has taken the external bit, but not the label, of the input's owner: the piece of that
  position is then only a label (`BegunAt`);
* that the four executions follow one another, and that gates are numbered by the ANDs
  before them on both sides (`Places`, `History`).

`DecryptedIs` is the heart of it: the labels of both inputs open, of the four entries, the
one of their external bits, and what is left is the label of the output.

**`BmrParties_proofs`**, from `PartiesAssumption` and `ChunksAssumption` (there is a party
and a piece): `Numbered`, `StoresAlwaysInStep` and `NeededArrives`, for every number of
parties and pieces, every order of the listeners and every way for the network to stop.
`StoresInStep` is not inductive: it says what the stores hold, and what comes into a store
depends on messages that were sent in reaction to others. But between the trusted party and
a party messages always come in one order: six for each piece down, and then the launch; two
for each piece up, and then `DONE`. So a message is known by its number (`Down`, `Up`), a
channel by how many messages have gone in and how many have come out (`Carries`), and
`IInv` is in terms of these numbers:

* the numbers of what a party has sent and of what it has heard determine its stores and
  what it does next, and what a party may send is bounded by what it has heard;
* the trusted party's counters of answers are the numbers of parties whose message for this
  piece it has heard (cardinalities of sets, which a new answer makes larger by one), so it
  goes on to the next piece exactly when all have answered;
* a party whose answers the trusted party has counted is one it has mapped to its number,
  and an entry of the map stays (`MappedOnce`); such a party has identified itself;
* nobody stops before the launch has been sent. Then only `DONE` and what parties tell one
  another can be lost with a send thread, which nobody waits for: `NothingNeededLost`.

Where the source leaves behaviour undefined the invariant covers the step that leads there
and nothing is claimed after it. In particular the PRFs of a party that the trusted party
takes for 0 are not stored: the step sets `undefined`, and the three theorems are about what
happens up to it.

**`WorkerThreads_proofs`**, about `AndJobs`, from `InstrsAssumption` and
`ThreadsAssumption` (sizes of tuples are positive; at least one thread): `ArrayFits`, that
`and_jobs` is never indexed past its end, whatever the sizes. The bound on the number of
jobs is not inductive: `JInv` says that every complete job has at least a share of
`ceil(total / threads)` gates, so the gates dispatched bound the jobs, and `SharesCover`
that so many shares cover the instruction. `WokenFindsItem`, that no signal
wakes anybody in `WaitQueue::pop` without an item or a stop, rests on `QInv`: a consumer is on the condition variable only while its queue is
running and empty, output queues are never stopped, and the main thread waits only for
jobs it has dispatched. `BatchesImplemented` carries `ImplementsBatches` to every program,
number of threads and threshold, from `Progress`, that `BInv` is invariant:

* the jobs of an instruction are intervals of its tuples, in order and apart, which cover
  the tuples sent so far (`Shares`); the gates of the tuples are intervals of the buffer in
  the same order (`Sizes`, `GateHasOneTuple`), and `Placed` says that a job points at its own,
  in the allocation that is still alive;
* a job is in the queue of its worker, with the worker, or done and not counted off
  (`Turn`), and `AtWork` ties its fields and labels to how far the worker is: the labels
  hashed are those of the tuples before `at`, under the keys from before the instruction;
* a tuple of a job either is still to be garbled (`Left`) or has its gates in the buffer and
  the key of its output in its register (`Garbled`). No other tuple writes there, and inputs
  are never outputs, so they still have the keys that were hashed (`InputsKept`).

An instruction takes effect when its last job is counted off; then no tuple is `Left`.

In the same module, about `OtTriples`, from `MachinesAssumption` (two players or more, with
a thread or more, and a loop or more): `Invariance` and `SumsAddUp`. Waits without a flag
leave a generator and its multipliers in step because where the generator is determines
who holds each multiplier's mutex, who waits and where the multiplier is (`Handshake`).
Rounds are numbered `(loop - 1) * phases + phase`; what a multiplier has sent in each is
recorded by that number, so that the sums are of one round.

**`MachineThreads_proofs`**, from `ProgramsAssumption` (what the compiler promises of a
schedule and its tapes):

* `WakeupsAreJustified`, `LinesStayApart` and `PoolImplemented`, from `IInv`. A thread is
  new, idle, busy with a tape, or told to stop. A busy one belongs either to the main
  thread, which is then between offering the tape and joining it, or to the first tape,
  which then is the only tape of its line. Who is on a condition variable is a function
  of these. `PoolImplemented` maps what was asked and not finished to the pool's `given`.
* `FlatReadsOnce` and `PositionCoversReads`, from `FlatInv`, where no tape starts another:
  what a thread may still read is an interval that is unread and apart from those of the
  others and from what lies behind the line. How far the line reaches is `LineEnd`. What
  a tape uses is a recursive function of its code, `CostUpto`; that it is the number of its
  instructions, which are all uses, is proved from the least position where it would not
  be.

**`MacCheck_proofs`**, from `SizeAssumption` (two players or more, a tree of arity two or
more) and `CasesAssumption` (openings are ended in the order they were begun in, and nothing
is added to a check while one of its openings is under way): `OpeningsInStep` and
`SharesPaired`, which carries `PairsMatch` of `MacCheck` to every number of players, both
arities of the tree, every well-formed program and all three methods. `PairsMatch` speaks of
one player's vectors; why they match depends on messages of players that may be several
openings ahead. `IInv` has a part for each player and one for each channel:

* *Where a player is* (`PlaceOK`) determines how many openings it has begun and ended
  (`Begun`, `Ended`) and whose shares are in the vector it works on (`Held`). By the direct
  method that is the players up to the one it adds next, by the passing method the players
  behind it on the ring (`Behind`). By the tree it is `Part` or `Partial`: `Level[r]` says,
  before round `r` of the sum, how many players still hold sums and which of them has each
  player's share. A player passes its sum on in exactly one round, to the one that adds it
  in that round (`PassesIn`, `Parent`), and the shares of the sums that are added are
  disjoint (`AddStep`); when one player is left it holds all of them (`LevelLess`).
* *Messages by number.* A message of values carries no number in the code. The `n`-th one of
  the `b`-th opening from `q` to `p` is `<<b, n>>`, a player's place says which one it has
  sent and taken last (`LastSent`, `LastTaken`), and a channel holds exactly those between
  the two, in order, with messages of checks anywhere among them (`ChannelOK`). So what
  is taken next belongs to the opening that the player is in (`NextMessage`).
* *The vectors* (`StoreOK`). After `popen_cnt` pairs that match, `macs` continues with the
  values of the openings begun and not ended, in order, and `vals` with what of them is
  stored already: all of the opened values, own shares (direct), or none (a leaf of the
  tree) (`InPlace`, `InStore`). `Size` is the number of values of the openings up to a number, a
  cardinality, so that places are found without recursion; `InPlaceAppend`, `InPlacePut`
  and `InPlaceCut` are what a beginning, an ending and a check do to such a vector.

The theorem says that no value ends up in a wrong place as long as players proceed. That
they always can, so that a message of a check is not what somebody who waits for values
finds, is checked by TLC on the cases, as absence of deadlock.

In `YaoPlayers_proofs` too, from `StoreAssumption` (the ring has a slot): `StoreTypes` of
`MsgStore`, which also says that a slot that is not in use has given its memory away, and
`StoreIsQueue`, which carries `ImplementsFifo` to every size of the ring. Its
arithmetic is `Wrap`, a number below twice the modulus, and `SlotValue`.

Induction over natural numbers is done by well-foundedness: the set of counterexamples has
a least element (`NatLessThanWellFounded`, `WFMin`), stated once as `LeastNatural`; the
library's induction theorems, which take an operator, cannot be used.

Only model-checked:

* `SameChecks` of `MacCheck`, which compares the concatenation of all checks with that of
  all calls; both are folds over histories;
* `OnlineProcessor`, where what a program computes is defined by recursion over
  it and over the passes of the compiler; `Oram`, whose evictions are folds over levels of
  a tree; `Calls`, whose operators are recursive, so that no theorem can be stated in a
  module that uses them;
* liveness, which is out of the prover's reach.

## Findings

`nested_positions`: a tape started by another tape gets the position of the machine
(`Machine.cpp:160`), which only tapes of the schedule move on (`Machine.cpp:228`). What
`RUN_TAPE` adds to its own tape's position (`Instruction.cpp:1572`) keeps that tape away
from the items its tapes should use, but these all start at the same item, and before
`Machine.cpp:228` it is the one at which the starting tape itself began. So items are
read twice without `-DINSECURE`, to which `Exceptions/Exceptions.h:197` confines reuse.
In the counterexample the starting tape has read its first item, and the tape it has
started reads it again.

`input_order`: `compute_preorder` (`Compiler/allocator.py:274`) counts `INPUT` as an
instruction that may go between the start and the stop of an opening, because `asm_input`
is an `IOInstruction` and not an `AsymmetricCommunicationInstruction`. But it
communicates, over the connection on which shares of the opening are under way
(`Instruction.cpp:1107-1133`). In the counterexample a player reads an opening's share as
the difference of an input, so that the players do not share the number that was entered,
and do not open the right value either. The program is
`a = sint.get_input_from(0).reveal(); b = sint.get_input_from(1); (b*a).reveal()`; without
reordering (`-r`) it is right. `Compiler/instructions.py:857` says of `INPUT` "Receive
input from player $p$ and put in register $s_i$.".

## What is not modelled

Apart from the parts above:

* *Yao and VM:* `INPUTB` and the dynamic secret memory, which the Yao wires inherit as
  operations that do nothing (`BMR/Register.h`) and which count as complexity alike on
  both sides; the byte-level reads of buffers; widths of registers, which the code takes
  from its left operand; timers and statistics.
* *Merger and processor:* vectors, several blocks and jumps, the continuous mode of the
  compiler (`-C`), bit operations, stacks, `PREP` data, sockets and files. Two stores to
  one cell in a block without a load in between: `handle_mem_access`
  (`allocator.py:479-490`) orders only reads against writes, so the earlier store may
  come last; `compile.py:46-48` speaks of a "possible loss of correctness" for an option
  that does not preserve the order, while this is the default. With `-D`, a dead opening alone in its
  round makes `compute_preorder` fail (`allocator.py:307-311`); no source does that.
* *MAC checks:* `Parallel_MAC_Check` and the pipeline of `Summer` threads; plain checks
  with an opening of the other field under way (`MAC_Check.cpp:111`), which the code does
  not survive.
* *BMR:* parties for circuit files and the threads of `BooleanCircuit.cpp`, SPDZ wires and
  their memory, evaluation by several threads, checks of MACs in `EvalRegister`, errors
  and time-outs of connections.
* *Triples:* base transfers and their cryptography; `OTExtension::transfer`, the variant
  without matrices; output files.
* *Compiler's library:* fixed and floating point numbers; lists, queues and heaps built on
  the ORAMs; batch initialization. Left out of the calls, because the code gives another
  result there: `Mod2m` of a negative number with `m >= k`; lists of lengths that are no
  power of two for the sorts that need one; `iter_waksman` and with it `shuffle` and
  `shuffle_entries` (which the batch initialization of `oram.py:1254`, `1318` calls), because
  `create_round_fn` reads a name `inwards` that nothing binds there
  (`permutation.py:255-256`, `289`), so that every call fails at compile time (the recursive
  `waksman` and `configure_waksman` are modelled); `sort_zeroes`, `Norm` of `floatingpoint.py`,
  which nothing calls; `KORC` with more than `max_k` bits.
* *Instructions and arithmetic:* jumps, Shamir instructions, sockets and files, random
  draws, text. The exceptions of `InstructionSet` are opcodes that the machine does not
  have (`GSHLC`, `GSHRC`, `GPROTECTMEMINT`), `GMODC` and `GMODCI`, which have the codes of
  `GMULBITC` and `GMULBITM` (`instructions_base.py:81-82`), registers that
  `get_reg_type` or `get_max_reg` overlook, and vectors whose second register does not
  advance.
* *Homomorphic encryption and its offline phase:* polynomial rings with noise, whose
  parameters have no small instance in which decryption still works for the reason it
  works in the code.
* *Networking:* setting up connections, transfers in pieces, `exchange`.

`PROJECT.json` lists the hazards, and for each that no property covers the reason.

## Plan

The proof that would add most is `SameChecks` of `MacCheck`, for which `IInv` has what is
needed of each player but the history of its checks.

Modules that would still add something; the runs above are near what can be checked
together, so that each would take the place of a smaller one.

1. `OfflineFiles`: buffers, several types, skipping and pruning, to be put under
   `MachineThreads`. Bounds: buffers of two items, files of five.
2. `SummerPipeline`: `Parallel_MAC_Check`, its `Summer` threads and their `WaitQueue`s,
   under `MacCheck`. Bounds: three players, two openings.
3. `Sockets` and `Exchange`: partial transfers and both directions over one bounded
   connection; `ServerSocket`: clients by id. Bounds: messages of up to three pieces.
