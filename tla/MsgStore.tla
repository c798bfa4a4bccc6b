------------------------------ MODULE MsgStore ------------------------------
(***************************************************************************)
(* ReceivedMsgStore (Tools/FlexBuffer): the evaluator's store keeps its     *)
(* oldest messages in a ring of N buffers in memory and the rest in files.  *)
(* A message kept in memory is moved, so that its memory has one owner; one *)
(* in a file is copied.                                                     *)
(*                                                                         *)
(* A message is received into the caller's buffer, pushed, and received or  *)
(* popped again; receive and pop replace what the buffer held.              *)
(***************************************************************************)
EXTENDS Integers, Sequences

CONSTANTS Msg, Reset,  \* messages; a buffer without one
          N            \* the ring's size

ASSUME StoreAssumption == N \in Nat \ {0} /\ Reset \notin Msg

Buffer == Msg \cup {Reset}
Slots == 0 .. N - 1

VARIABLES mem, start, mem_size,   \* the ring, its oldest buffer, buffers in use
          files,                  \* the files' contents
          msg, popped             \* the caller's buffer and the last result of pop

storeVars == <<mem, start, mem_size, files, msg, popped>>

StoreInit ==
  /\ mem = [s \in Slots |-> Reset]
  /\ start = 0 /\ mem_size = 0
  /\ files = <<>>
  /\ msg = Reset /\ popped = FALSE

Receive == msg' \in Msg /\ UNCHANGED <<mem, start, mem_size, files, popped>>

(* Fault: a younger message overtakes those in files.                       *)
InMemoryIfRoom == mem_size # N

(* The place of a message that is pushed.                                   *)
InMemory == mem_size # N /\ files = <<>>
NextSlot == (start + mem_size) % N

PushToMemory ==
  /\ InMemory
  /\ mem' = [mem EXCEPT ![NextSlot] = msg]
  /\ mem_size' = mem_size + 1
  /\ msg' = Reset
  /\ UNCHANGED <<start, files, popped>>

PushToFile ==
  /\ ~ InMemory
  /\ files' = Append(files, msg)
  /\ UNCHANGED <<mem, start, mem_size, msg, popped>>

PopFromMemory ==
  /\ mem_size # 0
  /\ msg' = mem[start]
  /\ mem' = [mem EXCEPT ![start] = Reset]
  /\ start' = (start + 1) % N
  /\ mem_size' = mem_size - 1
  /\ popped' = TRUE
  /\ UNCHANGED files

PopFromFile ==
  /\ mem_size = 0 /\ files # <<>>
  /\ msg' = Head(files)
  /\ files' = Tail(files)
  /\ popped' = TRUE
  /\ UNCHANGED <<mem, start, mem_size>>

PopNothing ==
  /\ mem_size = 0 /\ files = <<>>
  /\ popped' = FALSE
  /\ UNCHANGED <<mem, start, mem_size, files, msg>>

StoreNext == Receive \/ PushToMemory \/ PushToFile \/ PopFromMemory \/ PopFromFile \/ PopNothing

StoreSpec == StoreInit /\ [][StoreNext]_storeVars

-----------------------------------------------------------------------------
Slot(i) == (start + i - 1) % N
InUse == {Slot(i) : i \in 1 .. mem_size}

(* Types, and the buffers of the ring that are not in use have been reset:  *)
(* their memory has been given away, and is not freed twice.                *)
TypeOK ==
  /\ mem \in [Slots -> Buffer]
  /\ start \in Slots /\ mem_size \in 0 .. N
  /\ files \in Seq(Buffer)
  /\ msg \in Buffer /\ popped \in BOOLEAN
  /\ \A s \in Slots \ InUse : mem[s] = Reset

(* The ring and the files together are one queue, also when messages are    *)
(* pushed after others were popped and memory has room again while older    *)
(* ones are still in files.                                                 *)
F == INSTANCE Fifo WITH
       queue <- [i \in 1 .. mem_size |-> mem[Slot(i)]] \o files
ImplementsFifo == F!Spec
=============================================================================
