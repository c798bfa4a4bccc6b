------------------------------ MODULE MacCheck ------------------------------
(***************************************************************************)
(* Opening shared values and checking their MACs (Auth/MAC_Check, run by    *)
(* Processor::POpen_Start and POpen_Stop).  An opening is begun and ended   *)
(* by two calls, with other work and other openings in between; its MACs    *)
(* and its values go to the ends of two vectors, at different times, and a  *)
(* check pairs the vectors by index.  Every player runs the same program;   *)
(* a thread's two MAC checks, for GF(2^n) and GF(p), share one Player P.    *)
(*                                                                         *)
(* A share is the pair of the value's name and the player; a value that is  *)
(* being summed is the bag of the shares in it.  MAC shares are named by    *)
(* the value they belong to.                                               *)
(***************************************************************************)
EXTENDS Integers, Sequences, SequencesExt, FiniteSets, Bags

CONSTANTS N,               \* number of players, from 0
          MCs,             \* the MAC checks of the thread
          OpeningSum,      \* shares summed at once by one player
          MaxBroadcast,    \* players a player sends the sum to
          PopenMax,        \* POPEN_MAX
          Cases            \* the methods and programs to run

Player == 0 .. N - 1
Method == {"tree", "direct", "passing"}    \* MAC_Check, Direct_ and Passing_MAC_Check

ASSUME SizeAssumption ==
  /\ N \in Nat /\ N >= 2
  /\ OpeningSum \in Nat /\ OpeningSum >= 2
  /\ MaxBroadcast \in Nat /\ MaxBroadcast >= 2

(* A call: POpen_Begin or POpen_End of the values `ids`, AddToCheck of one  *)
(* value, or Check.                                                        *)
Call == [op: {"begin", "end", "add", "check"}, mc: MCs, ids: Seq(Nat)]

(* The callers end openings in the order they have begun them, of either    *)
(* check, and add nothing to a check that has an opening under way.         *)
CallsOf(op, code, k) == Cardinality({i \in 1 .. k : code[i].op = op})
WellFormed(code) ==
  \A k \in DOMAIN code :
    /\ code[k].op = "end" =>
         \E b \in 1 .. k - 1 :
           /\ code[b].op = "begin" /\ CallsOf("begin", code, b) = CallsOf("end", code, k)
           /\ code[b].mc = code[k].mc /\ code[b].ids = code[k].ids
    /\ code[k].op = "add" =>
         \A b \in 1 .. k - 1 : code[b].op = "begin" /\ code[b].mc = code[k].mc =>
           CallsOf("begin", code, b) <= CallsOf("end", code, k)

ASSUME CasesAssumption ==
  \A c \in Cases : c.method \in Method /\ c.prog \in Seq(Call) /\ WellFormed(c.prog)

(* Every value opened is one that every player added its share to, once.    *)
Share(id, p) == SetToBag({<<id, p>>})
Opened(id) == SetToBag({id} \X Player)

VARIABLES
  method, prog,
  pc,          \* the call a player is in or before
  at,          \* where in the call it is
  values,      \* per MAC check and player: the vector handed to the calls
  os,          \* the passing method's stream
  macs, vals, popen_cnt,
  net,         \* messages by channel, sender and receiver; channel "P" or a MAC check's own
  checked,     \* history: what each Check compared
  results      \* history: what each POpen_End delivered

data == <<values, os, macs, vals, popen_cnt>>
vars == <<method, prog, pc, at, data, net, checked, results>>

(* A place in a call: what is to be done next; the player it is done with,  *)
(* or the number of the round; and last_sum_players in the loop of a sum.   *)
At(do, i, last) == [do |-> do, i |-> i, last |-> last]
Local(do) == At(do, 0, 0)
Idle == Local("idle")

Channel == {"P"} \cup MCs

Init ==
  /\ \E c \in Cases : method = c.method /\ prog = c.prog
  /\ pc = [p \in Player |-> 1]
  /\ at = [p \in Player |-> Idle]
  /\ values = [m \in MCs |-> [p \in Player |-> <<>>]]
  /\ os = [p \in Player |-> <<>>]
  /\ macs = values /\ vals = values
  /\ popen_cnt = [m \in MCs |-> [p \in Player |-> 0]]
  /\ net = [c \in Channel |-> [p \in Player |-> [q \in Player |-> <<>>]]]
  /\ checked = values
  /\ results = [p \in Player |-> <<>>]

-----------------------------------------------------------------------------
(* The way through a call.                                                 *)

Smaller(a, b) == IF a <= b THEN a ELSE b
Larger(a, b) == IF a >= b THEN a ELSE b

(* TreeSum::start: how many players hold partial sums after a round, if     *)
(* `last` did before it.                                                   *)
SumPlayers(last) == (last - 2 + OpeningSum) \div OpeningSum

(* Whoever has the sum sends it to the next players in its part of the tree.*)
Relays(p) == p * MaxBroadcast < N
Receivers(p) == Smaller(IF p = 0 THEN MaxBroadcast ELSE (p + 1) * MaxBroadcast, N)

(* A round of the sum: a player passes its sum on, and is through, or adds  *)
(* others'.  Player 0 has the sum in the end and sends it; a relay waits    *)
(* for it, other players do so when they end the opening.                   *)
SumRound(p, last) ==
  LET sum_players == SumPlayers(last)
  IN IF last = 1 THEN At("send", 1, 0)
     ELSE IF p >= sum_players THEN At("pass_up", p % sum_players, last)
     ELSE At("add", p + sum_players, last)

AwaitSum(p) == At("receive", p \div MaxBroadcast, 0)

(* The first player from j on that is not p.                                *)
Other(p, j) == IF j = p THEN j + 1 ELSE j

FirstOfBegin(p) ==
  CASE method = "tree"    -> SumRound(p, N)
    [] method = "direct"  -> At("send", Other(p, 0), 0)
    [] method = "passing" -> At("pass", 1, 0)

FirstOfEnd(p) ==
  IF method = "tree" /\ ~ Relays(p) THEN AwaitSum(p) ELSE Local("get")

FirstOfCheck == At("send_tau", 1, 0)

Ahead(p) == pc[p] \in DOMAIN prog
Now(p) == prog[pc[p]]
Starts(p, op) == at[p] = Idle /\ Ahead(p) /\ Now(p).op = op

GoTo(p, place) ==
  /\ at' = [at EXCEPT ![p] = place]
  /\ pc' = IF place = Idle THEN [pc EXCEPT ![p] = @ + 1] ELSE pc

-----------------------------------------------------------------------------
(* The beginning of each call.                                             *)

(* POpen_Begin                                                             *)
Begin(p) ==
  /\ Starts(p, "begin")
  /\ LET m == Now(p).mc
         own == [i \in DOMAIN Now(p).ids |-> Share(Now(p).ids[i], p)]
     IN /\ values' = [values EXCEPT ![m][p] = own]
        /\ os' = [os EXCEPT ![p] = own]
        /\ macs' = [macs EXCEPT ![m][p] = @ \o Now(p).ids]
  /\ GoTo(p, FirstOfBegin(p))
  /\ UNCHANGED <<method, prog, vals, popen_cnt, net, checked, results>>

(* POpen_End                                                               *)
End(p) ==
  /\ Starts(p, "end")
  /\ values' = [values EXCEPT ![Now(p).mc][p] = [i \in DOMAIN Now(p).ids |-> EmptyBag]]
  /\ GoTo(p, FirstOfEnd(p))
  /\ UNCHANGED <<method, prog, os, macs, vals, popen_cnt, net, checked, results>>

WaitingForCheck(m, p) == Larger(Len(macs[m][p]), Len(vals[m][p]))

(* AddToCheck, in two steps, and an explicit Check.                         *)
Add(p) ==
  /\ Starts(p, "add")
  /\ LET m == Now(p).mc
     IN /\ macs' = [macs EXCEPT ![m][p] = @ \o Now(p).ids]
        /\ vals' = [vals EXCEPT ![m][p] = @ \o [i \in DOMAIN Now(p).ids |-> Opened(Now(p).ids[i])]]
        /\ popen_cnt' = [popen_cnt EXCEPT ![m][p] = @ + Len(Now(p).ids)]
  /\ GoTo(p, Local("check_if_needed"))
  /\ UNCHANGED <<method, prog, values, os, net, checked, results>>

Check(p) ==
  /\ Starts(p, "check")
  /\ GoTo(p, IF WaitingForCheck(Now(p).mc, p) = 0 THEN Idle ELSE FirstOfCheck)
  /\ UNCHANGED <<method, prog, data, net, checked, results>>

-----------------------------------------------------------------------------
(* One step of player p in a call to MAC check m.                          *)

Does(p, what) == at[p].do = what
Peer(p) == at[p].i

SendOn(c, p, q, msg) == net' = [net EXCEPT ![c][p][q] = Append(@, msg)]
TakeFrom(c, p, q) == net' = [net EXCEPT ![c][q][p] = Tail(@)]
Waiting(c, p, q, kind) == net[c][q][p] # <<>> /\ Head(net[c][q][p]).kind = kind
Message(c, p, q) == Head(net[c][q][p]).body

Values(v) == [kind |-> "values", body |-> v]
SumUp(v, w) == [i \in DOMAIN v |-> v[i] (+) w[i]]

PassUp(p, m) ==
  /\ Does(p, "pass_up") /\ SendOn("P", p, Peer(p), Values(values[m][p]))
  /\ GoTo(p, IF Relays(p) THEN AwaitSum(p) ELSE Idle)
  /\ UNCHANGED data

(* The broadcast of TreeSum::start; send_all of the direct method.          *)
Send(p, m) ==
  /\ Does(p, "send") /\ SendOn("P", p, Peer(p), Values(values[m][p]))
  /\ LET next == IF method = "tree" THEN Peer(p) + 1 ELSE Other(p, Peer(p) + 1)
         end  == IF method = "tree" THEN Receivers(p) ELSE N
     IN GoTo(p, IF next < end THEN At("send", next, 0)
                ELSE IF method = "tree" /\ p > 0 THEN Idle ELSE Local("append"))
  /\ UNCHANGED data

(* add_openings, direct_add_openings                                        *)
AddShares(p, m) ==
  /\ Does(p, "add") /\ Waiting("P", p, Peer(p), "values")
  /\ values' = [values EXCEPT ![m][p] = SumUp(@, Message("P", p, Peer(p)))]
  /\ TakeFrom("P", p, Peer(p))
  /\ LET last == at[p].last
         next == IF method = "tree" THEN Peer(p) + SumPlayers(last) ELSE Other(p, Peer(p) + 1)
         end  == IF method = "tree" THEN last ELSE N
     IN GoTo(p, IF next < end THEN At("add", next, last)
                ELSE IF method = "tree" THEN SumRound(p, SumPlayers(last)) ELSE Local("put"))
  /\ UNCHANGED <<os, macs, vals, popen_cnt>>

(* ReceiveValues, up to AddToValues                                         *)
Receive(p, m) ==
  /\ Does(p, "receive") /\ Waiting("P", p, Peer(p), "values")
  /\ values' = [values EXCEPT ![m][p] = Message("P", p, Peer(p))]
  /\ TakeFrom("P", p, Peer(p))
  /\ GoTo(p, Local("append"))
  /\ UNCHANGED <<os, macs, vals, popen_cnt>>

(* Player::pass_around with passing_add_openings: the streams go around,    *)
(* everybody adding its own.                                               *)
NextPlayer(p) == IF p = N - 1 THEN 0 ELSE p + 1
PreviousPlayer(p) == IF p = 0 THEN N - 1 ELSE p - 1

Pass(p, m) ==
  /\ \/ /\ Does(p, "pass") /\ SendOn("P", p, NextPlayer(p), Values(os[p]))
        /\ GoTo(p, At("take", at[p].i, 0))
        /\ UNCHANGED os
     \/ /\ Does(p, "take") /\ Waiting("P", p, PreviousPlayer(p), "values")
        /\ os' = [os EXCEPT ![p] = SumUp(values[m][p], Message("P", p, PreviousPlayer(p)))]
        /\ TakeFrom("P", p, PreviousPlayer(p))
        /\ GoTo(p, IF at[p].i < N - 1 THEN At("pass", at[p].i + 1, 0) ELSE Local("append_stream"))
  /\ UNCHANGED <<values, macs, vals, popen_cnt>>

(* AddToValues, in an opening's beginning or its end; the same for the      *)
(* stream of the passing method; and the sum in the place of the own share. *)
Store(p, m) ==
  /\ \/ /\ Does(p, "append")
        /\ vals' = [vals EXCEPT ![m][p] = @ \o values[m][p]]
        /\ GoTo(p, IF Now(p).op = "end" THEN Local("close")
                   ELSE IF method = "tree" /\ p > 0 THEN At("send", p * MaxBroadcast, 0)
                   ELSE Idle)
     \/ /\ Does(p, "append_stream")
        /\ vals' = [vals EXCEPT ![m][p] = @ \o os[p]]
        /\ GoTo(p, Idle)
     \/ /\ Does(p, "put")
        /\ vals' = [vals EXCEPT ![m][p] = [i \in DOMAIN @ |->
             IF i - popen_cnt[m][p] \in DOMAIN values[m][p]
             THEN values[m][p][i - popen_cnt[m][p]] ELSE @[i]]]
        /\ GoTo(p, Local("close"))
  /\ UNCHANGED <<values, os, macs, popen_cnt, net>>

AfterGet(p) == IF method = "direct" THEN At("add", Other(p, 0), 0) ELSE Local("close")

(* Fault: the newest values rather than the next.                           *)
GetLast(p, m) ==
  /\ Does(p, "get")
  /\ LET n == Len(values[m][p])
         from == Len(vals[m][p]) - n
     IN values' = [values EXCEPT ![m][p] = SubSeq(vals[m][p], from + 1, from + n)]
  /\ GoTo(p, AfterGet(p))
  /\ UNCHANGED <<os, macs, vals, popen_cnt, net>>

(* GetValues; it throws if there are not enough.                            *)
GetValues(p, m) ==
  /\ Does(p, "get")
  /\ LET n == Len(values[m][p])
         from == popen_cnt[m][p]
     IN /\ from + n <= Len(vals[m][p])
        /\ values' = [values EXCEPT ![m][p] = SubSeq(vals[m][p], from + 1, from + n)]
  /\ GoTo(p, AfterGet(p))
  /\ UNCHANGED <<os, macs, vals, popen_cnt, net>>

(* The end of POpen_End and of AddToCheck: CheckIfNeeded.                   *)
Close(p, m) ==
  /\ \/ /\ Does(p, "close")
        /\ popen_cnt' = [popen_cnt EXCEPT ![m][p] = @ + Len(values[m][p])]
        /\ results' = [results EXCEPT ![p] =
             Append(@, [ids |-> Now(p).ids, values |-> values[m][p]])]
     \/ /\ Does(p, "check_if_needed")
        /\ UNCHANGED <<popen_cnt, results>>
  /\ GoTo(p, IF WaitingForCheck(m, p) >= PopenMax THEN FirstOfCheck ELSE Idle)
  /\ UNCHANGED <<values, os, macs, vals, net, checked>>

-----------------------------------------------------------------------------
(* Check: every player tells all others what its pairs sum up to, under     *)
(* commitments; the rounds for the common seed, the commitments and their   *)
(* opening are one Broadcast_Receive here.                                  *)

(* The channel of a check is P for the plain MAC_Check, else its own.       *)
CheckChannel(m) == IF method = "tree" THEN "P" ELSE m

(* What a player checks: the first popen_cnt MACs and values.               *)
Pairs(m, p) == [i \in 1 .. popen_cnt[m][p] |-> <<macs[m][p][i], vals[m][p][i]>>]

Tell(p, m) ==
  /\ \/ /\ Does(p, "send_tau")
        /\ SendOn(CheckChannel(m), p, (p + at[p].i) % N, [kind |-> "tau", body |-> Pairs(m, p)])
        /\ GoTo(p, At("hear_tau", at[p].i, 0))
     \/ /\ Does(p, "hear_tau") /\ Waiting(CheckChannel(m), p, (p + N - at[p].i) % N, "tau")
        /\ TakeFrom(CheckChannel(m), p, (p + N - at[p].i) % N)
        /\ GoTo(p, IF at[p].i < N - 1 THEN At("send_tau", at[p].i + 1, 0) ELSE Local("verify"))
  /\ UNCHANGED data

(* Fault: a check forgets the openings that have been begun and not ended.  *)
VerifyAndClear(p, m) ==
  /\ Does(p, "verify")
  /\ checked' = [checked EXCEPT ![m][p] = Append(@, Pairs(m, p))]
  /\ macs' = [macs EXCEPT ![m][p] = <<>>]
  /\ vals' = [vals EXCEPT ![m][p] = SubSeq(@, popen_cnt[m][p] + 1, Len(@))]
  /\ popen_cnt' = [popen_cnt EXCEPT ![m][p] = 0]
  /\ GoTo(p, Idle)
  /\ UNCHANGED <<values, os, net>>

Verify(p, m) ==
  /\ Does(p, "verify")
  /\ checked' = [checked EXCEPT ![m][p] = Append(@, Pairs(m, p))]
  /\ macs' = [macs EXCEPT ![m][p] = SubSeq(@, popen_cnt[m][p] + 1, Len(@))]
  /\ vals' = [vals EXCEPT ![m][p] = SubSeq(@, popen_cnt[m][p] + 1, Len(@))]
  /\ popen_cnt' = [popen_cnt EXCEPT ![m][p] = 0]
  /\ GoTo(p, Idle)
  /\ UNCHANGED <<values, os, net>>

-----------------------------------------------------------------------------
InCall(p) ==
  /\ Ahead(p)
  /\ LET m == Now(p).mc
     IN \/ /\ \/ PassUp(p, m) \/ Send(p, m) \/ AddShares(p, m) \/ Receive(p, m)
              \/ Pass(p, m) \/ Store(p, m) \/ GetValues(p, m) \/ Tell(p, m)
           /\ UNCHANGED <<checked, results>>
        \/ Close(p, m)
        \/ Verify(p, m) /\ UNCHANGED results
  /\ UNCHANGED <<method, prog>>

Finished == \A p \in Player : ~ Ahead(p)

Next ==
  \/ \E p \in Player : Begin(p) \/ End(p) \/ Add(p) \/ Check(p) \/ InCall(p)
  \/ Finished /\ UNCHANGED vars

Spec == Init /\ [][Next]_vars

-----------------------------------------------------------------------------
(* The values of the calls of kind op to MAC check m before position k.     *)
IdsOf(ops, m, k) ==
  FlattenSeq([i \in 1 .. k - 1 |->
    IF prog[i].op \in ops /\ prog[i].mc = m THEN prog[i].ids ELSE <<>>])

(* A Check pairs each MAC with the value it belongs to, although MACs are   *)
(* stored when an opening begins, values when a player learns them, which   *)
(* is at its begin for some and at its end for others, and checks cut both  *)
(* vectors while openings are under way; and every opening delivers the     *)
(* sum of all shares of what was opened, once each (MAC_Check::Check).      *)
PairsMatch ==
  /\ \A m \in MCs, p \in Player :
       /\ popen_cnt[m][p] <= Len(macs[m][p]) /\ popen_cnt[m][p] <= Len(vals[m][p])
       /\ \A i \in 1 .. popen_cnt[m][p] : vals[m][p][i] = Opened(macs[m][p][i])
  /\ \A p \in Player : \A i \in DOMAIN results[p] :
       results[p][i].values = [j \in DOMAIN results[p][i].ids |-> Opened(results[p][i].ids[j])]

(* All players put the same values into the same checks, every value that   *)
(* was opened or added into exactly one, in order, and none is left when    *)
(* the program has ended with a check.                                      *)
SameChecks ==
  \A m \in MCs, p \in Player :
    /\ \A q \in Player : \A i \in DOMAIN checked[m][p] \cap DOMAIN checked[m][q] :
         checked[m][p][i] = checked[m][q][i]
    /\ LET sofar == IF at[p] = Idle THEN pc[p] ELSE pc[p] + 1
           done  == FlattenSeq(checked[m][p])
       IN [i \in DOMAIN done |-> done[i][1]] \o macs[m][p] = IdsOf({"begin", "add"}, m, sofar)
    /\ Finished => macs[m][p] = <<>> /\ vals[m][p] = <<>>
=============================================================================
