------------------------------ MODULE BmrNodes ------------------------------
(***************************************************************************)
(* BMR/network: the node of each party.  A node connects to the server of   *)
(* every other node and identifies itself; when it is connected and knows   *)
(* all the others it says so to each of them, and a node that has heard     *)
(* this from all the others is ready.                                       *)
(*                                                                         *)
(* A connection goes one way.  chan[i, j] holds what node i has queued for  *)
(* node j: the WaitQueue of the client, its send thread and the socket,     *)
(* which all keep the order.  Every connection has a send thread at i and a *)
(* listener thread at j.  The listeners of a node run at the same time.     *)
(* Connecting succeeds before the time-out and no process dies on its own.  *)
(***************************************************************************)
EXTENDS Naturals, Sequences, FiniteSets

CONSTANT N                     \* parties besides the trusted one, which is node 0

ASSUME PartiesAssumption == N \in Nat \ {0}

Trusted == 0
Parties == 1 .. N
Nodes == {Trusted} \cup Parties
Others(i) == Nodes \ {i}
Connections == {c \in Nodes \X Nodes : c[1] # c[2]}

VARIABLES
  conn,            \* the connecting thread: "connecting", "connected" (the flag is set), "done"
  starter,         \* the thread of Start: "waiting" for the others, "done"
  ready_nodes,     \* the nodes that have identified themselves
  num_identified,  \* _num_parties_identified
  clientsmap,      \* _clientsmap at i of the connection from j
  chan,            \* connections
  listener,        \* what the listener at i for j does
  stopping,        \* Stop has been called
  sending,         \* the send threads that run
  closed,          \* nodes that have shut down their connections
  lost             \* history: types of messages that no send thread took

startup  == <<conn, starter, ready_nodes, num_identified, clientsmap>>
net      == <<chan, lost>>
ending   == <<stopping, sending, closed>>
nodeVars == <<startup, net, listener, ending>>

Type(t) == [type |-> t]
EOF == Type("EOF")

Unmapped == N + 1              \* no entry in the map; looking one up makes it, of 0

NodesInit ==
  /\ conn = [i \in Nodes |-> "connecting"]
  /\ starter = [i \in Nodes |-> "waiting"]
  /\ ready_nodes = [i \in Nodes |-> {}]
  /\ num_identified = [i \in Nodes |-> 0]
  /\ clientsmap = [c \in Connections |-> Unmapped]
  /\ chan = [c \in Connections |-> <<>>]
  /\ listener = [c \in Connections |-> "receiving"]
  /\ stopping = {}
  /\ sending = Connections
  /\ closed = {}
  /\ lost = {}

(* What Node::Send and Broadcast do with the messages that node i has for   *)
(* each of the others.  The queue of a send thread that has left takes them *)
(* and nobody looks at it again.                                            *)
Send(c, i, msgs) ==
  LET late == {j \in Others(i) : <<i, j>> \notin sending}
  IN  /\ chan' = [d \in Connections |->
                    IF d[1] = i /\ d \in sending THEN c[d] \o msgs[d[2]] ELSE c[d]]
      /\ lost' = lost \cup UNION {{msgs[j][k].type : k \in DOMAIN msgs[j]} : j \in late}

ToAll(i, m) == [j \in Others(i) |-> <<m>>]
ToOne(i, to, ms) == [j \in Others(i) |-> IF j = to THEN ms ELSE <<>>]

(* The connecting thread: the flag is set before the node identifies itself. *)
Connect(i) ==
  /\ conn[i] = "connecting"
  /\ conn' = [conn EXCEPT ![i] = "connected"]
  /\ UNCHANGED <<starter, ready_nodes, num_identified, clientsmap, net, listener, ending>>

Identify(i) ==
  /\ conn[i] = "connected"
  /\ conn' = [conn EXCEPT ![i] = "done"]
  /\ Send(chan, i, ToAll(i, Type("ID")))
  /\ UNCHANGED <<starter, ready_nodes, num_identified, clientsmap, listener, ending>>

AllReady(i) == conn[i] # "connecting" /\ ready_nodes[i] = Others(i)

Start(i) ==
  /\ starter[i] = "waiting"
  /\ AllReady(i)
  /\ starter' = [starter EXCEPT ![i] = "done"]
  /\ Send(chan, i, ToAll(i, Type("ALL_IDENTIFIED")))
  /\ UNCHANGED <<conn, ready_nodes, num_identified, clientsmap, listener, ending>>

(* The listener at i has a message of type t from j.                        *)
Incoming(i, j, t) ==
  /\ listener[<<i, j>>] = "receiving"
  /\ chan[<<j, i>>] # <<>>
  /\ Head(chan[<<j, i>>]).type = t

Rest(i, j) == [chan EXCEPT ![<<j, i>>] = Tail(@)]
Take(i, j) == chan' = Rest(i, j) /\ UNCHANGED lost

(* The sender of later messages is looked up in the map.  insert leaves an  *)
(* entry that is there, and the ALL_IDENTIFIED of a node may have come      *)
(* before its ID (Connect and Identify are two steps): then printing the    *)
(* sender has entered 0, and this node takes the other for party 0 for good. *)
(* By the time a message of the protocol is looked up there is an entry.    *)
Mapped(i, j, id) == [clientsmap EXCEPT ![<<i, j>>] = IF @ = Unmapped THEN id ELSE @]

HearId(i, j) ==
  /\ Incoming(i, j, "ID")
  /\ ready_nodes' = [ready_nodes EXCEPT ![i] = @ \cup {j}]
  /\ clientsmap' = Mapped(i, j, j)
  /\ Take(i, j)
  /\ UNCHANGED <<conn, starter, num_identified, listener, ending>>

(* The counter is atomic, but it is read again for the comparison.          *)
HearAllIdentified(i, j) ==
  /\ Incoming(i, j, "ALL_IDENTIFIED")
  /\ num_identified' = [num_identified EXCEPT ![i] = @ + 1]
  /\ clientsmap' = Mapped(i, j, 0)
  /\ Take(i, j)
  /\ listener' = [listener EXCEPT ![<<i, j>>] = "comparing"]
  /\ UNCHANGED <<conn, starter, ready_nodes, ending>>

AllIdentified(i) == num_identified[i] = N

NotAll(i, j) ==
  /\ listener[<<i, j>>] = "comparing"
  /\ ~AllIdentified(i)
  /\ listener' = [listener EXCEPT ![<<i, j>>] = "receiving"]
  /\ UNCHANGED <<startup, net, ending>>

(* The connection from j is closed: NodeAborted stops node i as well.       *)
HearEnd(i, j) ==
  /\ Incoming(i, j, "EOF")
  /\ Take(i, j)
  /\ listener' = [listener EXCEPT ![<<i, j>>] = "aborting"]
  /\ stopping' = stopping \cup {i}
  /\ UNCHANGED <<startup, sending, closed>>

(* pop_dont_stop: a send thread leaves when it has sent what was queued     *)
(* before Stop, and whatever else it found before it saw the queue empty.   *)
Sent(i, j) ==
  /\ i \in stopping /\ <<i, j>> \in sending
  /\ sending' = sending \ {<<i, j>>}
  /\ UNCHANGED <<startup, net, listener, stopping, closed>>

(* Client::Stop returns when all threads of the client have left; then the  *)
(* sockets are shut down, which the others see behind the last message.     *)
\* Fault: the sockets stay open until the process ends.
StayOpen(i) == chan

Shutdown(i) ==
  [c \in Connections |-> IF c[1] = i /\ i \notin closed THEN Append(chan[c], EOF) ELSE chan[c]]

StopReturns(i, j) ==
  /\ listener[<<i, j>>] \in {"stopping", "aborting"}
  /\ conn[i] = "done"
  /\ \A k \in Others(i) : <<i, k>> \notin sending
  /\ closed' = closed \cup {i}
  /\ chan' = Shutdown(i)
  /\ listener' = [listener EXCEPT ![<<i, j>>] = IF @ = "aborting" THEN "gone" ELSE "receiving"]
  /\ UNCHANGED <<startup, stopping, sending, lost>>

NodeStep(i) ==
  \/ Connect(i)
  \/ Identify(i)
  \/ Start(i)
  \/ \E j \in Others(i) :
       \/ HearId(i, j)
       \/ HearAllIdentified(i, j)
       \/ NotAll(i, j)
       \/ HearEnd(i, j)
       \/ Sent(i, j)
       \/ StopReturns(i, j)

(* Node::Start has returned.                                                *)
Returned(i) == starter[i] = "done" /\ \A j \in Others(i) : listener[<<i, j>>] = "gone"
=============================================================================
