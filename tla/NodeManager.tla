---------------------------- MODULE NodeManager ----------------------------
(***************************************************************************)
(* The node registry of the master, src/src/master/node_manager.py.        *)
(*                                                                         *)
(* A node holds a liveliness token while it is connected.  The master      *)
(* hears of it in two ways: the subscriber's callbacks, run one after the  *)
(* other by a thread of zenoh, and the replies to one query, applied by    *)
(* the thread that called start_discovery.  Each handler changes the       *)
(* registry under the lock, gives the lock back and then calls the         *)
(* application, so the two threads meet between any of these steps.        *)
(*                                                                         *)
(* Zones, PLCA numbers, roles and times of last contact are left out.      *)
(***************************************************************************)
EXTENDS Naturals, Sequences

CONSTANTS Node,        \* node_ids
          MaxEvents    \* bound on the events of a node that wait for the callback

ASSUME EventsAssumption == MaxEvents \in Nat \ {0}

VARIABLES
  token,     \* the nodes whose liveliness token exists
  events,    \* for each node, its events that the subscriber has still to handle
  phase,     \* of discovery: stopped, querying (in start_discovery), watching
  reply,     \* to the query, for each node: open, pending (received), done
  nodes,     \* _nodes: unknown, online (alive), offline
  calling,   \* the callback a thread has still to make, <<>> if none
  told,      \* the last callback the application had about a node
  excused    \* (observation) nodes that left unwatched, or were registered anew

vars == <<token, events, phase, reply, nodes, calling, told, excused>>

Thread == {"zenoh", "main"}
Call == {<<>>} \cup ({"PUT", "DELETE"} \X Node)

Init ==
  /\ token \in SUBSET Node
  /\ events = [n \in Node |-> <<>>]
  /\ phase = "stopped"
  /\ reply = [n \in Node |-> "open"]
  /\ nodes = [n \in Node |-> "unknown"]
  /\ calling = [t \in Thread |-> <<>>]
  /\ told = [n \in Node |-> "nothing"]
  /\ excused = {}
-----------------------------------------------------------------------------
(* Zenoh *)

Subscribed == phase # "stopped"

Happens(n, kind) ==
  /\ Len(events[n]) < MaxEvents
  /\ events' = [events EXCEPT ![n] = IF Subscribed THEN Append(@, kind) ELSE @]
  /\ UNCHANGED <<phase, reply, nodes, calling, told>>

Join(n) ==
  /\ n \notin token /\ token' = token \cup {n}
  /\ Happens(n, "PUT")
  /\ UNCHANGED excused

Leave(n) ==
  /\ n \in token /\ token' = token \ {n}
  /\ Happens(n, "DELETE")
  /\ excused' = IF phase = "watching" THEN excused ELSE excused \cup {n}

\* The router answers the query for a token that exists at this moment.
Answer(n) ==
  /\ phase = "querying" /\ reply[n] = "open" /\ n \in token
  /\ reply' = [reply EXCEPT ![n] = "pending"]
  /\ UNCHANGED <<token, events, phase, nodes, calling, told, excused>>
-----------------------------------------------------------------------------
(* The registry, with the lock held *)

\* Mutant: a node that is known already is only seen again.
RefreshKnown(t, n) ==
  /\ nodes' = [nodes EXCEPT ![n] = IF @ = "unknown" THEN "online" ELSE @]
  /\ calling' = [calling EXCEPT ![t] = <<"PUT", n>>]

HandleNodeOnline(t, n) ==
  /\ nodes' = [nodes EXCEPT ![n] = "online"]
  /\ calling' = [calling EXCEPT ![t] = <<"PUT", n>>]

HandleNodeOffline(t, n) ==
  /\ nodes' = [nodes EXCEPT ![n] = IF @ = "unknown" THEN @ ELSE "offline"]
  /\ calling' = [calling EXCEPT ![t] = <<"DELETE", n>>]

\* A node that is registered by hand is offline, whatever it was.
RegisterNode(n) ==
  /\ nodes' = [nodes EXCEPT ![n] = "offline"]
  /\ excused' = IF nodes[n] = "online" THEN excused \cup {n} ELSE excused
  /\ UNCHANGED <<token, events, phase, reply, calling, told>>
-----------------------------------------------------------------------------
(* The threads *)

OnLivelinessEvent(n) ==
  /\ calling["zenoh"] = <<>> /\ events[n] # <<>>
  /\ events' = [events EXCEPT ![n] = Tail(@)]
  /\ \/ Head(events[n]) = "PUT" /\ HandleNodeOnline("zenoh", n)
     \/ Head(events[n]) = "DELETE" /\ HandleNodeOffline("zenoh", n)
  /\ excused' = IF Len(events[n]) = 1 /\ (n \in token \/ phase = "watching")
                  THEN excused \ {n} ELSE excused
  /\ UNCHANGED <<token, phase, reply, told>>

ApplyReply(n) ==
  /\ calling["main"] = <<>> /\ reply[n] = "pending"
  /\ HandleNodeOnline("main", n)
  /\ reply' = [reply EXCEPT ![n] = "done"]
  /\ UNCHANGED <<token, events, phase, told, excused>>

\* Mutant: the application is told only of nodes that are still alive.
CallBackIfAlive(t) ==
  LET n == calling[t][2]
  IN /\ calling[t] # <<>>
     /\ calling' = [calling EXCEPT ![t] = <<>>]
     /\ told' = [told EXCEPT ![n] = IF nodes[n] = "online" THEN calling[t][1] ELSE @]
     /\ UNCHANGED <<token, events, phase, reply, nodes, excused>>

\* The end of a handler, without the lock.  Of a node that was unknown when it
\* went, nothing is told, unless the other thread has made it known meanwhile.
CallBack(t) ==
  LET n == calling[t][2]
  IN /\ calling[t] # <<>>
     /\ calling' = [calling EXCEPT ![t] = <<>>]
     /\ told' = [told EXCEPT ![n] = IF nodes[n] # "unknown" THEN calling[t][1] ELSE @]
     /\ UNCHANGED <<token, events, phase, reply, nodes, excused>>

\* declare_subscriber, with an event for every token there is (history=True), up
\* to the query.  It is not called again before the last callback has returned.
StartDiscovery ==
  /\ phase = "stopped" /\ calling = [t \in Thread |-> <<>>]
  /\ phase' = "querying"
  /\ events' = [n \in Node |-> IF n \in token THEN <<"PUT">> ELSE <<>>]
  /\ reply' = [n \in Node |-> "open"]
  /\ UNCHANGED <<token, nodes, calling, told, excused>>

\* Mutant: the loop over the replies is left while one is unread.
EndQueryEarly ==
  /\ phase = "querying" /\ calling["main"] = <<>>
  /\ phase' = "watching"
  /\ UNCHANGED <<token, events, reply, nodes, calling, told, excused>>

\* Every reply that came in time has been handled, and its callback made.
EndQuery ==
  /\ phase = "querying" /\ calling["main"] = <<>>
  /\ \A n \in Node : reply[n] # "pending"
  /\ phase' = "watching"
  /\ UNCHANGED <<token, events, reply, nodes, calling, told, excused>>

StopDiscovery ==
  /\ phase = "watching" /\ phase' = "stopped"
  /\ events' = [n \in Node |-> <<>>]
  /\ excused' = excused \cup {n \in Node : events[n] # <<>>}
  /\ UNCHANGED <<token, reply, nodes, calling, told>>

Next ==
  \/ \E n \in Node : Join(n) \/ Leave(n) \/ Answer(n) \/ RegisterNode(n)
  \/ \E n \in Node : OnLivelinessEvent(n) \/ ApplyReply(n)
  \/ \E t \in Thread : CallBack(t)
  \/ StartDiscovery \/ EndQuery \/ StopDiscovery

Spec == Init /\ [][Next]_vars

\* The subscriber's thread runs, and takes the events in the order they come, so
\* that those of one node do not keep back those of another for ever.
FairSpec ==
  /\ Spec
  /\ WF_vars(CallBack("zenoh"))
  /\ \A n \in Node : SF_vars(OnLivelinessEvent(n))
-----------------------------------------------------------------------------
\* Every variable keeps its type, and the thread in start_discovery has nothing
\* left to do when it is over: the type invariant of the module.
TypeOK ==
  /\ token \subseteq Node /\ excused \subseteq Node
  /\ events \in [Node -> Seq({"PUT", "DELETE"})]
  /\ \A n \in Node : Len(events[n]) <= MaxEvents
  /\ phase \in {"stopped", "querying", "watching"}
  /\ reply \in [Node -> {"open", "pending", "done"}]
  /\ nodes \in [Node -> {"unknown", "online", "offline"}]
  /\ calling \in [Thread -> Call]
  /\ told \in [Node -> {"nothing", "PUT", "DELETE"}]
  /\ phase # "querying" => calling["main"] = <<>> /\ \A n \in Node : reply[n] # "pending"

\* Nothing about n is under way.
Quiet(n) == events[n] = <<>> /\ \A t \in Thread : calling[t] = <<>> \/ calling[t][2] # n

\* Once start_discovery has returned and what has happened to a node has been
\* handled, the registry and the application know whether the node is there,
\* whichever thread told them of it, unless the node left while nobody watched
\* or while the query was running, or was registered by hand after it came.
RegistryIsRight ==
  \A n \in Node :
    phase = "watching" /\ Quiet(n) /\ n \notin excused =>
      /\ nodes[n] = "online" <=> n \in token
      /\ nodes[n] = "online" <=> told[n] = "PUT"

\* The application hears of a node that goes away while discovery is watching,
\* unless the node comes back or discovery is stopped first.
DepartureIsTold ==
  \A n \in Node :
    phase = "watching" /\ told[n] = "PUT" /\ n \notin token /\ n \notin excused ~>
      told[n] = "DELETE" \/ n \in token \/ phase # "watching"
=============================================================================
