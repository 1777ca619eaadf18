------------------------- MODULE NodeManager_proofs -------------------------
(***************************************************************************)
(* Proofs about the node registry, for every set of nodes and every bound  *)
(* on the events that wait.                                                *)
(***************************************************************************)
EXTENDS NodeManager, SequenceTheorems, TLAPS

(***************************************************************************)
(* The inductive invariant.  RegistryIsRight speaks of nodes about which   *)
(* nothing is under way; what makes it inductive is what the events that   *)
(* wait, the replies and the two threads' callbacks say of a node before.  *)
(***************************************************************************)

\* Nobody has an event of n to handle, and n is not excused.
Settled(n) == n \notin excused /\ events[n] = <<>>

\* A thread has still to call the application about n.
Calling(t, n) == calling[t] # <<>> /\ calling[t][2] = n

\* The last event that waits says whether the token is there; without a
\* subscriber no event waits.
EventsAreTrue(n) ==
  /\ ~Subscribed => events[n] = <<>>
  /\ events[n] # <<>> => (events[n][Len(events[n])] = "PUT" <=> n \in token)

\* A reply was sent for a token that is still there, unless the node is excused.
ReplyIsTrue(n) == phase = "querying" /\ reply[n] # "open" => n \in token \cup excused

\* The registry knows a settled node.
RegistryIsSettled(n) ==
  Settled(n) => /\ nodes[n] = "online" => n \in token
                /\ Subscribed /\ n \in token => nodes[n] = "online"

\* What a thread is about to tell of a settled node is what the registry says.
CallsAreTrue(n) ==
  Settled(n) => \A t \in Thread :
    Calling(t, n) => (calling[t][1] = "PUT" <=> nodes[n] = "online")

\* Once it is told, the application knows what the registry says, and it is told
\* nothing of a node that is unknown.
ToldIsTrue(n) ==
  /\ nodes[n] = "unknown" => told[n] = "nothing"
  /\ Settled(n) /\ (\A t \in Thread : ~Calling(t, n)) =>
       (told[n] = "PUT" <=> nodes[n] = "online")

NodeInv(n) ==
  /\ EventsAreTrue(n) /\ ReplyIsTrue(n) /\ RegistryIsSettled(n)
  /\ CallsAreTrue(n) /\ ToldIsTrue(n)

\* The thread in start_discovery calls for a reply that it has handled.
MainCalls ==
  calling["main"] # <<>> => /\ calling["main"][1] = "PUT"
                            /\ reply[calling["main"][2]] = "done"

IInv == TypeOK /\ MainCalls /\ \A n \in Node : NodeInv(n)
-----------------------------------------------------------------------------
(* Sequences of events, and callbacks *)

Kind == {"PUT", "DELETE"}

\* What appending an event does to a queue.
LEMMA AppendFacts ==
  ASSUME NEW s \in Seq(Kind), NEW k \in Kind
  PROVE /\ Append(s, k) \in Seq(Kind) /\ Append(s, k) # <<>>
        /\ Len(Append(s, k)) = Len(s) + 1 /\ Append(s, k)[Len(Append(s, k))] = k
  BY SMT DEF Kind

\* What taking the first event from a queue does: the last one stays the last.
LEMMA TailFacts ==
  ASSUME NEW s \in Seq(Kind), s # <<>>
  PROVE /\ Head(s) \in Kind /\ Tail(s) \in Seq(Kind) /\ Len(Tail(s)) <= Len(s)
        /\ Tail(s) = <<>> <=> Len(s) = 1
        /\ Tail(s) = <<>> => Head(s) = s[Len(s)]
        /\ Tail(s) # <<>> => Tail(s)[Len(Tail(s))] = s[Len(s)]
  <1>1. /\ Len(s) \in Nat /\ Len(s) > 0 /\ Head(s) = s[1] /\ s[1] \in Kind
        /\ Tail(s) \in Seq(Kind) /\ Len(Tail(s)) = Len(s) - 1
        /\ \A i \in 1..Len(Tail(s)) : Tail(s)[i] = s[i + 1]
    BY SMT
  <1>2. Tail(s) = <<>> <=> Len(Tail(s)) = 0
    BY <1>1, EmptySeq
  <1>3. CASE Len(s) = 1
    BY <1>1, <1>2, <1>3, SMT
  <1>4. CASE Len(s) # 1
    <2>1. Len(Tail(s)) \in 1..Len(Tail(s)) /\ Len(Tail(s)) + 1 = Len(s)
      BY <1>1, <1>4, SMT
    <2> QED BY <1>1, <1>2, <1>4, <2>1, SMT
  <1> QED BY <1>3, <1>4

\* A callback is none, or a kind of event and a node.
LEMMA CallFacts ==
  ASSUME NEW k \in Kind, NEW n \in Node
  PROVE <<k, n>> \in Call /\ <<k, n>> # <<>> /\ <<k, n>>[1] = k /\ <<k, n>>[2] = n
  BY SMT DEF Call, Kind

\* A callback that is to be made has a kind and a node.
LEMMA CallMembers ==
  ASSUME NEW c \in Call, c # <<>>
  PROVE c[1] \in Kind /\ c[2] \in Node
  BY SMT DEF Call, Kind
-----------------------------------------------------------------------------
\* Before the first call of start_discovery nothing is known and nothing waits.
LEMMA InitInvariant == Init => IInv
  <1> SUFFICES ASSUME Init PROVE IInv
    OBVIOUS
  <1>1. TypeOK
    <2>1. <<>> \in Seq({"PUT", "DELETE"}) /\ Len(<<>>) = 0
      BY EmptySeq
    <2>2. \A t \in Thread : calling[t] = <<>>
      BY DEF Init
    <2> QED BY <2>1, <2>2, EventsAssumption, SMT DEF Init, TypeOK, Call, Thread
  <1>2. MainCalls
    BY DEF Init, MainCalls, Thread
  <1>3. ASSUME NEW n \in Node PROVE NodeInv(n)
    BY DEF Init, NodeInv, EventsAreTrue, ReplyIsTrue, RegistryIsSettled, CallsAreTrue,
           ToldIsTrue, Settled, Calling, Subscribed
  <1> QED BY <1>1, <1>2, <1>3 DEF IInv
-----------------------------------------------------------------------------
(* What zenoh does *)

\* A token that appears is the last event of its node, if somebody subscribed.
LEMMA JoinStep == ASSUME IInv, NEW n \in Node, Join(n) PROVE IInv'
  <1> USE DEF Join, Happens, Kind
  <1>1. /\ events \in [Node -> Seq(Kind)] /\ events[n] \in Seq(Kind) /\ Len(events[n]) \in Nat
        /\ events' \in [Node -> Seq(Kind)]
        /\ events'[n] = IF Subscribed THEN Append(events[n], "PUT") ELSE events[n]
        /\ \A m \in Node : m # n => events'[m] = events[m]
    BY AppendFacts, LenProperties, SMT DEF IInv, TypeOK
  <1>2. /\ events'[n] = events[n] \/ events'[n] # <<>>
        /\ Subscribed => /\ events'[n] # <<>> /\ events'[n][Len(events'[n])] = "PUT"
                         /\ Len(events'[n]) = Len(events[n]) + 1
    BY <1>1, AppendFacts
  <1>3. TypeOK'
    BY <1>1, <1>2, EventsAssumption, SMT DEF IInv, TypeOK
  <1>4. MainCalls'
    BY DEF IInv, MainCalls
  <1>5. ASSUME NEW m \in Node PROVE NodeInv(m)'
    <2>1. NodeInv(m)
      BY DEF IInv
    <2>2. CASE m # n
      BY <1>1, <2>1, <2>2 DEF NodeInv, EventsAreTrue, ReplyIsTrue, RegistryIsSettled,
           CallsAreTrue, ToldIsTrue, Settled, Calling, Subscribed
    <2>3. CASE m = n
      BY <1>1, <1>2, <2>1, <2>3 DEF NodeInv, EventsAreTrue, ReplyIsTrue, RegistryIsSettled,
           CallsAreTrue, ToldIsTrue, Settled, Calling, Subscribed
    <2> QED BY <2>2, <2>3
  <1> QED BY <1>3, <1>4, <1>5 DEF IInv

\* A token that goes is the last event of its node; if the query is running, a
\* reply may have been sent for it, and the node is excused.
LEMMA LeaveStep == ASSUME IInv, NEW n \in Node, Leave(n) PROVE IInv'
  <1> USE DEF Leave, Happens, Kind
  <1>1. /\ events \in [Node -> Seq(Kind)] /\ events[n] \in Seq(Kind) /\ Len(events[n]) \in Nat
        /\ events' \in [Node -> Seq(Kind)]
        /\ events'[n] = IF Subscribed THEN Append(events[n], "DELETE") ELSE events[n]
        /\ \A m \in Node : m # n => events'[m] = events[m]
    BY AppendFacts, LenProperties, SMT DEF IInv, TypeOK
  <1>2. /\ events'[n] = events[n] \/ events'[n] # <<>>
        /\ Subscribed => /\ events'[n] # <<>> /\ events'[n][Len(events'[n])] = "DELETE"
                         /\ Len(events'[n]) = Len(events[n]) + 1
    BY <1>1, AppendFacts
  <1>3. TypeOK'
    BY <1>1, <1>2, EventsAssumption, SMT DEF IInv, TypeOK
  <1>4. MainCalls'
    BY DEF IInv, MainCalls
  <1>5. ASSUME NEW m \in Node PROVE NodeInv(m)'
    <2>1. NodeInv(m)
      BY DEF IInv
    <2>2. CASE m # n
      BY <1>1, <2>1, <2>2 DEF NodeInv, EventsAreTrue, ReplyIsTrue, RegistryIsSettled,
           CallsAreTrue, ToldIsTrue, Settled, Calling, Subscribed
    <2>3. CASE m = n
      BY <1>1, <1>2, <2>1, <2>3 DEF NodeInv, EventsAreTrue, ReplyIsTrue, RegistryIsSettled,
           CallsAreTrue, ToldIsTrue, Settled, Calling, Subscribed
    <2> QED BY <2>2, <2>3
  <1> QED BY <1>3, <1>4, <1>5 DEF IInv

\* A reply is for a token that is there.
LEMMA AnswerStep == ASSUME IInv, NEW n \in Node, Answer(n) PROVE IInv'
  <1> USE DEF Answer
  <1>1. /\ reply'[n] = "pending" /\ \A m \in Node : m # n => reply'[m] = reply[m]
        /\ reply' \in [Node -> {"open", "pending", "done"}]
    BY DEF IInv, TypeOK
  <1>2. TypeOK'
    BY <1>1 DEF IInv, TypeOK
  <1>3. MainCalls'
    <2>1. calling["main"] # <<>> => calling["main"][2] \in Node
      BY CallMembers DEF IInv, TypeOK, Thread
    <2> QED BY <1>1, <2>1 DEF IInv, MainCalls
  <1>4. ASSUME NEW m \in Node PROVE NodeInv(m)'
    <2>1. NodeInv(m)
      BY DEF IInv
    <2>2. CASE m # n
      BY <1>1, <2>1, <2>2 DEF NodeInv, EventsAreTrue, ReplyIsTrue, RegistryIsSettled,
           CallsAreTrue, ToldIsTrue, Settled, Calling, Subscribed
    <2>3. CASE m = n
      BY <1>1, <2>1, <2>3 DEF NodeInv, EventsAreTrue, ReplyIsTrue, RegistryIsSettled,
           CallsAreTrue, ToldIsTrue, Settled, Calling, Subscribed
    <2> QED BY <2>2, <2>3
  <1> QED BY <1>2, <1>3, <1>4 DEF IInv
-----------------------------------------------------------------------------
(* What the threads do *)

\* A node registered by hand is excused if it was online; else it stays away.
LEMMA RegisterNodeStep == ASSUME IInv, NEW n \in Node, RegisterNode(n) PROVE IInv'
  <1> USE DEF RegisterNode
  <1>1. /\ nodes'[n] = "offline" /\ \A m \in Node : m # n => nodes'[m] = nodes[m]
        /\ nodes' \in [Node -> {"unknown", "online", "offline"}]
        /\ nodes[n] \in {"unknown", "online", "offline"}
    BY DEF IInv, TypeOK
  <1>2. TypeOK'
    BY <1>1 DEF IInv, TypeOK
  <1>3. MainCalls'
    BY DEF IInv, MainCalls
  <1>4. ASSUME NEW m \in Node PROVE NodeInv(m)'
    <2>1. NodeInv(m)
      BY DEF IInv
    <2>2. CASE m # n
      BY <1>1, <2>1, <2>2 DEF NodeInv, EventsAreTrue, ReplyIsTrue, RegistryIsSettled,
           CallsAreTrue, ToldIsTrue, Settled, Calling, Subscribed
    <2>3. CASE m = n
      BY <1>1, <2>1, <2>3 DEF NodeInv, EventsAreTrue, ReplyIsTrue, RegistryIsSettled,
           CallsAreTrue, ToldIsTrue, Settled, Calling, Subscribed
    <2> QED BY <2>2, <2>3
  <1> QED BY <1>2, <1>3, <1>4 DEF IInv

\* The subscriber's callback takes the first event of n.  If it was the last one,
\* it is the truth about n; a callback that the other thread has still to make
\* for n can then contradict it only if n is excused.
LEMMA OnLivelinessEventStep == ASSUME IInv, NEW n \in Node, OnLivelinessEvent(n) PROVE IInv'
  <1> USE DEF OnLivelinessEvent, HandleNodeOnline, HandleNodeOffline, Kind, Thread
  <1>1. /\ events \in [Node -> Seq(Kind)] /\ events[n] \in Seq(Kind) /\ events[n] # <<>>
        /\ events'[n] = Tail(events[n])
        /\ \A m \in Node : m # n => events'[m] = events[m]
    BY DEF IInv, TypeOK
  <1>2. /\ Head(events[n]) \in Kind
        /\ events'[n] \in Seq(Kind) /\ Len(events'[n]) <= Len(events[n])
        /\ events'[n] = <<>> <=> Len(events[n]) = 1
        /\ events'[n] = <<>> => Head(events[n]) = events[n][Len(events[n])]
        /\ events'[n] # <<>> => events'[n][Len(events'[n])] = events[n][Len(events[n])]
    BY <1>1, TailFacts
  <1>3. /\ calling'["main"] = calling["main"]
        /\ calling'["zenoh"] = <<Head(events[n]), n>>
        /\ calling'["zenoh"] # <<>> /\ calling'["zenoh"][1] = Head(events[n])
        /\ calling'["zenoh"][2] = n /\ calling' \in [Thread -> Call]
    BY <1>2, CallFacts DEF IInv, TypeOK
  <1>4. /\ nodes'[n] = IF Head(events[n]) = "PUT" THEN "online"
                        ELSE IF nodes[n] = "unknown" THEN "unknown" ELSE "offline"
        /\ \A m \in Node : m # n => nodes'[m] = nodes[m]
        /\ nodes' \in [Node -> {"unknown", "online", "offline"}]
        /\ nodes[n] \in {"unknown", "online", "offline"}
    BY <1>2 DEF IInv, TypeOK
  <1>5. TypeOK'
    <2>1. events' \in [Node -> Seq(Kind)]
      BY <1>1, <1>2
    <2>2. \A m \in Node : Len(events'[m]) <= MaxEvents
      <3>1. Len(events[n]) \in Nat /\ Len(events'[n]) \in Nat
        BY <1>1, <1>2, LenProperties
      <3> QED BY <1>1, <1>2, <3>1, EventsAssumption, SMT DEF IInv, TypeOK
    <2> QED BY <1>3, <1>4, <2>1, <2>2 DEF IInv, TypeOK
  <1>6. MainCalls'
    BY <1>3 DEF IInv, MainCalls
  <1>7. ASSUME NEW m \in Node PROVE NodeInv(m)'
    <2>1. NodeInv(m)
      BY DEF IInv
    <2>2. CASE m # n
      BY <1>1, <1>3, <1>4, <2>1, <2>2 DEF NodeInv, EventsAreTrue, ReplyIsTrue,
           RegistryIsSettled, CallsAreTrue, ToldIsTrue, Settled, Calling, Subscribed
    <2>3. CASE m = n
      <3>1. EventsAreTrue(n)' /\ ReplyIsTrue(n)'
        BY <1>1, <1>2, <2>1, <2>3 DEF NodeInv, EventsAreTrue, ReplyIsTrue, Subscribed
      <3>2. ASSUME Settled(n)' PROVE /\ nodes'[n] = "online" <=> n \in token
                                     /\ Head(events[n]) = "PUT" <=> n \in token
        BY <1>1, <1>2, <1>4, <2>1, <2>3, <3>2 DEF NodeInv, EventsAreTrue, Settled
      <3>3. ASSUME Settled(n)', Calling("main", n) PROVE n \in token
        <4>1. phase = "querying" /\ reply[n] = "done"
          BY <3>3 DEF IInv, TypeOK, MainCalls, Calling
        <4> QED BY <2>1, <2>3, <3>3, <4>1 DEF NodeInv, ReplyIsTrue, Settled
      <3>4. RegistryIsSettled(n)'
        BY <3>2 DEF RegistryIsSettled, Settled
      <3>5. CallsAreTrue(n)'
        BY <1>3, <3>2, <3>3 DEF CallsAreTrue, Calling, IInv, MainCalls
      <3>6. ToldIsTrue(n)'
        BY <1>3, <1>4, <2>1, <2>3 DEF NodeInv, ToldIsTrue, Calling
      <3> QED BY <2>3, <3>1, <3>4, <3>5, <3>6 DEF NodeInv
    <2> QED BY <2>2, <2>3
  <1> QED BY <1>5, <1>6, <1>7 DEF IInv

\* The thread in start_discovery makes a node online whose token is still there,
\* or that is excused.
LEMMA ApplyReplyStep == ASSUME IInv, NEW n \in Node, ApplyReply(n) PROVE IInv'
  <1> USE DEF ApplyReply, HandleNodeOnline, Kind, Thread
  <1>1. /\ calling'["zenoh"] = calling["zenoh"] /\ calling'["main"] = <<"PUT", n>>
        /\ calling'["main"] # <<>> /\ calling'["main"][1] = "PUT"
        /\ calling'["main"][2] = n /\ calling' \in [Thread -> Call]
    BY CallFacts DEF IInv, TypeOK
  <1>2. /\ reply'[n] = "done" /\ \A m \in Node : m # n => reply'[m] = reply[m]
        /\ nodes'[n] = "online" /\ \A m \in Node : m # n => nodes'[m] = nodes[m]
        /\ reply' \in [Node -> {"open", "pending", "done"}]
        /\ nodes' \in [Node -> {"unknown", "online", "offline"}]
        /\ phase = "querying"
    BY DEF IInv, TypeOK
  <1>3. TypeOK'
    BY <1>1, <1>2 DEF IInv, TypeOK
  <1>4. MainCalls'
    BY <1>1, <1>2 DEF MainCalls
  <1>5. ASSUME NEW m \in Node PROVE NodeInv(m)'
    <2>1. NodeInv(m)
      BY DEF IInv
    <2>2. CASE m # n
      BY <1>1, <1>2, <2>1, <2>2 DEF NodeInv, EventsAreTrue, ReplyIsTrue, RegistryIsSettled,
           CallsAreTrue, ToldIsTrue, Settled, Calling, Subscribed
    <2>3. CASE m = n
      BY <1>1, <1>2, <2>1, <2>3 DEF NodeInv, EventsAreTrue, ReplyIsTrue, RegistryIsSettled,
           CallsAreTrue, ToldIsTrue, Settled, Calling, Subscribed
    <2> QED BY <2>2, <2>3
  <1> QED BY <1>3, <1>4, <1>5 DEF IInv

\* The application is told what the registry says of a settled node, whichever
\* of the two threads tells it.
LEMMA CallBackStep == ASSUME IInv, NEW t \in Thread, CallBack(t) PROVE IInv'
  <1>1. PICK n \in Node : calling[t][2] = n /\ calling[t][1] \in Kind /\ calling[t] # <<>>
    BY CallMembers DEF IInv, TypeOK, CallBack
  <1>2. /\ calling'[t] = <<>> /\ \A u \in Thread : u # t => calling'[u] = calling[u]
        /\ calling' \in [Thread -> Call]
        /\ told'[n] = IF nodes[n] # "unknown" THEN calling[t][1] ELSE told[n]
        /\ \A m \in Node : m # n => told'[m] = told[m]
        /\ told' \in [Node -> {"nothing", "PUT", "DELETE"}]
    BY <1>1 DEF IInv, TypeOK, CallBack, Call, Kind
  <1>3. TypeOK'
    BY <1>2 DEF IInv, TypeOK, CallBack, Thread
  <1>4. MainCalls'
    BY <1>2 DEF IInv, MainCalls, CallBack, Thread
  <1>5. ASSUME NEW m \in Node PROVE NodeInv(m)'
    <2>1. NodeInv(m)
      BY DEF IInv
    <2>2. EventsAreTrue(m)' /\ ReplyIsTrue(m)' /\ RegistryIsSettled(m)'
      BY <2>1 DEF NodeInv, CallBack, EventsAreTrue, ReplyIsTrue, RegistryIsSettled, Settled,
                  Subscribed
    <2>3. CallsAreTrue(m)'
      BY <1>2, <2>1 DEF NodeInv, CallBack, CallsAreTrue, Settled, Calling
    <2>4. CASE m # n
      <3>1. \A u \in Thread : Calling(u, m)' <=> Calling(u, m)
        BY <1>1, <1>2, <2>4 DEF Calling
      <3>2. ToldIsTrue(m)'
        BY <1>2, <2>1, <2>4, <3>1 DEF NodeInv, CallBack, ToldIsTrue, Settled
      <3> QED BY <2>2, <2>3, <3>2 DEF NodeInv
    <2>5. CASE m = n
      <3>1. Calling(t, n)
        BY <1>1 DEF Calling
      <3>2. ToldIsTrue(n)'
        BY <1>1, <1>2, <2>1, <2>5, <3>1
           DEF NodeInv, CallBack, ToldIsTrue, CallsAreTrue, Settled
      <3> QED BY <2>2, <2>3, <2>5, <3>2 DEF NodeInv
    <2> QED BY <2>4, <2>5
  <1> QED BY <1>3, <1>4, <1>5 DEF IInv

\* A subscriber that starts is told of every token; a node without one was not
\* online before, unless it is excused.
LEMMA StartDiscoveryStep == ASSUME IInv, StartDiscovery PROVE IInv'
  <1> USE DEF StartDiscovery
  <1>1. /\ \A m \in Node : events'[m] = IF m \in token THEN <<"PUT">> ELSE <<>>
        /\ \A m \in Node : reply'[m] = "open"
        /\ \A t \in Thread : calling[t] = <<>>
    OBVIOUS
  <1>2. /\ <<"PUT">> \in Seq({"PUT", "DELETE"}) /\ Len(<<"PUT">>) = 1 /\ <<"PUT">>[1] = "PUT"
        /\ <<>> \in Seq({"PUT", "DELETE"}) /\ Len(<<>>) = 0 /\ <<"PUT">> # <<>>
    BY EmptySeq, SMT
  <1>3. TypeOK'
    <2>1. events' \in [Node -> Seq({"PUT", "DELETE"})]
      BY <1>2
    <2>2. \A m \in Node : Len(events'[m]) <= MaxEvents
      BY <1>1, <1>2, EventsAssumption, SMT
    <2> QED BY <2>1, <2>2 DEF IInv, TypeOK
  <1>4. MainCalls'
    BY <1>1 DEF MainCalls, Thread
  <1>5. ASSUME NEW m \in Node PROVE NodeInv(m)'
    <2>1. NodeInv(m)
      BY DEF IInv
    <2>2. events'[m] # <<>> => m \in token /\ events'[m][Len(events'[m])] = "PUT"
      BY <1>1, <1>2
    <2> QED BY <1>1, <1>2, <2>1, <2>2 DEF NodeInv, EventsAreTrue, ReplyIsTrue,
              RegistryIsSettled, CallsAreTrue, ToldIsTrue, Settled, Calling, Subscribed
  <1> QED BY <1>3, <1>4, <1>5 DEF IInv

\* When the query is over, no callback of its thread is left.
LEMMA EndQueryStep == ASSUME IInv, EndQuery PROVE IInv'
  BY DEF EndQuery, IInv, TypeOK, MainCalls, NodeInv, EventsAreTrue, ReplyIsTrue,
         RegistryIsSettled, CallsAreTrue, ToldIsTrue, Settled, Calling, Subscribed

\* The events that a stop throws away excuse their nodes.
LEMMA StopDiscoveryStep == ASSUME IInv, StopDiscovery PROVE IInv'
  <1> USE DEF StopDiscovery
  <1>1. /\ \A m \in Node : events'[m] = <<>>
        /\ <<>> \in Seq({"PUT", "DELETE"}) /\ Len(<<>>) = 0
    BY EmptySeq
  <1>2. TypeOK'
    <2>1. events' \in [Node -> Seq({"PUT", "DELETE"})]
      BY <1>1
    <2>2. \A m \in Node : Len(events'[m]) <= MaxEvents
      BY <1>1, EventsAssumption, SMT
    <2> QED BY <2>1, <2>2 DEF IInv, TypeOK
  <1>3. MainCalls'
    BY DEF IInv, MainCalls
  <1>4. ASSUME NEW m \in Node PROVE NodeInv(m)'
    <2>1. NodeInv(m)
      BY DEF IInv
    <2> QED BY <1>1, <2>1 DEF NodeInv, EventsAreTrue, ReplyIsTrue, RegistryIsSettled,
              CallsAreTrue, ToldIsTrue, Settled, Calling, Subscribed
  <1> QED BY <1>2, <1>3, <1>4 DEF IInv
-----------------------------------------------------------------------------
(* The theorems *)

\* The invariant of the registry holds throughout.
LEMMA Invariance == Spec => []IInv
  <1>1. IInv /\ [Next]_vars => IInv'
    <2> SUFFICES ASSUME IInv, [Next]_vars PROVE IInv'
      OBVIOUS
    <2>1. CASE UNCHANGED vars
      BY <2>1 DEF vars, IInv, TypeOK, MainCalls, NodeInv, EventsAreTrue, ReplyIsTrue,
           RegistryIsSettled, CallsAreTrue, ToldIsTrue, Settled, Calling, Subscribed
    <2>2. ASSUME NEW n \in Node, Join(n) \/ Leave(n) \/ Answer(n) \/ RegisterNode(n)
          PROVE IInv'
      BY <2>2, JoinStep, LeaveStep, AnswerStep, RegisterNodeStep
    <2>3. ASSUME NEW n \in Node, OnLivelinessEvent(n) \/ ApplyReply(n) PROVE IInv'
      BY <2>3, OnLivelinessEventStep, ApplyReplyStep
    <2>4. ASSUME NEW t \in Thread, CallBack(t) PROVE IInv'
      BY <2>4, CallBackStep
    <2>5. CASE StartDiscovery \/ EndQuery \/ StopDiscovery
      BY <2>5, StartDiscoveryStep, EndQueryStep, StopDiscoveryStep
    <2> QED BY <2>1, <2>2, <2>3, <2>4, <2>5 DEF Next
  <1> QED BY <1>1, InitInvariant, PTL DEF Spec

\* Every variable keeps its type; no more than MaxEvents events of a node wait, and
\* the thread that ran start_discovery has no reply and no callback left when it
\* is over (node_manager.py, start_discovery).
THEOREM TypeCorrect == Spec => []TypeOK
  <1>1. IInv => TypeOK
    BY DEF IInv
  <1> QED BY <1>1, Invariance, PTL

\* For any number of nodes, however the subscriber's callbacks and the replies to
\* the query meet between the two locked sections and the calls to the
\* application, both the registry and the application know which nodes are
\* there, once what has happened to a node has been handled and unless it is
\* excused (_on_liveliness_event, _handle_node_online, _handle_node_offline).
THEOREM RegistrySafety == Spec => []RegistryIsRight
  <1>1. IInv => RegistryIsRight
    <2> SUFFICES ASSUME IInv, NEW n \in Node,
                        phase = "watching", Quiet(n), n \notin excused
                 PROVE /\ nodes[n] = "online" <=> n \in token
                       /\ nodes[n] = "online" <=> told[n] = "PUT"
      BY DEF RegistryIsRight
    <2>1. NodeInv(n) /\ Settled(n) /\ Subscribed /\ \A t \in Thread : ~Calling(t, n)
      BY DEF IInv, Settled, Quiet, Calling, Subscribed
    <2> QED BY <2>1 DEF NodeInv, RegistryIsSettled, ToldIsTrue
  <1> QED BY <1>1, Invariance, PTL
=============================================================================
