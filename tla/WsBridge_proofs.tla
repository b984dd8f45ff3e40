---------------------------- MODULE WsBridge_proofs ----------------------------
(***************************************************************************)
(* Proofs about the web bridge, for any number of requests, changes, cuts  *)
(* and any size of its queues: no queue overflows, no request is lost from *)
(* sight, and a change the client has not read is on its way.              *)
(***************************************************************************)
EXTENDS WsBridge, TLAPS

Msg == {m \in [kind : {"none", "reply", "error", "event"}, id : Ids \cup {"none"},
               ver : Nat, of : SUBSET Domains] : m.kind = "reply" => m.id \in Ids}

\* The ids of the replies in a queue, and of the one being computed.
RepliedIn(q) == {q[k].id : k \in {j \in 1..Len(q) : q[j].kind = "reply"}}
Computed == IF running.kind = "reply" THEN {running.id} ELSE {}

RequestsOnce(q) == \A j, k \in 1..Len(q) : q[j] = q[k] => j = k
RepliesOnce(q) ==
    \A j, k \in 1..Len(q) :
        q[j].kind = "reply" /\ q[k].kind = "reply" /\ q[j].id = q[k].id => j = k
UpToNow(q) == \A k \in 1..Len(q) : q[k].ver <= Len(log)

-----------------------------------------------------------------------------
(* Queues.                                                                 *)

LEMMA RequestAppended ==
  ASSUME NEW q \in Seq(Ids), NEW i \in Ids
  PROVE  /\ Append(q, i) \in Seq(Ids) /\ Len(Append(q, i)) = Len(q) + 1
         /\ Range(Append(q, i)) = Range(q) \cup {i}
         /\ i \notin Range(q) /\ RequestsOnce(q) => RequestsOnce(Append(q, i))
  <1>1. /\ Append(q, i) \in Seq(Ids) /\ Len(Append(q, i)) = Len(q) + 1 /\ Len(q) \in Nat
        /\ Append(q, i)[Len(q) + 1] = i /\ \A k \in 1..Len(q) : Append(q, i)[k] = q[k]
    OBVIOUS
  <1>2. \A p \in Seq(Ids) : Range(p) = {p[k] : k \in 1..Len(p)}
    BY DEF Range
  <1> DEFINE a == Append(q, i)
  <1> HIDE DEF a
  <1>3. Range(a) = Range(q) \cup {i}
    <2>1. ASSUME NEW x PROVE x \in Range(a) <=> x \in Range(q) \/ x = i
      <3>1. x \in Range(a) <=> \E k \in 1..Len(a) : x = a[k]
        BY <1>1, <1>2 DEF a
      <3>2. x \in Range(q) <=> \E k \in 1..Len(q) : x = q[k]
        BY <1>2
      <3>3. QED
        BY <1>1, <3>1, <3>2 DEF a
    <2>2. QED
      BY <2>1
  <1>4. ASSUME i \notin Range(q), RequestsOnce(q) PROVE RequestsOnce(a)
    <2>1. \A k \in 1..Len(q) : q[k] # i
      BY <1>2, <1>4
    <2>2. QED
      BY <1>1, <1>4, <2>1 DEF RequestsOnce, a
  <1>5. QED
    BY <1>1, <1>3, <1>4 DEF a

LEMMA RequestTaken ==
  ASSUME NEW q \in Seq(Ids), q # <<>>, RequestsOnce(q)
  PROVE  /\ Tail(q) \in Seq(Ids) /\ Len(Tail(q)) = Len(q) - 1
         /\ Head(q) \in Ids /\ Head(q) \in Range(q)
         /\ Range(Tail(q)) = Range(q) \ {Head(q)}
         /\ RequestsOnce(Tail(q))
  <1>1. /\ Tail(q) \in Seq(Ids) /\ Len(Tail(q)) = Len(q) - 1 /\ Len(q) \in Nat \ {0}
        /\ Head(q) = q[1] /\ \A k \in 1..Len(q) - 1 : Tail(q)[k] = q[k + 1]
        /\ Head(q) \in Ids
    OBVIOUS
  <1>2. \A p \in Seq(Ids) : Range(p) = {p[k] : k \in 1..Len(p)}
    BY DEF Range
  <1> DEFINE a == Tail(q)
  <1> HIDE DEF a
  <1>3. ASSUME NEW x PROVE x \in Range(a) <=> x \in Range(q) /\ x # Head(q)
    <2>1. x \in Range(a) <=> \E k \in 1..Len(q) - 1 : x = q[k + 1]
      <3>1. x \in Range(a) <=> \E k \in 1..Len(a) : x = a[k]
        BY <1>1, <1>2 DEF a
      <3>2. Len(a) = Len(q) - 1 /\ \A k \in 1..Len(q) - 1 : a[k] = q[k + 1]
        BY <1>1 DEF a
      <3>3. QED
        BY <3>1, <3>2
    <2>2. x \in Range(q) <=> \E k \in 1..Len(q) : x = q[k]
      BY <1>2
    <2>3. \A k \in 1..Len(q) - 1 : k + 1 \in 1..Len(q) /\ q[k + 1] # q[1]
      BY <1>1 DEF RequestsOnce
    <2>4. \A k \in 1..Len(q) : k # 1 => k - 1 \in 1..Len(q) - 1 /\ (k - 1) + 1 = k
      BY <1>1
    <2>5. QED
      BY <1>1, <2>1, <2>2, <2>3, <2>4
  <1>4. Head(q) \in Range(q)
    BY <1>1, <1>2
  <1>5. RequestsOnce(a)
    BY <1>1 DEF RequestsOnce, a
  <1>6. Range(a) = Range(q) \ {Head(q)}
    BY <1>3
  <1>7. QED
    BY <1>1, <1>4, <1>5, <1>6 DEF a

LEMMA MessageAppended ==
  ASSUME NEW q \in Seq(Msg), NEW m \in Msg
  PROVE  /\ Append(q, m) \in Seq(Msg) /\ Len(Append(q, m)) = Len(q) + 1
         /\ RepliedIn(Append(q, m)) = RepliedIn(q) \cup (IF m.kind = "reply" THEN {m.id} ELSE {})
         /\ RepliesOnce(q) /\ (m.kind = "reply" => m.id \notin RepliedIn(q)) => RepliesOnce(Append(q, m))
         /\ UpToNow(q) /\ m.ver <= Len(log) => UpToNow(Append(q, m))
  <1>1. /\ Append(q, m) \in Seq(Msg) /\ Len(Append(q, m)) = Len(q) + 1 /\ Len(q) \in Nat
        /\ Append(q, m)[Len(q) + 1] = m /\ \A k \in 1..Len(q) : Append(q, m)[k] = q[k]
    OBVIOUS
  <1> DEFINE a == Append(q, m)
  <1> HIDE DEF a
  <1>2. ASSUME NEW x
        PROVE  x \in RepliedIn(a) <=> x \in RepliedIn(q) \/ (m.kind = "reply" /\ x = m.id)
    <2>1. x \in RepliedIn(a) <=> \E k \in 1..Len(a) : a[k].kind = "reply" /\ x = a[k].id
      BY DEF RepliedIn
    <2>2. x \in RepliedIn(q) <=> \E k \in 1..Len(q) : q[k].kind = "reply" /\ x = q[k].id
      BY DEF RepliedIn
    <2>3. QED
      BY <1>1, <2>1, <2>2 DEF a
  <1>3. RepliedIn(a) = RepliedIn(q) \cup (IF m.kind = "reply" THEN {m.id} ELSE {})
    BY <1>2
  <1>4. ASSUME RepliesOnce(q), m.kind = "reply" => m.id \notin RepliedIn(q)
        PROVE  RepliesOnce(a)
    <2>1. m.kind = "reply" => \A k \in 1..Len(q) : q[k].kind = "reply" => q[k].id # m.id
      BY <1>4 DEF RepliedIn
    <2>2. QED
      BY <1>1, <1>4, <2>1 DEF RepliesOnce, a
  <1>5. UpToNow(q) /\ m.ver <= Len(log) => UpToNow(a)
    BY <1>1 DEF UpToNow, a
  <1>6. QED
    BY <1>1, <1>3, <1>4, <1>5 DEF a

LEMMA MessageTaken ==
  ASSUME NEW q \in Seq(Msg), q # <<>>, RepliesOnce(q), UpToNow(q)
  PROVE  /\ Tail(q) \in Seq(Msg) /\ Len(Tail(q)) = Len(q) - 1
         /\ Head(q) \in Msg /\ Head(q).ver <= Len(log)
         /\ Head(q).kind = "reply" => Head(q).id \in RepliedIn(q)
         /\ RepliedIn(Tail(q)) =
                RepliedIn(q) \ (IF Head(q).kind = "reply" THEN {Head(q).id} ELSE {})
         /\ RepliesOnce(Tail(q)) /\ UpToNow(Tail(q))
  <1>1. /\ Tail(q) \in Seq(Msg) /\ Len(Tail(q)) = Len(q) - 1 /\ Len(q) \in Nat \ {0}
        /\ Head(q) = q[1] /\ \A k \in 1..Len(q) - 1 : Tail(q)[k] = q[k + 1]
        /\ Head(q) \in Msg
    OBVIOUS
  <1> DEFINE a == Tail(q)
  <1> HIDE DEF a
  <1>2. \A x : x \in RepliedIn(q) <=> \E k \in 1..Len(q) : q[k].kind = "reply" /\ x = q[k].id
    BY DEF RepliedIn
  <1>3. ASSUME NEW x
        PROVE  x \in RepliedIn(a) <=>
                  x \in RepliedIn(q) /\ ~(q[1].kind = "reply" /\ x = q[1].id)
    <2>1. x \in RepliedIn(a)
            <=> \E k \in 1..Len(q) - 1 : q[k + 1].kind = "reply" /\ x = q[k + 1].id
      BY <1>1 DEF RepliedIn, a
    <2>2. \A k \in 1..Len(q) - 1 :
             /\ k + 1 \in 1..Len(q)
             /\ q[k + 1].kind = "reply" /\ q[1].kind = "reply" => q[k + 1].id # q[1].id
      BY <1>1 DEF RepliesOnce
    <2>3. \A k \in 1..Len(q) : k # 1 => k - 1 \in 1..Len(q) - 1 /\ (k - 1) + 1 = k
      BY <1>1
    <2>4. QED
      BY <1>1, <1>2, <2>1, <2>2, <2>3
  <1>4. RepliedIn(a) = RepliedIn(q) \ (IF Head(q).kind = "reply" THEN {Head(q).id} ELSE {})
    BY <1>1, <1>3
  <1>5. RepliesOnce(a)
    BY <1>1 DEF RepliesOnce, a
  <1>6. UpToNow(a) /\ Head(q).ver <= Len(log)
    BY <1>1 DEF UpToNow, a
  <1>7. Head(q).kind = "reply" => Head(q).id \in RepliedIn(q)
    BY <1>1, <1>2
  <1>8. QED
    BY <1>1, <1>4, <1>5, <1>6, <1>7 DEF a

LEMMA NothingIn ==
  /\ <<>> \in Seq(Ids) /\ <<>> \in Seq(Msg) /\ Len(<<>>) = 0
  /\ Range(<<>>) = {} /\ RepliedIn(<<>>) = {}
  /\ RequestsOnce(<<>>) /\ RepliesOnce(<<>>) /\ UpToNow(<<>>)
  BY DEF Range, RepliedIn, RequestsOnce, RepliesOnce, UpToNow

-----------------------------------------------------------------------------
(* The state.                                                              *)

ClientTyped ==
    /\ link \in {"down", "up", "gaveUp", "off"} /\ wire \in BOOLEAN
    /\ link # "up" => ~wire
    /\ pending \subseteq Ids /\ lost \subseteq Ids
    /\ reload \subseteq Domains /\ missed \subseteq Domains
    /\ seen \in [Domains -> Nat] /\ \A d \in Domains : seen[d] <= Len(log)
    /\ tries \in 0..MaxTries /\ (link = "down" => tries < MaxTries)
    /\ cuts \in 0..MaxCuts

ServerTyped ==
    /\ log \in Seq(Domains)
    /\ handler \in [on : BOOLEAN, cursor : Nat] /\ handler.cursor <= Len(log)

QueuesTyped ==
    /\ toServer \in Seq(Ids) /\ RequestsOnce(toServer)
    /\ queue \in Seq(Ids) /\ RequestsOnce(queue) /\ Len(queue) <= QueueCap
    /\ running \in Msg /\ running.ver <= Len(log)
    /\ outbound \in Seq(Msg) /\ RepliesOnce(outbound) /\ UpToNow(outbound)
    /\ Len(outbound) <= QueueCap
    /\ toClient \in Seq(Msg) /\ RepliesOnce(toClient) /\ UpToNow(toClient)

\* A request is in one place at a time.
OnePlace ==
    /\ Range(toServer) \cap (Range(queue) \cup Computed \cup RepliedIn(outbound)
                                \cup RepliedIn(toClient) \cup lost) = {}
    /\ Range(queue) \cap (Computed \cup RepliedIn(outbound) \cup RepliedIn(toClient) \cup lost) = {}
    /\ Computed \cap (RepliedIn(outbound) \cup RepliedIn(toClient) \cup lost) = {}
    /\ RepliedIn(outbound) \cap (RepliedIn(toClient) \cup lost) = {}
    /\ RepliedIn(toClient) \cap lost = {}

Waits == Range(toServer) \cup Range(queue) \cup Computed \cup RepliedIn(outbound)
            \cup RepliedIn(toClient)

\* Without a connection nothing is in flight.
NothingWithoutWire ==
    ~wire => /\ handler = ServerIdle /\ toServer = <<>> /\ queue = <<>>
             /\ running = NoReply /\ outbound = <<>> /\ toClient = <<>>
Waited ==
    /\ link # "up" => pending = {} /\ lost = {}
    /\ wire => pending = Waits \cup lost

BridgeInv ==
    ClientTyped /\ ServerTyped /\ QueuesTyped /\ OnePlace /\ NothingWithoutWire /\ Waited

LEMMA WaitsUnderway == QueuesTyped => Waits = Underway
  <1> SUFFICES ASSUME QueuesTyped PROVE Waits = Underway
    OBVIOUS
  <1>1. ASSUME NEW q \in Seq(Msg)
        PROVE  RepliedIn(q) = {m.id : m \in {x \in Range(q) : x.kind = "reply"}}
    <2>1. Range(q) = {q[k] : k \in 1..Len(q)}
      BY DEF Range
    <2>2. QED
      BY <2>1 DEF RepliedIn
  <1>2. {m.id : m \in Replies} = RepliedIn(outbound) \cup RepliedIn(toClient) \cup Computed
    <2>1. ASSUME NEW x
          PROVE  x \in {m.id : m \in Replies} <=>
                    x \in RepliedIn(outbound) \/ x \in RepliedIn(toClient) \/ x \in Computed
      BY <1>1 DEF QueuesTyped, Replies, Computed
    <2>2. QED
      BY <2>1
  <1>3. QED
    BY <1>2 DEF Waits, Underway, Unread

LEMMA BridgeImplies == BridgeInv => WsTypeOK /\ RequestsAccounted
  <1> SUFFICES ASSUME BridgeInv PROVE WsTypeOK /\ RequestsAccounted
    OBVIOUS
  <1>1. WsTypeOK
    BY DEF BridgeInv, ClientTyped, ServerTyped, QueuesTyped, WsTypeOK
  <1>2. RequestsAccounted
    BY WaitsUnderway DEF BridgeInv, Waited, RequestsAccounted
  <1>3. QED
    BY <1>1, <1>2

LEMMA MessagesTyped ==
  /\ NoReply \in Msg /\ NoReply.kind = "none" /\ NoReply.ver = 0
  /\ NoIdError \in Msg /\ NoIdError.kind = "error" /\ NoIdError.ver = 0
  /\ \A D \in SUBSET Domains : Notice(D) \in Msg /\ Notice(D).kind = "event" /\ Notice(D).ver = 0
                                 /\ Notice(D).of = D
  /\ \A i \in Ids : log \in Seq(Domains) =>
        Reply(i) \in Msg /\ Reply(i).kind = "reply" /\ Reply(i).id = i /\ Reply(i).ver = Len(log)
  /\ \A i \in Ids : Failure(i) \in Msg /\ Failure(i).kind = "reply" /\ Failure(i).id = i /\ Failure(i).ver = 0
  BY DEF NoReply, NoIdError, Notice, Reply, Failure, Message, Msg

LEMMA EmptyWaits ==
  ASSUME toServer = <<>>, queue = <<>>, running = NoReply, outbound = <<>>, toClient = <<>>,
         log \in Seq(Domains)
  PROVE  Waits = {} /\ QueuesTyped /\ OnePlace
  <1>1. Computed = {}
    BY MessagesTyped DEF Computed
  <1>2. Waits = {} /\ OnePlace
    BY <1>1, NothingIn DEF Waits, OnePlace
  <1>3. QueuesTyped
    <2>1. Len(log) \in Nat /\ 0 <= QueueCap
      BY WsAssumption
    <2>2. QED
      BY <2>1, NothingIn, MessagesTyped DEF QueuesTyped
  <1>4. QED
    BY <1>2, <1>3

LEMMA BridgeInit == WsInit => BridgeInv
  <1> SUFFICES ASSUME WsInit PROVE BridgeInv
    OBVIOUS
  <1>1. log \in Seq(Domains) /\ Len(log) = 0
    BY DEF WsInit, Resting
  <1>2. Waits = {} /\ QueuesTyped /\ OnePlace
    BY <1>1, EmptyWaits DEF WsInit, Resting
  <1>3. ClientTyped
    <2>1. seen \in [Domains -> Nat] /\ \A d \in Domains : seen[d] <= Len(log)
      BY <1>1 DEF WsInit, Resting
    <2>2. tries \in 0..MaxTries /\ tries < MaxTries /\ cuts \in 0..MaxCuts
      BY WsAssumption DEF WsInit, Resting
    <2>3. QED
      BY <2>1, <2>2 DEF WsInit, Resting, ClientTyped
  <1>4. ServerTyped
    BY <1>1 DEF WsInit, Resting, ServerTyped, ServerIdle
  <1>5. NothingWithoutWire /\ Waited
    BY <1>2 DEF WsInit, Resting, NothingWithoutWire, Waited
  <1>6. QED
    BY <1>2, <1>3, <1>4, <1>5 DEF BridgeInv

\* A step that leaves the queues and the log alone.
LEMMA QueuesUntouched ==
  ASSUME BridgeInv, UNCHANGED <<log, toServer, queue, running, outbound, toClient>>
  PROVE  QueuesTyped' /\ Waits' = Waits /\ (lost' \subseteq lost => OnePlace')
  <1>1. /\ RepliedIn(outbound)' = RepliedIn(outbound) /\ RepliedIn(toClient)' = RepliedIn(toClient)
        /\ Computed' = Computed /\ Range(toServer)' = Range(toServer) /\ Range(queue)' = Range(queue)
    BY DEF RepliedIn, Computed, Range
  <1>2. Waits' = Waits
    BY <1>1 DEF Waits
  <1>3. lost' \subseteq lost => OnePlace'
    BY <1>1 DEF BridgeInv, OnePlace
  <1>4. /\ RequestsOnce(toServer)' <=> RequestsOnce(toServer)
        /\ RequestsOnce(queue)' <=> RequestsOnce(queue)
        /\ RepliesOnce(outbound)' <=> RepliesOnce(outbound)
        /\ RepliesOnce(toClient)' <=> RepliesOnce(toClient)
    BY DEF RequestsOnce, RepliesOnce
  <1>5. /\ UpToNow(outbound)' <=> UpToNow(outbound)
        /\ UpToNow(toClient)' <=> UpToNow(toClient)
    BY DEF UpToNow
  <1>6. QueuesTyped'
    BY <1>4, <1>5 DEF BridgeInv, QueuesTyped
  <1>7. QED
    BY <1>2, <1>3, <1>6

\* The connection is gone, and everything in flight with it.
LEMMA AllGone ==
  ASSUME BridgeInv, UNCHANGED log, toServer' = <<>>, queue' = <<>>, running' = NoReply,
         outbound' = <<>>, toClient' = <<>>, handler' = ServerIdle, ~wire', ClientTyped',
         link' # "up" => pending' = {} /\ lost' = {}
  PROVE  BridgeInv'
  <1>1. log' \in Seq(Domains) /\ 0 <= Len(log')
    BY DEF BridgeInv, ServerTyped
  <1>2. Waits' = {} /\ QueuesTyped' /\ OnePlace'
    <2>1. Computed' = {} /\ NoReply.ver = 0 /\ NoReply \in Msg
      BY MessagesTyped DEF Computed
    <2>2. Waits' = {} /\ OnePlace'
      BY <2>1, NothingIn DEF Waits, OnePlace
    <2>3. UpToNow(outbound)' /\ UpToNow(toClient)'
      BY NothingIn DEF UpToNow
    <2>4. QueuesTyped'
      BY <1>1, <2>1, <2>3, NothingIn, WsAssumption DEF QueuesTyped
    <2>5. QED
      BY <2>2, <2>4
  <1>3. ServerTyped'
    BY <1>1 DEF ServerTyped, ServerIdle
  <1>4. NothingWithoutWire'
    BY DEF NothingWithoutWire, NoReply, ServerIdle, Message
  <1>5. QED
    BY <1>2, <1>3, <1>4 DEF BridgeInv, Waited

LEMMA ClientKeeps ==
  ASSUME BridgeInv,
         \/ Connect \/ AttemptFails \/ SendThrows \/ OnDone \/ Dispose \/ Cut \/ Subscribe
  PROVE  BridgeInv'
  <1> USE DEF BridgeInv
  <1>0. Len(log) \in Nat
    BY DEF ServerTyped
  <1>1. CASE Connect
    <2>1. /\ ~wire /\ pending = {} /\ lost = {} /\ Waits = {}
      BY <1>1, EmptyWaits DEF Connect, ClientTyped, Waited, NothingWithoutWire, ServerTyped
    <2>2. QueuesTyped' /\ Waits' = Waits /\ OnePlace' /\ UNCHANGED <<pending, lost>>
      BY <1>1, QueuesUntouched DEF Connect
    <2>3. ClientTyped'
      BY <1>1, WsAssumption DEF Connect, ClientTyped, Announced
    <2>4. QED
      BY <1>1, <2>1, <2>2, <2>3 DEF Connect, ServerTyped, NothingWithoutWire, Waited
  <1>2. CASE AttemptFails \/ SendThrows
    <2>1. QueuesTyped' /\ Waits' = Waits /\ OnePlace' /\ UNCHANGED <<pending, lost, wire, log, handler>>
      BY <1>2, QueuesUntouched DEF AttemptFails, SendThrows
    <2>2. ClientTyped' /\ (link = "up" <=> link' = "up")
      BY <1>2, WsAssumption DEF AttemptFails, SendThrows, ClientTyped
    <2>3. NothingWithoutWire'
      BY <1>2 DEF AttemptFails, SendThrows, NothingWithoutWire, NoReply, ServerIdle, Message
    <2>4. QED
      BY <2>1, <2>2, <2>3 DEF ServerTyped, Waited
  <1>3. CASE OnDone
    <2>1. QueuesTyped' /\ Waits' = Waits /\ OnePlace' /\ UNCHANGED <<wire, log, handler>>
      BY <1>3, QueuesUntouched DEF OnDone
    <2>2. ClientTyped' /\ pending' = {} /\ lost' = {} /\ ~wire'
      BY <1>3, WsAssumption DEF OnDone, ClientTyped, Failed
    <2>3. NothingWithoutWire'
      BY <1>3 DEF OnDone, NothingWithoutWire, NoReply, ServerIdle, Message
    <2>4. QED
      BY <2>1, <2>2, <2>3 DEF ServerTyped, Waited
  <1>4. CASE Dispose
    <2>1. ClientTyped' /\ pending' = {} /\ lost' = {} /\ ~wire'
      BY <1>4 DEF Dispose, ClientTyped, Failed
    <2>2. QED
      BY <1>4, <2>1, AllGone DEF Dispose
  <1>5. CASE Cut
    <2>0. /\ link' = "up" /\ wire' = FALSE /\ cuts' \in 0..MaxCuts
          /\ UNCHANGED <<link, log, pending, lost, reload, seen, missed, tries>>
      BY <1>5, WsAssumption DEF Cut, ClientTyped
    <2>1. ClientTyped'
      BY <2>0 DEF ClientTyped
    <2>2. QED
      BY <1>5, <2>0, <2>1, AllGone DEF Cut
  <1>6. CASE Subscribe
    <2>1. QueuesTyped' /\ Waits' = Waits /\ OnePlace'
      BY <1>6, QueuesUntouched DEF Subscribe
    <2>2. ClientTyped' /\ wire' /\ UNCHANGED <<link, pending, lost>>
      BY <1>6 DEF Subscribe, ClientTyped
    <2>3. ServerTyped'
      BY <1>0, <1>6 DEF Subscribe, ServerTyped
    <2>4. QED
      BY <1>6, <2>1, <2>2, <2>3 DEF Subscribe, NothingWithoutWire, Waited
  <1>7. QED
    BY <1>1, <1>2, <1>3, <1>4, <1>5, <1>6

\* The log grows: what was read before was read of a shorter log.
LEMMA EmitKeeps == BridgeInv /\ Emit => BridgeInv'
  <1> SUFFICES ASSUME BridgeInv, Emit PROVE BridgeInv'
    OBVIOUS
  <1> USE DEF BridgeInv
  <1>1. /\ log' \in Seq(Domains) /\ Len(log') = Len(log) + 1 /\ Len(log) \in Nat
        /\ UNCHANGED <<link, wire, handler, toServer, queue, running, outbound, toClient, pending,
                       lost, reload, seen, missed, tries, cuts>>
    BY DEF Emit, ServerTyped
  <1>2. ClientTyped'
    BY <1>1 DEF ClientTyped
  <1>3. ServerTyped'
    BY <1>1 DEF ServerTyped
  <1>4. \A q \in Seq(Msg) : UpToNow(q) => UpToNow(q)'
    <2>1. \A q \in Seq(Msg) : \A k \in 1..Len(q) : q[k].ver \in Nat
      BY DEF Msg
    <2>2. QED
      BY <1>1, <2>1 DEF UpToNow
  <1>5. running.ver \in Nat
    BY DEF QueuesTyped, Msg
  <1>6. QueuesTyped'
    <2>1. RequestsOnce(toServer)' /\ RequestsOnce(queue)'
      BY <1>1 DEF QueuesTyped, RequestsOnce
    <2>2. RepliesOnce(outbound)' /\ RepliesOnce(toClient)'
      BY <1>1 DEF QueuesTyped, RepliesOnce
    <2>3. UpToNow(outbound)' /\ UpToNow(toClient)'
      <3>1. UpToNow(outbound) /\ UpToNow(toClient) /\ outbound \in Seq(Msg) /\ toClient \in Seq(Msg)
        BY DEF QueuesTyped
      <3>2. QED
        BY <1>1, <1>4, <3>1 DEF UpToNow
    <2>4. running' \in Msg /\ running'.ver <= Len(log')
      BY <1>1, <1>5 DEF QueuesTyped
    <2>5. QED
      BY <1>1, <2>1, <2>2, <2>3, <2>4 DEF QueuesTyped
  <1>7. Waits' = Waits /\ OnePlace'
    <2>1. /\ RepliedIn(outbound)' = RepliedIn(outbound) /\ RepliedIn(toClient)' = RepliedIn(toClient)
          /\ Computed' = Computed /\ Range(toServer)' = Range(toServer)
          /\ Range(queue)' = Range(queue) /\ lost' = lost
      BY <1>1 DEF RepliedIn, Computed, Range
    <2>2. QED
      BY <2>1 DEF Waits, OnePlace
  <1>8. NothingWithoutWire' /\ Waited'
    BY <1>1, <1>7 DEF NothingWithoutWire, Waited, NoReply, ServerIdle, Message
  <1>9. QED
    BY <1>2, <1>3, <1>6, <1>7, <1>8

LEMMA SendKeeps ==
  ASSUME BridgeInv, NEW i \in Ids, Send(i)
  PROVE  BridgeInv'
  <1> USE DEF BridgeInv
  <1>1. /\ link = "up" /\ i \notin pending /\ i \notin Waits
        /\ pending' = pending \cup {i} /\ reload' \subseteq reload
        /\ UNCHANGED <<link, wire, log, handler, queue, running, outbound, toClient, lost, seen,
                       missed, tries, cuts>>
    BY WaitsUnderway DEF Send
  <1>2. ClientTyped' /\ ServerTyped'
    BY <1>1 DEF ClientTyped, ServerTyped
  <1>3. CASE ~wire
    <2>1. UNCHANGED toServer
      BY <1>3 DEF Send
    <2>2. QueuesTyped' /\ OnePlace'
      BY <1>1, <2>1, QueuesUntouched
    <2>3. NothingWithoutWire' /\ Waited'
      BY <1>1, <1>3, <2>1 DEF NothingWithoutWire, Waited, NoReply, ServerIdle, Message
    <2>4. QED
      BY <1>2, <2>2, <2>3
  <1>4. CASE wire
    <2>1. i \notin lost /\ i \notin Range(toServer)
      BY <1>1, <1>4 DEF Waited, Waits
    <2>2. /\ toServer' \in Seq(Ids) /\ Range(toServer') = Range(toServer) \cup {i}
          /\ RequestsOnce(toServer')
      BY <1>4, <2>1, RequestAppended DEF Send, QueuesTyped
    <2>3. QueuesTyped'
      BY <1>1, <2>2 DEF QueuesTyped, RequestsOnce, RepliesOnce, UpToNow
    <2>4. /\ Range(queue') = Range(queue) /\ Computed' = Computed
          /\ RepliedIn(outbound') = RepliedIn(outbound) /\ RepliedIn(toClient') = RepliedIn(toClient)
      BY <1>1 DEF Computed
    <2>5. OnePlace'
      BY <1>1, <2>1, <2>2, <2>4 DEF OnePlace, Waits
    <2>6. NothingWithoutWire' /\ Waited'
      BY <1>1, <1>4, <2>2, <2>4 DEF NothingWithoutWire, Waited, Waits
    <2>7. QED
      BY <1>2, <2>3, <2>5, <2>6
  <1>5. QED
    BY <1>3, <1>4 DEF ClientTyped

\* A reply completes its request, an event or an error none.
LEMMA OnMessageKeeps == BridgeInv /\ OnMessage => BridgeInv'
  <1> SUFFICES ASSUME BridgeInv, OnMessage PROVE BridgeInv'
    OBVIOUS
  <1> USE DEF BridgeInv
  <1> DEFINE m == Head(toClient)
  <1>1. /\ toClient # <<>> /\ toClient' = Tail(toClient)
        /\ UNCHANGED <<link, wire, log, handler, toServer, queue, running, outbound, lost, tries, cuts>>
        /\ \/ m.kind = "reply" /\ pending' = pending \ {m.id} /\ UNCHANGED reload
              /\ seen' = [seen EXCEPT ![Asks[m.id]] = Max({@, m.ver})]
           \/ m.kind # "reply" /\ UNCHANGED <<pending, seen>>
              /\ reload' = reload \cup (IF m.kind = "event" THEN m.of ELSE {})
        /\ missed' \subseteq missed
    BY DEF OnMessage
  <1>2. /\ toClient' \in Seq(Msg) /\ RepliesOnce(toClient') /\ UpToNow(toClient')
        /\ m \in Msg /\ m.ver <= Len(log)
        /\ m.kind = "reply" => m.id \in RepliedIn(toClient)
        /\ RepliedIn(toClient') = RepliedIn(toClient) \ (IF m.kind = "reply" THEN {m.id} ELSE {})
    BY <1>1, MessageTaken DEF QueuesTyped
  <1> HIDE DEF m
  <1>3. m.ver \in Nat /\ m.of \subseteq Domains /\ (m.kind = "reply" => m.id \in Ids)
    BY <1>2 DEF Msg
  <1>4. seen' \in [Domains -> Nat] /\ \A d \in Domains : seen'[d] <= Len(log)
    <2>1. \A x, y \in Nat : Max({x, y}) \in {x, y}
      BY DEF Max
    <2>2. Len(log) \in Nat /\ seen \in [Domains -> Nat] /\ \A d \in Domains : seen[d] <= Len(log)
      BY DEF ClientTyped, ServerTyped
    <2>3. CASE m.kind = "reply"
      <3>1. Asks[m.id] \in Domains
        BY <1>3, <2>3, WsAssumption
      <3>2. Max({seen[Asks[m.id]], m.ver}) \in {seen[Asks[m.id]], m.ver}
        BY <1>3, <2>1, <2>2, <3>1
      <3>3. QED
        BY <1>1, <1>2, <1>3, <2>2, <2>3, <3>1, <3>2
    <2>4. CASE m.kind # "reply"
      BY <1>1, <2>2, <2>4
    <2>5. QED
      BY <2>3, <2>4
  <1>5. ClientTyped' /\ ServerTyped'
    BY <1>1, <1>3, <1>4 DEF ClientTyped, ServerTyped
  <1>6. QueuesTyped'
    <2>1. RequestsOnce(toServer)' /\ RequestsOnce(queue)'
      BY <1>1 DEF QueuesTyped, RequestsOnce
    <2>2. RepliesOnce(outbound)' /\ RepliesOnce(toClient)'
      BY <1>1, <1>2 DEF QueuesTyped, RepliesOnce
    <2>3. UpToNow(outbound)' /\ UpToNow(toClient)'
      BY <1>1, <1>2 DEF QueuesTyped, UpToNow
    <2>4. QED
      BY <1>1, <1>2, <2>1, <2>2, <2>3 DEF QueuesTyped
  <1>7. /\ RepliedIn(outbound)' = RepliedIn(outbound) /\ Computed' = Computed
        /\ RepliedIn(toClient)' = RepliedIn(toClient) \ (IF m.kind = "reply" THEN {m.id} ELSE {})
        /\ Range(toServer)' = Range(toServer) /\ Range(queue)' = Range(queue)
    BY <1>1, <1>2 DEF RepliedIn, Computed, Range
  <1>8. OnePlace'
    BY <1>1, <1>7 DEF OnePlace
  <1>9. Waited'
    <2>1. wire => pending' = Waits' \cup lost
      BY <1>1, <1>2, <1>7 DEF Waited, OnePlace, Waits
    <2>2. QED
      BY <1>1, <2>1 DEF Waited
  <1>10. NothingWithoutWire'
    BY <1>1 DEF NothingWithoutWire, ServerIdle, NoReply, Message
  <1>11. QED
    BY <1>5, <1>6, <1>8, <1>9, <1>10

\* A step of the server; what waits is moved, or counted as lost.
LEMMA ServerMoves ==
  ASSUME BridgeInv, wire, UNCHANGED <<link, wire, pending, reload, seen, tries, cuts>>,
         ServerTyped', QueuesTyped', OnePlace', lost' \subseteq Ids, missed' \subseteq Domains,
         Waits' \cup lost' = Waits \cup lost, UNCHANGED log
  PROVE  BridgeInv'
  BY DEF BridgeInv, ClientTyped, NothingWithoutWire, Waited

LEMMA ReadKeeps == BridgeInv /\ ReadCommand => BridgeInv'
  <1> SUFFICES ASSUME BridgeInv, ReadCommand PROVE BridgeInv'
    OBVIOUS
  <1> DEFINE i == Head(toServer)
  <1>0. QueuesTyped /\ OnePlace /\ ServerTyped /\ Len(log) \in Nat
    BY DEF BridgeInv, ServerTyped
  <1>1. /\ wire /\ toServer # <<>> /\ toServer' = Tail(toServer)
        /\ UNCHANGED <<link, wire, log, handler, running, outbound, pending, reload, seen, tries, cuts>>
        /\ \/ /\ Len(queue) < QueueCap /\ queue' = Append(queue, i) /\ UNCHANGED <<toClient, lost>>
           \/ /\ toClient' = Append(toClient, NoIdError) /\ lost' = lost \cup {i} /\ UNCHANGED queue
        /\ missed' \subseteq missed \cup {Asks[i]}
    BY DEF ReadCommand, HasRoom, BridgeInv, NothingWithoutWire, ServerIdle
  <1>2. /\ toServer' \in Seq(Ids) /\ RequestsOnce(toServer') /\ i \in Ids /\ i \in Range(toServer)
        /\ Range(toServer') = Range(toServer) \ {i}
    BY <1>0, <1>1, RequestTaken DEF QueuesTyped
  <1> HIDE DEF i
  <1>3. /\ RequestsOnce(toServer)' /\ Computed' = Computed
        /\ RepliesOnce(outbound)' /\ UpToNow(outbound)' /\ RepliedIn(outbound)' = RepliedIn(outbound)
        /\ Range(toServer)' = Range(toServer) \ {i}
    <2>1. RequestsOnce(toServer)'
      BY <1>2 DEF RequestsOnce
    <2>2. RepliesOnce(outbound)'
      BY <1>0, <1>1 DEF QueuesTyped, RepliesOnce
    <2>3. UpToNow(outbound)'
      BY <1>0, <1>1 DEF QueuesTyped, UpToNow
    <2>4. Computed' = Computed /\ RepliedIn(outbound)' = RepliedIn(outbound)
      BY <1>1 DEF Computed, RepliedIn
    <2>5. Range(toServer)' = Range(toServer) \ {i}
      BY <1>2 DEF Range
    <2>6. QED
      BY <2>1, <2>2, <2>3, <2>4, <2>5
  <1>4. ServerTyped' /\ missed' \subseteq Domains
    BY <1>0, <1>1, <1>2, WsAssumption DEF ServerTyped, BridgeInv, ClientTyped
  <1>5. CASE /\ Len(queue) < QueueCap /\ queue' = Append(queue, i) /\ UNCHANGED <<toClient, lost>>
    <2>1. /\ queue' \in Seq(Ids) /\ Len(queue') = Len(queue) + 1
          /\ RequestsOnce(queue') /\ Range(queue') = Range(queue) \cup {i}
      <3>1. i \notin Range(queue)
        BY <1>0, <1>2 DEF OnePlace
      <3>2. QED
        BY <1>0, <1>2, <1>5, <3>1, RequestAppended DEF QueuesTyped
    <2>2. /\ RepliesOnce(toClient)' /\ UpToNow(toClient)' /\ RepliedIn(toClient)' = RepliedIn(toClient)
          /\ RequestsOnce(queue)' /\ Range(queue)' = Range(queue) \cup {i}
      <3>1. RepliesOnce(toClient)'
        BY <1>0, <1>5 DEF QueuesTyped, RepliesOnce
      <3>2. UpToNow(toClient)'
        BY <1>0, <1>1, <1>5 DEF QueuesTyped, UpToNow
      <3>3. RepliedIn(toClient)' = RepliedIn(toClient)
        BY <1>5 DEF RepliedIn
      <3>4. RequestsOnce(queue)'
        BY <2>1 DEF RequestsOnce
      <3>5. Range(queue)' = Range(queue) \cup {i}
        BY <2>1 DEF Range
      <3>6. QED
        BY <3>1, <3>2, <3>3, <3>4, <3>5
    <2>3. QueuesTyped'
      <3>1. Len(queue) + 1 <= QueueCap
        BY <1>0, <1>5, WsAssumption DEF QueuesTyped
      <3>2. QED
        BY <1>0, <1>1, <1>2, <1>3, <1>5, <2>1, <2>2, <3>1 DEF QueuesTyped
    <2>4. OnePlace'
      BY <1>0, <1>1, <1>2, <1>3, <1>5, <2>2 DEF OnePlace
    <2>5. Waits' \cup lost' = Waits \cup lost
      BY <1>1, <1>2, <1>3, <1>5, <2>2 DEF Waits
    <2>6. lost' \subseteq Ids
      BY <1>5 DEF BridgeInv, ClientTyped
    <2>7. QED
      BY <1>1, <1>4, <2>3, <2>4, <2>5, <2>6, ServerMoves
  <1>6. CASE /\ toClient' = Append(toClient, NoIdError) /\ lost' = lost \cup {i} /\ UNCHANGED queue
    <2>1. /\ toClient' \in Seq(Msg) /\ RepliesOnce(toClient') /\ UpToNow(toClient')
          /\ RepliedIn(toClient') = RepliedIn(toClient)
      <3>1. NoIdError \in Msg /\ NoIdError.kind # "reply" /\ NoIdError.ver <= Len(log)
        BY <1>0, MessagesTyped
      <3>2. toClient \in Seq(Msg) /\ RepliesOnce(toClient) /\ UpToNow(toClient)
        BY <1>0 DEF QueuesTyped
      <3>3. QED
        BY <1>6, <3>1, <3>2, MessageAppended
    <2>2. /\ RepliesOnce(toClient)' /\ UpToNow(toClient)' /\ RepliedIn(toClient)' = RepliedIn(toClient)
          /\ RequestsOnce(queue)' /\ Range(queue)' = Range(queue)
      <3>1. RepliesOnce(toClient)'
        BY <2>1 DEF RepliesOnce
      <3>2. UpToNow(toClient)'
        BY <1>1, <2>1 DEF UpToNow
      <3>3. RepliedIn(toClient)' = RepliedIn(toClient)
        BY <2>1 DEF RepliedIn
      <3>4. RequestsOnce(queue)'
        BY <1>0, <1>6 DEF QueuesTyped, RequestsOnce
      <3>5. Range(queue)' = Range(queue)
        BY <1>6 DEF Range
      <3>6. QED
        BY <3>1, <3>2, <3>3, <3>4, <3>5
    <2>3. QueuesTyped'
      BY <1>0, <1>1, <1>2, <1>3, <1>6, <2>1, <2>2 DEF QueuesTyped
    <2>4. OnePlace'
      BY <1>0, <1>1, <1>2, <1>3, <1>6, <2>2 DEF OnePlace
    <2>5. Waits' \cup lost' = Waits \cup lost
      BY <1>1, <1>2, <1>3, <1>6, <2>2 DEF Waits
    <2>6. lost' \subseteq Ids
      BY <1>2, <1>6 DEF BridgeInv, ClientTyped
    <2>7. QED
      BY <1>1, <1>4, <2>3, <2>4, <2>5, <2>6, ServerMoves
  <1>7. QED
    BY <1>1, <1>5, <1>6

\* What a step of the server leaves of the sequences it does not touch.
LEMMA RequestsKept ==
  ASSUME BridgeInv
  PROVE  /\ toServer' = toServer => RequestsOnce(toServer)' /\ Range(toServer)' = Range(toServer)
         /\ queue' = queue => RequestsOnce(queue)' /\ Range(queue)' = Range(queue)
  BY DEF BridgeInv, QueuesTyped, RequestsOnce, Range

LEMMA RepliesKept ==
  ASSUME BridgeInv, UNCHANGED log
  PROVE  /\ outbound' = outbound => /\ RepliesOnce(outbound)' /\ UpToNow(outbound)'
                                   /\ RepliedIn(outbound)' = RepliedIn(outbound)
         /\ toClient' = toClient => /\ RepliesOnce(toClient)' /\ UpToNow(toClient)'
                                   /\ RepliedIn(toClient)' = RepliedIn(toClient)
         /\ running' = running => Computed' = Computed
  <1>1. RepliesOnce(outbound) /\ RepliesOnce(toClient) /\ UpToNow(outbound) /\ UpToNow(toClient)
    BY DEF BridgeInv, QueuesTyped
  <1>2. outbound' = outbound => /\ RepliesOnce(outbound)' /\ UpToNow(outbound)'
                                /\ RepliedIn(outbound)' = RepliedIn(outbound)
    BY <1>1 DEF RepliesOnce, UpToNow, RepliedIn
  <1>3. toClient' = toClient => /\ RepliesOnce(toClient)' /\ UpToNow(toClient)'
                                /\ RepliedIn(toClient)' = RepliedIn(toClient)
    BY <1>1 DEF RepliesOnce, UpToNow, RepliedIn
  <1>4. running' = running => Computed' = Computed
    BY DEF Computed
  <1>5. QED
    BY <1>2, <1>3, <1>4

\* A message is pushed or forwarded onto the connection.
LEMMA WiredAppend ==
  ASSUME BridgeInv, UNCHANGED log, NEW m \in Msg, m.ver <= Len(log),
         m.kind = "reply" => m.id \notin RepliedIn(toClient), toClient' = Append(toClient, m)
  PROVE  /\ toClient' \in Seq(Msg) /\ RepliesOnce(toClient)' /\ UpToNow(toClient)'
         /\ RepliedIn(toClient)' =
                RepliedIn(toClient) \cup (IF m.kind = "reply" THEN {m.id} ELSE {})
  <1>1. /\ toClient' \in Seq(Msg) /\ RepliesOnce(toClient') /\ UpToNow(toClient')
        /\ RepliedIn(toClient') = RepliedIn(toClient) \cup (IF m.kind = "reply" THEN {m.id} ELSE {})
    BY MessageAppended DEF BridgeInv, QueuesTyped
  <1>2. RepliesOnce(toClient)'
    BY <1>1 DEF RepliesOnce
  <1>3. UpToNow(toClient)'
    BY <1>1 DEF UpToNow
  <1>4. RepliedIn(toClient)' = RepliedIn(toClient')
    BY DEF RepliedIn
  <1>5. QED
    BY <1>1, <1>2, <1>3, <1>4

LEMMA ExecuteKeeps == BridgeInv /\ Execute => BridgeInv'
  <1> SUFFICES ASSUME BridgeInv, Execute PROVE BridgeInv'
    OBVIOUS
  <1> DEFINE i == Head(queue)
  <1>0. QueuesTyped /\ OnePlace /\ ServerTyped /\ Len(log) \in Nat /\ log \in Seq(Domains)
        /\ lost \subseteq Ids
    BY DEF BridgeInv, ServerTyped, ClientTyped
  <1>1. /\ wire /\ queue # <<>> /\ queue' = Tail(queue) /\ running = NoReply
        /\ UNCHANGED <<link, wire, log, handler, toServer, outbound, toClient, pending, reload, seen,
                       tries, cuts>>
        /\ \/ running' \in {Reply(i), Failure(i)} /\ UNCHANGED lost
           \/ running' = NoIdError /\ lost' = lost \cup {i}
        /\ missed' \subseteq missed \cup {Asks[i]}
    BY DEF Execute, BridgeInv, NothingWithoutWire
  <1>2. /\ queue' \in Seq(Ids) /\ RequestsOnce(queue') /\ i \in Ids /\ i \in Range(queue)
        /\ Range(queue') = Range(queue) \ {i} /\ Len(queue') = Len(queue) - 1
    BY <1>0, <1>1, RequestTaken DEF QueuesTyped
  <1> HIDE DEF i
  <1>3. RequestsOnce(queue)' /\ Range(queue)' = Range(queue) \ {i}
    BY <1>2 DEF RequestsOnce, Range
  <1>4. Computed = {}
    BY <1>1, MessagesTyped DEF Computed
  <1>5. /\ running' \in Msg /\ running'.ver <= Len(log)
        /\ \/ Computed' = {i} /\ lost' = lost
           \/ Computed' = {} /\ lost' = lost \cup {i}
    BY <1>0, <1>1, <1>2, MessagesTyped DEF Computed
  <1>6. Len(queue') <= QueueCap
    BY <1>0, <1>2, WsAssumption DEF QueuesTyped
  <1>7. QueuesTyped'
    BY <1>0, <1>1, <1>2, <1>3, <1>5, <1>6, RequestsKept, RepliesKept DEF QueuesTyped
  <1>8. ServerTyped' /\ lost' \subseteq Ids /\ missed' \subseteq Domains
    BY <1>0, <1>1, <1>2, WsAssumption DEF ServerTyped, BridgeInv, ClientTyped
  <1>9. OnePlace'
    <2>1. /\ Range(toServer)' = Range(toServer) /\ RepliedIn(outbound)' = RepliedIn(outbound)
          /\ RepliedIn(toClient)' = RepliedIn(toClient)
      BY <1>1, RequestsKept, RepliesKept
    <2>2. CASE Computed' = {i} /\ lost' = lost
      BY <1>0, <1>2, <1>3, <2>1, <2>2 DEF OnePlace
    <2>3. CASE Computed' = {} /\ lost' = lost \cup {i}
      BY <1>0, <1>2, <1>3, <2>1, <2>3 DEF OnePlace
    <2>4. QED
      BY <1>5, <2>2, <2>3
  <1>10. Waits' \cup lost' = Waits \cup lost
    BY <1>1, <1>2, <1>3, <1>4, <1>5, RequestsKept, RepliesKept DEF Waits
  <1>11. QED
    BY <1>1, <1>7, <1>8, <1>9, <1>10, ServerMoves

LEMMA RespondKeeps == BridgeInv /\ Respond => BridgeInv'
  <1> SUFFICES ASSUME BridgeInv, Respond PROVE BridgeInv'
    OBVIOUS
  <1>0. QueuesTyped /\ OnePlace /\ ServerTyped /\ Len(log) \in Nat /\ lost \subseteq Ids /\ missed \subseteq Domains
    BY DEF BridgeInv, ServerTyped, ClientTyped
  <1>1. /\ wire /\ Len(outbound) < QueueCap /\ outbound' = Append(outbound, running)
        /\ running' = NoReply
        /\ UNCHANGED <<link, wire, log, handler, toServer, queue, toClient, pending, lost, reload,
                       seen, missed, tries, cuts>>
    BY DEF Respond, HasRoom, BridgeInv, NothingWithoutWire
  <1>2. running.kind = "reply" => running.id \notin RepliedIn(outbound)
    BY <1>0 DEF OnePlace, Computed
  <1>3. /\ outbound' \in Seq(Msg) /\ RepliesOnce(outbound') /\ UpToNow(outbound')
        /\ Len(outbound') = Len(outbound) + 1
        /\ RepliedIn(outbound') = RepliedIn(outbound) \cup Computed
    BY <1>0, <1>1, <1>2, MessageAppended DEF QueuesTyped, Computed
  <1>4. RepliesOnce(outbound)' /\ RepliedIn(outbound)' = RepliedIn(outbound) \cup Computed
    BY <1>3 DEF RepliesOnce, RepliedIn
  <1>5. UpToNow(outbound)' /\ Len(outbound') <= QueueCap
    BY <1>0, <1>1, <1>3, WsAssumption DEF UpToNow, QueuesTyped
  <1>6. running' \in Msg /\ running'.ver <= Len(log) /\ Computed' = {}
    BY <1>0, <1>1, MessagesTyped DEF Computed
  <1>7. QueuesTyped'
    BY <1>0, <1>1, <1>3, <1>4, <1>5, <1>6, RequestsKept, RepliesKept DEF QueuesTyped
  <1>8. ServerTyped' /\ lost' \subseteq Ids /\ missed' \subseteq Domains
    BY <1>0, <1>1 DEF ServerTyped
  <1>9. OnePlace'
    BY <1>0, <1>1, <1>4, <1>6, RequestsKept, RepliesKept DEF OnePlace
  <1>10. Waits' \cup lost' = Waits \cup lost
    BY <1>1, <1>4, <1>6, RequestsKept, RepliesKept DEF Waits
  <1>11. QED
    BY <1>1, <1>7, <1>8, <1>9, <1>10, ServerMoves

LEMMA ForwardKeeps == BridgeInv /\ Forward => BridgeInv'
  <1> SUFFICES ASSUME BridgeInv, Forward PROVE BridgeInv'
    OBVIOUS
  <1> DEFINE m == Head(outbound)
  <1>0. QueuesTyped /\ OnePlace /\ ServerTyped /\ Len(log) \in Nat /\ lost \subseteq Ids /\ missed \subseteq Domains
    BY DEF BridgeInv, ServerTyped, ClientTyped
  <1>1. /\ wire /\ outbound # <<>> /\ outbound' = Tail(outbound) /\ toClient' = Append(toClient, m)
        /\ UNCHANGED <<link, wire, log, handler, toServer, queue, running, pending, lost, reload,
                       seen, missed, tries, cuts>>
    BY DEF Forward, BridgeInv, NothingWithoutWire
  <1>2. /\ outbound' \in Seq(Msg) /\ Len(outbound') = Len(outbound) - 1
        /\ m \in Msg /\ m.ver <= Len(log)
        /\ m.kind = "reply" => m.id \in RepliedIn(outbound)
        /\ RepliedIn(outbound') = RepliedIn(outbound) \ (IF m.kind = "reply" THEN {m.id} ELSE {})
        /\ RepliesOnce(outbound') /\ UpToNow(outbound')
    BY <1>0, <1>1, MessageTaken DEF QueuesTyped
  <1> HIDE DEF m
  <1> DEFINE M == IF m.kind = "reply" THEN {m.id} ELSE {}
  <1>3. RepliesOnce(outbound)' /\ RepliedIn(outbound)' = RepliedIn(outbound) \ M
    BY <1>2 DEF RepliesOnce, RepliedIn
  <1>4. UpToNow(outbound)' /\ Len(outbound') <= QueueCap
    BY <1>0, <1>1, <1>2, WsAssumption DEF UpToNow, QueuesTyped
  <1>5. m.kind = "reply" => m.id \notin RepliedIn(toClient)
    BY <1>0, <1>2 DEF OnePlace
  <1>6. /\ toClient' \in Seq(Msg) /\ RepliesOnce(toClient)' /\ UpToNow(toClient)'
        /\ RepliedIn(toClient)' = RepliedIn(toClient) \cup M
    BY <1>1, <1>2, <1>5, WiredAppend
  <1>7. M \subseteq RepliedIn(outbound)
    BY <1>2
  <1> HIDE DEF M
  <1>8. QueuesTyped'
    BY <1>0, <1>1, <1>2, <1>3, <1>4, <1>6, RequestsKept DEF QueuesTyped
  <1>9. ServerTyped' /\ lost' \subseteq Ids /\ missed' \subseteq Domains
    BY <1>0, <1>1 DEF ServerTyped
  <1>10. OnePlace'
    BY <1>0, <1>1, <1>3, <1>6, <1>7, RequestsKept, RepliesKept DEF OnePlace
  <1>11. Waits' \cup lost' = Waits \cup lost
    BY <1>1, <1>3, <1>6, <1>7, RequestsKept, RepliesKept DEF Waits
  <1>12. QED
    BY <1>1, <1>8, <1>9, <1>10, <1>11, ServerMoves

LEMMA PushKeeps == BridgeInv /\ Push => BridgeInv'
  <1> SUFFICES ASSUME BridgeInv, Push PROVE BridgeInv'
    OBVIOUS
  <1>0. QueuesTyped /\ OnePlace /\ ServerTyped /\ Len(log) \in Nat /\ lost \subseteq Ids /\ missed \subseteq Domains
        /\ log \in Seq(Domains) /\ handler \in [on : BOOLEAN, cursor : Nat]
    BY DEF BridgeInv, ServerTyped, ClientTyped
  <1>1. /\ wire /\ handler.cursor < Len(log)
        /\ UNCHANGED <<link, wire, log, toServer, queue, running, outbound, pending, lost, reload,
                       seen, missed, tries, cuts>>
    BY DEF Push, BridgeInv, NothingWithoutWire, ServerIdle
  <1>2. PICK D \in SUBSET Domains, at \in 0..Len(log) :
           toClient' = Append(toClient, Notice(D)) /\ handler' = [handler EXCEPT !.cursor = at]
    <2>1. CASE Len(log) - handler.cursor > RingCap
      <3>1. Len(log) - RingCap \in 0..Len(log)
        BY <1>0, <2>1, WsAssumption
      <3>2. QED
        BY <2>1, <3>1 DEF Push, AfterLag
    <2>2. CASE ~(Len(log) - handler.cursor > RingCap)
      <3>1. handler.cursor + 1 \in 1..Len(log)
        BY <1>0, <1>1
      <3>2. {log[handler.cursor + 1]} \subseteq Domains
        BY <1>0, <3>1
      <3>3. QED
        BY <2>2, <3>1, <3>2 DEF Push
    <2>3. QED
      BY <2>1, <2>2
  <1>3. Notice(D) \in Msg /\ Notice(D).kind = "event" /\ Notice(D).ver <= Len(log)
    BY <1>0, MessagesTyped
  <1>4. /\ toClient' \in Seq(Msg) /\ RepliesOnce(toClient)' /\ UpToNow(toClient)'
        /\ RepliedIn(toClient)' = RepliedIn(toClient)
    BY <1>1, <1>2, <1>3, WiredAppend
  <1>5. QueuesTyped'
    BY <1>0, <1>1, <1>4, RequestsKept, RepliesKept DEF QueuesTyped
  <1>6. ServerTyped' /\ lost' \subseteq Ids /\ missed' \subseteq Domains
    BY <1>0, <1>1, <1>2 DEF ServerTyped
  <1>7. OnePlace'
    BY <1>0, <1>1, <1>4, RequestsKept, RepliesKept DEF OnePlace
  <1>8. Waits' \cup lost' = Waits \cup lost
    BY <1>1, <1>4, RequestsKept, RepliesKept DEF Waits
  <1>9. QED
    BY <1>1, <1>5, <1>6, <1>7, <1>8, ServerMoves

LEMMA BridgeStep == BridgeInv /\ [WsNext]_wsVars => BridgeInv'
  <1> SUFFICES ASSUME BridgeInv, [WsNext]_wsVars PROVE BridgeInv'
    OBVIOUS
  <1>1. CASE UNCHANGED wsVars
    <2>1. /\ UNCHANGED <<link, wire, log, handler, pending, lost, reload, seen, missed, tries, cuts>>
          /\ UNCHANGED <<toServer, queue, running, outbound, toClient>>
      BY <1>1 DEF wsVars
    <2>2. QueuesTyped' /\ Waits' = Waits /\ OnePlace'
      BY <2>1, QueuesUntouched
    <2>3. NothingWithoutWire' /\ Waited' /\ ClientTyped' /\ ServerTyped'
      BY <2>1, <2>2 DEF BridgeInv, ClientTyped, ServerTyped, NothingWithoutWire, Waited,
                        ServerIdle, NoReply, Message
    <2>4. QED
      BY <2>2, <2>3 DEF BridgeInv
  <1>2. QED
    BY <1>1, ClientKeeps, EmitKeeps, SendKeeps, OnMessageKeeps, ReadKeeps, ExecuteKeeps,
       RespondKeeps, ForwardKeeps, PushKeeps DEF WsNext

\* Types, whatever the sizes; no queue holds more than its capacity and no
\* reader is ahead of the log.
THEOREM BridgeTypeCorrect == WsSpec => []WsTypeOK
  <1>1. QED
    BY BridgeInit, BridgeStep, BridgeImplies, PTL DEF WsSpec

\* No request is lost from sight: while connected, what the client waits for is
\* exactly what is under way or was answered without its id.
THEOREM EveryRequestAccounted == WsSpec => []RequestsAccounted
  <1>1. QED
    BY BridgeInit, BridgeStep, BridgeImplies, PTL DEF WsSpec

-----------------------------------------------------------------------------
(* A change the client has not read is on its way.                         *)

LEMMA RangeGrows ==
  ASSUME NEW S, NEW q \in Seq(S), NEW e \in S
  PROVE  Range(Append(q, e)) = Range(q) \cup {e}
  <1> DEFINE a == Append(q, e)
  <1>1. /\ a \in Seq(S) /\ Len(a) = Len(q) + 1 /\ Len(q) \in Nat
        /\ a[Len(q) + 1] = e /\ \A k \in 1..Len(q) : a[k] = q[k]
    OBVIOUS
  <1> HIDE DEF a
  <1>2. Range(q) = {q[k] : k \in 1..Len(q)} /\ Range(a) = {a[k] : k \in 1..Len(a)}
    BY <1>1 DEF Range
  <1>3. ASSUME NEW x PROVE x \in Range(a) <=> x \in Range(q) \/ x = e
    <2>1. x \in Range(a) <=> \E k \in 1..Len(a) : x = a[k]
      BY <1>2
    <2>2. x \in Range(q) <=> \E k \in 1..Len(q) : x = q[k]
      BY <1>2
    <2>3. QED
      BY <1>1, <2>1, <2>2
  <1>4. QED
    BY <1>3 DEF a

LEMMA RangeSplits ==
  ASSUME NEW S, NEW q \in Seq(S), q # <<>>
  PROVE  Range(q) = {Head(q)} \cup Range(Tail(q))
  <1> DEFINE a == Tail(q)
  <1>1. /\ a \in Seq(S) /\ Len(a) = Len(q) - 1 /\ Len(q) \in Nat \ {0}
        /\ Head(q) = q[1] /\ \A k \in 1..Len(q) - 1 : a[k] = q[k + 1]
    OBVIOUS
  <1> HIDE DEF a
  <1>2. Range(q) = {q[k] : k \in 1..Len(q)} /\ Range(a) = {a[k] : k \in 1..Len(a)}
    BY <1>1 DEF Range
  <1>3. ASSUME NEW x PROVE x \in Range(q) <=> x \in Range(a) \/ x = q[1]
    <2>1. x \in Range(a) <=> \E k \in 1..Len(q) - 1 : x = q[k + 1]
      <3>1. x \in Range(a) <=> \E k \in 1..Len(a) : x = a[k]
        BY <1>2
      <3>2. QED
        BY <1>1, <3>1
    <2>2. x \in Range(q) <=> \E k \in 1..Len(q) : x = q[k]
      BY <1>2
    <2>3. \A k \in 1..Len(q) : k # 1 => k - 1 \in 1..Len(q) - 1 /\ (k - 1) + 1 = k
      BY <1>1
    <2>4. \A k \in 1..Len(q) - 1 : k + 1 \in 1..Len(q)
      BY <1>1
    <2>5. 1 \in 1..Len(q)
      BY <1>1
    <2>6. QED
      BY <2>1, <2>2, <2>3, <2>4, <2>5
  <1>4. QED
    BY <1>1, <1>3 DEF a

\* How the domain of the nth change reaches the client.
Asked(d) == \E i \in Unread : Asks[i] = d
Told(d) == d \in reload \/ \E m \in Range(toClient) : m.kind = "event" /\ d \in m.of
Answered(d, n) == \E m \in Replies : Asks[m.id] = d /\ m.ver >= n
OnTheWay(d, n) ==
    \/ seen[d] >= n
    \/ Told(d) \/ d \in missed
    \/ handler.on /\ handler.cursor < n
    \/ Asked(d)
    \/ Answered(d, n)

\* Before the server subscribes, everything is still to be asked or to be read.
AskedBeforeSubscribed ==
    wire /\ ~handler.on => \A d \in Domains :
        d \in reload \/ \E i \in Range(toServer) : Asks[i] = d

AllOnTheWay ==
    /\ AskedBeforeSubscribed
    /\ wire => \A n \in 1..Len(log) : OnTheWay(log[n], n)

LEMMA WayImplies == BridgeInv /\ AllOnTheWay => ChangesOnTheWay
  BY DEF AllOnTheWay, OnTheWay, Told, Asked, Answered, ChangesOnTheWay

LEMMA WayInit == WsInit => AllOnTheWay
  BY DEF WsInit, Resting, AllOnTheWay, AskedBeforeSubscribed

\* Changes that are on their way stay so, and there are no new ones.
LEMMA WayKept ==
  ASSUME AllOnTheWay, wire, UNCHANGED log, AskedBeforeSubscribed',
         \A d \in Domains, n \in 1..Len(log) : OnTheWay(d, n) => OnTheWay(d, n)',
         log \in Seq(Domains)
  PROVE  AllOnTheWay'
  <1>1. \A n \in 1..Len(log) : log[n] \in Domains
    OBVIOUS
  <1>2. QED
    BY <1>1 DEF AllOnTheWay

LEMMA ServerWay ==
  ASSUME BridgeInv, AllOnTheWay, ReadCommand \/ Execute \/ Respond \/ Forward \/ Push
  PROVE  AllOnTheWay'
  <1>0. /\ QueuesTyped /\ log \in Seq(Domains) /\ Len(log) \in Nat
        /\ handler \in [on : BOOLEAN, cursor : Nat]
    BY DEF BridgeInv, ServerTyped
  <1>1. wire /\ UNCHANGED <<log, wire, reload, seen>> /\ handler'.on = handler.on /\ missed \subseteq missed'
    BY <1>0 DEF ReadCommand, Execute, Respond, Forward, Push, BridgeInv, NothingWithoutWire, ServerIdle
  <1>2. AskedBeforeSubscribed'
    <2>1. handler.on => handler'.on
      BY <1>1
    <2>2. ~handler.on => toServer' = toServer
      BY DEF ReadCommand, Execute, Respond, Forward, Push
    <2>3. QED
      BY <1>1, <2>1, <2>2 DEF AllOnTheWay, AskedBeforeSubscribed
  <1>3. CASE ReadCommand
    <2> DEFINE i == Head(toServer)
    <2>1. /\ toServer # <<>> /\ toServer' = Tail(toServer)
          /\ UNCHANGED <<handler, running, outbound>>
          /\ \/ queue' = Append(queue, i) /\ UNCHANGED <<toClient, lost>>
             \/ /\ toClient' = Append(toClient, NoIdError) /\ Asks[i] \in missed'
                /\ UNCHANGED queue
      BY <1>3 DEF ReadCommand
    <2>2. Range(toServer) = {i} \cup Range(toServer') /\ i \in Ids
      BY <1>0, <2>1, RangeSplits DEF QueuesTyped
    <2> HIDE DEF i
    <2>3. CASE queue' = Append(queue, i) /\ UNCHANGED <<toClient, lost>>
      <3>1. Range(queue') = Range(queue) \cup {i}
        BY <1>0, <2>2, <2>3, RangeGrows DEF QueuesTyped
      <3>2. Unread' = Unread /\ Replies' = Replies
        BY <2>1, <2>2, <2>3, <3>1 DEF Unread, Replies
      <3>3. \A d, n : OnTheWay(d, n) => OnTheWay(d, n)'
        BY <1>1, <2>1, <2>3, <3>2 DEF OnTheWay, Told, Asked, Answered
      <3>4. QED
        BY <1>0, <1>1, <1>2, <3>3, WayKept
    <2>4. CASE toClient' = Append(toClient, NoIdError) /\ Asks[i] \in missed' /\ UNCHANGED queue
      <3>1. Range(toClient') = Range(toClient) \cup {NoIdError}
        BY <1>0, <2>4, MessagesTyped, RangeGrows DEF QueuesTyped
      <3>2. Unread \subseteq Unread' \cup {i} /\ Replies \subseteq Replies'
        BY <2>1, <2>2, <2>4, <3>1 DEF Unread, Replies
      <3>3. \A d, n : OnTheWay(d, n) => OnTheWay(d, n)'
        BY <1>1, <2>1, <2>4, <3>1, <3>2 DEF OnTheWay, Told, Asked, Answered
      <3>4. QED
        BY <1>0, <1>1, <1>2, <3>3, WayKept
    <2>5. QED
      BY <2>1, <2>3, <2>4
  <1>4. CASE Execute
    <2> DEFINE i == Head(queue)
    <2>1. /\ queue # <<>> /\ queue' = Tail(queue) /\ running = NoReply
          /\ UNCHANGED <<handler, toServer, outbound, toClient>>
          /\ running' = Reply(i) \/ Asks[i] \in missed'
      BY <1>4 DEF Execute
    <2>2. Range(queue) = {i} \cup Range(queue') /\ i \in Ids
      BY <1>0, <2>1, RangeSplits DEF QueuesTyped
    <2> HIDE DEF i
    <2>3. Replies \subseteq Replies'
      BY <2>1, MessagesTyped DEF Replies
    <2>4. CASE running' = Reply(i)
      <3>1. Reply(i) \in Replies' /\ Reply(i).id = i /\ Reply(i).ver = Len(log)
        BY <1>0, <2>2, <2>4, MessagesTyped DEF Replies
      <3>2. ASSUME NEW d \in Domains, NEW n \in 1..Len(log), OnTheWay(d, n)
            PROVE  OnTheWay(d, n)'
        <4>1. CASE Asked(d)
          <5>1. Asks[i] = d => Answered(d, n)'
            BY <1>0, <3>1 DEF Answered
          <5>2. Asks[i] # d => Asked(d)'
            BY <2>1, <2>2, <2>4, <4>1 DEF Asked, Unread
          <5>3. QED
            BY <5>1, <5>2 DEF OnTheWay
        <4>2. CASE ~Asked(d)
          BY <1>1, <2>1, <2>3, <3>2, <4>2 DEF OnTheWay, Told, Answered
        <4>3. QED
          BY <4>1, <4>2
      <3>3. QED
        BY <1>0, <1>1, <1>2, <3>2, WayKept
    <2>5. CASE Asks[i] \in missed'
      <3>1. Unread \subseteq Unread' \cup {i}
        BY <2>1, <2>2 DEF Unread
      <3>2. \A d, n : OnTheWay(d, n) => OnTheWay(d, n)'
        BY <1>1, <2>1, <2>3, <2>5, <3>1 DEF OnTheWay, Told, Asked, Answered
      <3>3. QED
        BY <1>0, <1>1, <1>2, <3>2, WayKept
    <2>6. QED
      BY <2>1, <2>4, <2>5
  <1>5. CASE Respond \/ Forward
    <2>1. UNCHANGED <<handler, toServer, queue>>
      BY <1>5 DEF Respond, Forward
    <2>2. Replies \subseteq Replies' /\ Range(toClient) \subseteq Range(toClient')
      <3>1. CASE Respond
        <4>1. outbound' = Append(outbound, running) /\ UNCHANGED toClient
          BY <3>1 DEF Respond
        <4>2. Range(outbound') = Range(outbound) \cup {running}
          BY <1>0, <4>1, RangeGrows DEF QueuesTyped
        <4>3. QED
          BY <4>1, <4>2 DEF Replies
      <3>2. CASE Forward
        <4>1. /\ outbound # <<>> /\ outbound' = Tail(outbound) /\ UNCHANGED running
              /\ toClient' = Append(toClient, Head(outbound)) /\ Head(outbound) \in Msg
          BY <1>0, <3>2 DEF Forward, QueuesTyped
        <4>2. /\ Range(outbound) = {Head(outbound)} \cup Range(outbound')
              /\ Range(toClient') = Range(toClient) \cup {Head(outbound)}
          BY <1>0, <4>1, RangeGrows, RangeSplits DEF QueuesTyped
        <4>3. QED
          BY <4>1, <4>2 DEF Replies
      <3>3. QED
        BY <1>5, <3>1, <3>2
    <2>3. \A d, n : OnTheWay(d, n) => OnTheWay(d, n)'
      BY <1>1, <2>1, <2>2 DEF OnTheWay, Told, Asked, Answered, Unread
    <2>4. QED
      BY <1>0, <1>1, <1>2, <2>3, WayKept
  <1>6. CASE Push
    <2>1. handler.on /\ handler'.on /\ UNCHANGED <<toServer, queue, running, outbound>>
      BY <1>1, <1>6 DEF Push
    <2>2. PICK D \in SUBSET Domains : toClient' = Append(toClient, Notice(D))
      <3>1. CASE Len(log) - handler.cursor > RingCap
        BY <1>6, <3>1 DEF Push, AfterLag
      <3>2. CASE ~(Len(log) - handler.cursor > RingCap)
        <4>1. handler.cursor + 1 \in 1..Len(log)
          BY <1>0, <1>6 DEF Push
        <4>2. {log[handler.cursor + 1]} \subseteq Domains
          BY <1>0, <4>1
        <4>3. QED
          BY <1>6, <3>2, <4>2 DEF Push
      <3>3. QED
        BY <3>1, <3>2
    <2>m. toClient \in Seq(Msg) /\ \A d \in SUBSET Domains : Notice(d) \in Msg
      BY <1>0, MessagesTyped DEF QueuesTyped
    <2>3. Range(toClient') = Range(toClient) \cup {Notice(D)}
      BY <2>2, <2>m, RangeGrows
    <2>4. Replies \subseteq Replies'
      BY <2>1, <2>3 DEF Replies
    <2>5. ASSUME NEW n \in 1..Len(log), handler.cursor < n, ~(handler'.cursor < n)
          PROVE  Told(log[n])'
      <3>0. log[n] \in Domains
        BY <1>0
      <3>1. CASE Len(log) - handler.cursor > RingCap
        <4>1. toClient' = Append(toClient, Notice(Domains))
          BY <1>6, <3>1 DEF Push, AfterLag
        <4>2. Notice(Domains) \in Range(toClient')
          BY <2>m, <4>1, RangeGrows
        <4>3. QED
          BY <1>1, <3>0, <4>2, MessagesTyped DEF Told
      <3>2. CASE ~(Len(log) - handler.cursor > RingCap)
        <4>1. /\ toClient' = Append(toClient, Notice({log[handler.cursor + 1]}))
              /\ handler'.cursor = handler.cursor + 1
          BY <1>0, <1>6, <3>2 DEF Push
        <4>2. n = handler.cursor + 1
          BY <1>0, <2>5, <4>1
        <4>3. Notice({log[n]}) \in Range(toClient')
          <5>1. {log[n]} \in SUBSET Domains
            BY <3>0
          <5>2. Notice({log[n]}) \in Msg
            BY <2>m, <5>1
          <5>3. QED
            BY <2>m, <4>1, <4>2, <5>2, RangeGrows
        <4>4. Notice({log[n]}).kind = "event" /\ log[n] \in Notice({log[n]}).of
          BY <3>0, MessagesTyped
        <4>5. QED
          BY <1>1, <4>3, <4>4 DEF Told
      <3>3. QED
        BY <3>1, <3>2
    <2>6. ASSUME NEW n \in 1..Len(log), OnTheWay(log[n], n) PROVE OnTheWay(log[n], n)'
      <3>1. CASE handler.cursor < n
        BY <1>1, <2>1, <2>5, <3>1 DEF OnTheWay
      <3>2. CASE ~(handler.cursor < n)
        BY <1>1, <2>1, <2>3, <2>4, <2>6, <3>2 DEF OnTheWay, Told, Asked, Answered, Unread
      <3>3. QED
        BY <3>1, <3>2
    <2>7. QED
      BY <1>1, <1>2, <2>6 DEF AllOnTheWay
  <1>7. QED
    BY <1>3, <1>4, <1>5, <1>6

LEMMA ClientWay ==
  ASSUME BridgeInv, AllOnTheWay,
         \/ Connect \/ AttemptFails \/ SendThrows \/ OnDone \/ Dispose \/ Cut \/ Subscribe
  PROVE  AllOnTheWay'
  <1>0. link # "up" => ~wire
    BY DEF BridgeInv, ClientTyped
  <1>1. CASE Connect
    BY <1>1 DEF Connect, Announced, AllOnTheWay, AskedBeforeSubscribed, OnTheWay, Told,
                BridgeInv, ServerTyped
  <1>2. CASE AttemptFails \/ SendThrows \/ OnDone
    <2>1. ~wire' /\ ~wire
      BY <1>0, <1>2 DEF AttemptFails, SendThrows, OnDone
    <2>2. QED
      BY <2>1 DEF AllOnTheWay, AskedBeforeSubscribed
  <1>3. CASE Dispose \/ Cut
    <2>1. ~wire'
      BY <1>3 DEF Dispose, Cut
    <2>2. QED
      BY <2>1 DEF AllOnTheWay, AskedBeforeSubscribed
  <1>4. CASE Subscribe
    <2>1. /\ wire /\ ~handler.on /\ handler'.on
          /\ UNCHANGED <<wire, log, toServer, queue, reload, missed>>
      BY <1>4 DEF Subscribe
    <2>2. \A d \in Domains : Told(d)' \/ Asked(d)'
      BY <2>1 DEF AllOnTheWay, AskedBeforeSubscribed, Told, Asked, Unread
    <2>3. \A n \in 1..Len(log) : log[n] \in Domains
      BY DEF BridgeInv, ServerTyped
    <2>4. QED
      BY <2>1, <2>2, <2>3 DEF AllOnTheWay, AskedBeforeSubscribed, OnTheWay
  <1>5. QED
    BY <1>1, <1>2, <1>3, <1>4

\* A new change is behind the reader, or its domain is still to be asked.
LEMMA EmitWay == BridgeInv /\ AllOnTheWay /\ Emit => AllOnTheWay'
  <1> SUFFICES ASSUME BridgeInv, AllOnTheWay, Emit PROVE AllOnTheWay'
    OBVIOUS
  <1>0. log \in Seq(Domains) /\ Len(log) \in Nat /\ handler.cursor \in Nat /\ handler.cursor <= Len(log)
    BY DEF BridgeInv, ServerTyped
  <1>1. PICK e \in Domains : log' = Append(log, e)
    BY DEF Emit
  <1>2. /\ Len(log') = Len(log) + 1 /\ log'[Len(log) + 1] = e
        /\ \A n \in 1..Len(log) : log'[n] = log[n]
    BY <1>0, <1>1
  <1>3. UNCHANGED <<wire, handler, toServer, queue, running, outbound, toClient, missed, reload, seen>>
    BY DEF Emit
  <1>4. AskedBeforeSubscribed'
    BY <1>3 DEF AllOnTheWay, AskedBeforeSubscribed
  <1>5. \A d, n : OnTheWay(d, n) => OnTheWay(d, n)'
    BY <1>3 DEF OnTheWay, Told, Asked, Answered, Unread, Replies
  <1>6. ASSUME wire, NEW n, n = Len(log) + 1 PROVE OnTheWay(e, n)'
    <2>1. CASE handler.on
      BY <1>0, <1>3, <1>6, <2>1 DEF OnTheWay
    <2>2. CASE ~handler.on
      BY <1>3, <1>6, <2>2 DEF OnTheWay, AllOnTheWay, AskedBeforeSubscribed, Told, Asked, Unread
    <2>3. QED
      BY <2>1, <2>2
  <1>7. ASSUME wire, NEW n \in 1..Len(log'), NEW d, d = log'[n] PROVE OnTheWay(d, n)'
    <2>1. CASE n \in 1..Len(log)
      BY <1>2, <1>5, <1>7, <2>1 DEF AllOnTheWay
    <2>2. CASE n = Len(log) + 1
      BY <1>2, <1>6, <1>7, <2>2
    <2>3. QED
      BY <1>0, <1>2, <2>1, <2>2
  <1>8. wire' => \A n \in 1..Len(log') : \A d : d = log'[n] => OnTheWay(d, n)'
    BY <1>3, <1>7
  <1>9. QED
    BY <1>4, <1>8 DEF AllOnTheWay, OnTheWay

LEMMA SendWay ==
  ASSUME BridgeInv, AllOnTheWay, NEW i \in Ids, Send(i)
  PROVE  AllOnTheWay'
  <1>0. toServer \in Seq(Ids) /\ log \in Seq(Domains)
    BY DEF BridgeInv, QueuesTyped, ServerTyped
  <1>1. /\ reload' = reload \ {Asks[i]}
        /\ UNCHANGED <<wire, log, handler, queue, running, outbound, toClient, missed, seen>>
    BY DEF Send
  <1>2. CASE wire
    <2>1. Range(toServer') = Range(toServer) \cup {i}
      BY <1>0, <1>2, RangeGrows DEF Send
    <2>2. AskedBeforeSubscribed'
      BY <1>1, <2>1 DEF AllOnTheWay, AskedBeforeSubscribed
    <2>3. \A d, n : OnTheWay(d, n) => OnTheWay(d, n)'
      BY <1>1, <2>1 DEF OnTheWay, Told, Asked, Answered, Unread, Replies
    <2>4. QED
      BY <1>0, <1>1, <1>2, <2>2, <2>3, WayKept
  <1>3. CASE ~wire
    BY <1>1, <1>3 DEF AllOnTheWay, AskedBeforeSubscribed
  <1>4. QED
    BY <1>2, <1>3

LEMMA OnMessageWay == BridgeInv /\ AllOnTheWay /\ OnMessage => AllOnTheWay'
  <1> SUFFICES ASSUME BridgeInv, AllOnTheWay, OnMessage PROVE AllOnTheWay'
    OBVIOUS
  <1> DEFINE m == Head(toClient)
  <1>0. /\ toClient \in Seq(Msg) /\ toClient # <<>> /\ log \in Seq(Domains) /\ wire
        /\ seen \in [Domains -> Nat]
    BY DEF OnMessage, BridgeInv, QueuesTyped, ServerTyped, ClientTyped, NothingWithoutWire
  <1>1. /\ Range(toClient) = {m} \cup Range(toClient') /\ m \in Msg
        /\ UNCHANGED <<wire, log, handler, toServer, queue, running, outbound>>
    BY <1>0, RangeSplits DEF OnMessage
  <1>2. m.ver \in Nat /\ (m.kind = "reply" => m.id \in Ids)
    BY <1>1 DEF Msg
  <1>3. /\ reload \subseteq reload' /\ (m.kind = "event" => m.of \subseteq reload')
        /\ missed \subseteq missed' \cup reload'
        /\ \A d \in Domains : seen'[d] \in Nat /\ seen'[d] >= seen[d]
        /\ m.kind = "reply" => seen'[Asks[m.id]] >= m.ver
    <2>1. \A x, y \in Nat : Max({x, y}) \in Nat /\ Max({x, y}) >= x /\ Max({x, y}) >= y
      BY DEF Max
    <2>2. CASE m.kind = "reply"
      <3>1. Asks[m.id] \in Domains
        BY <1>2, <2>2, WsAssumption
      <3>2. /\ seen' = [seen EXCEPT ![Asks[m.id]] = Max({@, m.ver})] /\ UNCHANGED <<reload, missed>>
        BY <2>2 DEF OnMessage
      <3>3. /\ seen[Asks[m.id]] \in Nat
            /\ seen' = [seen EXCEPT ![Asks[m.id]] = Max({seen[Asks[m.id]], m.ver})]
        BY <1>0, <3>1, <3>2
      <3> DEFINE x == Max({seen[Asks[m.id]], m.ver})
      <3>4. x \in Nat /\ x >= seen[Asks[m.id]] /\ x >= m.ver
        BY <1>2, <2>1, <3>3
      <3> HIDE DEF x
      <3>5. \A d \in Domains : seen'[d] = IF d = Asks[m.id] THEN x ELSE seen[d]
        BY <1>0, <3>3 DEF x
      <3>6. UNCHANGED <<reload, missed>> /\ m.kind # "event"
        BY <2>2, <3>2
      <3>7. ASSUME NEW d \in Domains PROVE seen'[d] \in Nat /\ seen'[d] >= seen[d]
        <4>1. seen[d] \in Nat
          BY <1>0
        <4>2. QED
          BY <3>4, <3>5, <4>1
      <3>8. seen'[Asks[m.id]] >= m.ver
        BY <3>1, <3>4, <3>5
      <3>9. QED
        BY <3>6, <3>7, <3>8
    <2>3. CASE m.kind # "reply"
      BY <1>0, <2>3 DEF OnMessage
    <2>4. QED
      BY <2>2, <2>3
  <1> HIDE DEF m
  <1>4. AskedBeforeSubscribed'
    BY <1>1, <1>3 DEF AllOnTheWay, AskedBeforeSubscribed
  <1>5. ASSUME NEW d \in Domains, NEW n \in 1..Len(log), OnTheWay(d, n)
        PROVE  OnTheWay(d, n)'
    <2>0. seen[d] \in Nat /\ n \in Nat
      BY <1>0
    <2>1. CASE seen[d] >= n
      BY <1>3, <2>0, <2>1 DEF OnTheWay
    <2>2. CASE Told(d) \/ d \in missed
      BY <1>1, <1>3, <2>2 DEF OnTheWay, Told
    <2>3. CASE (handler.on /\ handler.cursor < n) \/ Asked(d)
      BY <1>1, <2>3 DEF OnTheWay, Asked, Unread
    <2>4. CASE Answered(d, n)
      <3>1. PICK r \in Replies : Asks[r.id] = d /\ r.ver >= n
        BY <2>4 DEF Answered
      <3>2. CASE r \in Replies'
        BY <3>1, <3>2 DEF OnTheWay, Answered
      <3>3. CASE r = m /\ m.kind = "reply"
        BY <1>2, <1>3, <2>0, <3>1, <3>3 DEF OnTheWay
      <3>4. r \in Replies' \/ (r = m /\ m.kind = "reply")
        BY <1>1 DEF Replies
      <3>5. QED
        BY <3>2, <3>3, <3>4
    <2>5. QED
      BY <1>5, <2>1, <2>2, <2>3, <2>4 DEF OnTheWay
  <1>6. QED
    BY <1>0, <1>1, <1>4, <1>5, WayKept

LEMMA WayStep == BridgeInv /\ AllOnTheWay /\ [WsNext]_wsVars => AllOnTheWay'
  <1> SUFFICES ASSUME BridgeInv, AllOnTheWay, [WsNext]_wsVars PROVE AllOnTheWay'
    OBVIOUS
  <1>1. CASE UNCHANGED wsVars
    BY <1>1 DEF wsVars, AllOnTheWay, AskedBeforeSubscribed, OnTheWay, Told, Asked, Answered,
                Unread, Replies
  <1>2. QED
    BY <1>1, ClientWay, EmitWay, SendWay, OnMessageWay, ServerWay DEF WsNext

\* While connected no change is forgotten: not by a lag, a late subscription or
\* a reply that was computed too early.  The one way to miss it is a read of its
\* domain that failed or was refused and that no notice has repeated.
THEOREM NoChangeMissed == WsSpec => []ChangesOnTheWay
  <1>1. QED
    BY BridgeInit, BridgeStep, WayInit, WayStep, WayImplies, PTL DEF WsSpec

=============================================================================
