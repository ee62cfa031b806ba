------------------------------ MODULE HubProofs ------------------------------
(***************************************************************************)
(* The hub never sends on a closed channel and never closes one twice, for *)
(* any number of broadcasters, streams and buffered messages.              *)
(*                                                                         *)
(* The argument is the one in the comment on Broadcast: whoever closes a   *)
(* channel holds the write lock, and whoever sends has held the read lock  *)
(* since it chose its targets, so a target is still in the map.            *)
(***************************************************************************)
EXTENDS Hub, TLAPS

\* Only clients in the map are sent to, and only under the read lock.
TargetsRegistered ==
  \A b \in Broadcasters :
    /\ bcast[b].todo \subseteq clients
    /\ bcast[b].todo # {} => bcast[b].pc = "sending"

\* A client in the map has an open channel; a stream that has not subscribed yet
\* has never had one.
MapIsOpen ==
  /\ clients \cap closed = {}
  /\ \A c \in Conns : stream[c] \in {"off", "joining"} => c \notin closed

HubInv == TypeOK /\ NoPanic /\ SlotsReturned /\ TargetsRegistered /\ MapIsOpen

LEMMA InitHub == Init => HubInv
<1> SUFFICES ASSUME Init PROVE HubInv
  OBVIOUS
<1> USE DEF Init
<1>1. Quiet \in Broadcast
  BY HubAssumption DEF Quiet, Broadcast, Message
<1>2. TypeOK
  <2>1. <<>> \in Seq(Message) /\ Len(<<>>) = 0
    OBVIOUS
  <2>2. 0 <= Buffer /\ 0 \in 0..MaxRevisions /\ 0 \in 0..MaxEvents
    BY HubAssumption
  <2>3. chan \in [Conns -> Seq(Message)] /\ \A c \in Conns : Len(chan[c]) <= Buffer
    BY <2>1, <2>2
  <2> QED BY <1>1, <2>2, <2>3 DEF TypeOK
<1>3. NoPanic /\ SlotsReturned
  BY DEF NoPanic, SlotsReturned
<1>4. TargetsRegistered
  BY DEF TargetsRegistered, Quiet
<1>5. MapIsOpen
  BY DEF MapIsOpen
<1> QED BY <1>2, <1>3, <1>4, <1>5 DEF HubInv

\* While nobody reads, nobody has targets left.
LEMMA NoTargets ==
  ASSUME TypeOK, TargetsRegistered, WriteLock
  PROVE  \A b \in Broadcasters : bcast[b].todo = {}
  BY DEF TargetsRegistered, WriteLock, Readers

\* unsubscribe closes a channel at most once, and takes its client out.
LEMMA UnregisterOnce ==
  ASSUME HubInv, NEW c \in Conns, Unregister(c)
  PROVE  /\ clients' = clients \ {c}
         /\ closed' = IF c \in clients THEN closed \cup {c} ELSE closed
         /\ panicked' = panicked
<1> USE DEF HubInv, TypeOK, MapIsOpen, NoPanic
<1>1. CASE c \in clients
  BY <1>1 DEF Unregister
<1>2. CASE c \notin clients
  BY <1>2 DEF Unregister, clientVars
<1> QED BY <1>1, <1>2

\* A broadcaster's steps keep the invariant.
LEMMA BroadcasterStep ==
  ASSUME HubInv, NEW b \in Broadcasters,
         NotifyPlaylist(b) \/ NotifyOther(b) \/ Broadcasting(b)
  PROVE  HubInv'
<1> USE DEF HubInv
<1>0. bcast[b] \in Broadcast
  BY DEF TypeOK
<1>1. CASE NotifyPlaylist(b)
  <2>1. [rev |-> revision + 1, to |-> "all"] \in Message /\ revision + 1 \in 0..MaxRevisions
    BY <1>1, HubAssumption DEF NotifyPlaylist, Message, TypeOK
  <2>2. bcast' \in [Broadcasters -> Broadcast]
    BY <1>1, <2>1 DEF NotifyPlaylist, Start, TypeOK, Broadcast, Quiet
  <2>3. TypeOK'
    BY <1>1, <2>1, <2>2 DEF NotifyPlaylist, TypeOK, clientVars
  <2>4. TargetsRegistered'
    BY <1>1 DEF NotifyPlaylist, Start, TargetsRegistered, TypeOK, Quiet, clientVars
  <2> QED BY <1>1, <2>3, <2>4 DEF NotifyPlaylist, NoPanic, SlotsReturned, MapIsOpen, clientVars
<1>2. CASE NotifyOther(b)
  <2>1. PICK to \in {"all", "admin"} : Start(b, [rev |-> 0, to |-> to])
    BY <1>2 DEF NotifyOther
  <2>2. [rev |-> 0, to |-> to] \in Message /\ events' \in 0..MaxEvents
    BY <1>2, HubAssumption DEF NotifyOther, Message, TypeOK
  <2>3. bcast' \in [Broadcasters -> Broadcast]
    BY <2>1, <2>2 DEF Start, TypeOK, Broadcast, Quiet
  <2>4. TypeOK'
    BY <1>2, <2>2, <2>3 DEF NotifyOther, TypeOK, clientVars
  <2>5. TargetsRegistered'
    BY <1>2, <2>1 DEF NotifyOther, Start, TargetsRegistered, TypeOK, Quiet, clientVars
  <2> QED BY <1>2, <2>4, <2>5 DEF NotifyOther, NoPanic, SlotsReturned, MapIsOpen, clientVars
<1>3. CASE SelectClients(b)
  <2>1. bcast' \in [Broadcasters -> Broadcast]
    BY <1>0, <1>3 DEF SelectClients, TypeOK, Broadcast
  <2>2. TypeOK'
    BY <1>3, <2>1 DEF SelectClients, TypeOK, clientVars
  <2>3. TargetsRegistered'
    BY <1>0, <1>3 DEF SelectClients, TargetsRegistered, TypeOK, clientVars
  <2> QED BY <1>3, <2>2, <2>3 DEF SelectClients, NoPanic, SlotsReturned, MapIsOpen, clientVars
<1>4. ASSUME NEW c \in Conns, Send(b, c) PROVE HubInv'
  <2>1. c \in clients /\ c \notin closed /\ bcast[b].pc = "sending"
    BY <1>4 DEF Send, TargetsRegistered, MapIsOpen
  <2>2. NoPanic'
    BY <1>4, <2>1 DEF Send, NoPanic
  <2>3. chan' \in [Conns -> Seq(Message)] /\ \A d \in Conns : Len(chan'[d]) <= Buffer
    <3>1. CASE Len(chan[c]) < Buffer
      <4>1. chan' = [chan EXCEPT ![c] = Append(@, bcast[b].msg)]
        BY <1>4, <3>1 DEF Send
      <4>2. Append(chan[c], bcast[b].msg) \in Seq(Message)
        BY <1>0 DEF TypeOK, Broadcast
      <4>3. Len(Append(chan[c], bcast[b].msg)) <= Buffer
        BY <1>0, <3>1, HubAssumption DEF TypeOK, Broadcast
      <4> QED BY <4>1, <4>2, <4>3 DEF TypeOK
    <3>2. CASE ~(Len(chan[c]) < Buffer)
      BY <1>4, <3>2 DEF Send, TypeOK
    <3> QED BY <3>1, <3>2
  <2>4. /\ bcast' \in [Broadcasters -> Broadcast]
        /\ \A d \in Broadcasters :
             bcast'[d].todo \subseteq bcast[d].todo /\ bcast'[d].pc = bcast[d].pc
    <3>1. CASE Len(chan[c]) < Buffer
      <4>1. bcast' = [bcast EXCEPT ![b].todo = @ \ {c}]
        BY <1>4, <3>1 DEF Send
      <4> QED BY <1>0, <4>1 DEF TypeOK, Broadcast
    <3>2. CASE ~(Len(chan[c]) < Buffer)
      <4>1. bcast' = [bcast EXCEPT ![b].todo = @ \ {c}, ![b].stalled = @ \cup {c}]
        BY <1>4, <3>2 DEF Send
      <4> DEFINE next == [bcast[b] EXCEPT !.todo = @ \ {c}, !.stalled = @ \cup {c}]
      <4>2. bcast' = [bcast EXCEPT ![b] = next]
        BY <1>0, <4>1 DEF TypeOK, Broadcast
      <4>3. next \in Broadcast /\ next.todo \subseteq bcast[b].todo /\ next.pc = bcast[b].pc
        BY <1>0 DEF Broadcast
      <4> QED BY <4>2, <4>3 DEF TypeOK
    <3> QED BY <3>1, <3>2
  <2>5. TypeOK'
    BY <1>4, <2>2, <2>3, <2>4 DEF Send, TypeOK, NoPanic
  <2>6. TargetsRegistered'
    BY <1>4, <2>4 DEF Send, TargetsRegistered
  <2> QED BY <1>4, <2>2, <2>5, <2>6 DEF Send, SlotsReturned, MapIsOpen
<1>5. CASE Release(b)
  <2>1. bcast' \in [Broadcasters -> Broadcast]
    BY <1>0, <1>5 DEF Release, TypeOK, Broadcast
  <2>2. TypeOK'
    BY <1>5, <2>1 DEF Release, TypeOK, clientVars
  <2>3. TargetsRegistered'
    BY <1>0, <1>5 DEF Release, TargetsRegistered, TypeOK, clientVars
  <2> QED BY <1>5, <2>2, <2>3 DEF Release, NoPanic, SlotsReturned, MapIsOpen, clientVars
<1>6. CASE Drop(b)
  <2>1. PICK c \in bcast[b].stalled :
          Unregister(c) /\ bcast' = [bcast EXCEPT ![b].stalled = @ \ {c}]
    BY <1>6 DEF Drop
  <2>2. c \in Conns
    BY <1>0, <2>1 DEF Broadcast
  <2>3. /\ clients' = clients \ {c}
        /\ closed' = IF c \in clients THEN closed \cup {c} ELSE closed
        /\ panicked' = panicked
    BY <2>1, <2>2, UnregisterOnce
  <2>4. bcast' \in [Broadcasters -> Broadcast]
    BY <1>0, <2>1 DEF TypeOK, Broadcast
  <2>5. TypeOK'
    BY <1>6, <2>2, <2>3, <2>4 DEF Drop, TypeOK
  <2>6. TargetsRegistered'
    BY <1>0, <1>6, <2>1, NoTargets DEF Drop, TargetsRegistered, TypeOK, Broadcast
  <2>7. NoPanic' /\ SlotsReturned' /\ MapIsOpen'
    BY <1>6, <2>2, <2>3 DEF Drop, NoPanic, SlotsReturned, MapIsOpen
  <2> QED BY <2>5, <2>6, <2>7
<1>7. CASE Finish(b)
  <2>1. Quiet \in Broadcast
    BY HubAssumption DEF Quiet, Broadcast, Message
  <2>2. TypeOK'
    BY <1>7, <2>1 DEF Finish, TypeOK, clientVars
  <2>3. TargetsRegistered'
    BY <1>7 DEF Finish, TargetsRegistered, TypeOK, Quiet, clientVars
  <2> QED BY <1>7, <2>2, <2>3 DEF Finish, NoPanic, SlotsReturned, MapIsOpen, clientVars
<1> QED BY <1>1, <1>2, <1>3, <1>4, <1>5, <1>6, <1>7 DEF Broadcasting

\* A stream's steps keep the invariant.
LEMMA StreamStep ==
  ASSUME HubInv, NEW c \in Conns, Streaming(c)
  PROVE  HubInv'
<1> USE DEF HubInv
<1>1. CASE Connect(c) \/ Refuse(c) \/ EndOfStream(c) \/ Disconnect(c)
  <2> USE DEF Connect, Refuse, EndOfStream, Disconnect, Go, clientVars
  <2>1. TypeOK'
    BY <1>1 DEF TypeOK
  <2>2. TargetsRegistered'
    BY <1>1 DEF TargetsRegistered
  <2>3. NoPanic' /\ SlotsReturned' /\ MapIsOpen'
    BY <1>1 DEF TypeOK, NoPanic, SlotsReturned, MapIsOpen
  <2> QED BY <2>1, <2>2, <2>3
<1>2. CASE Subscribe(c)
  <2> USE DEF Subscribe, Go
  <2>1. TypeOK'
    BY <1>2 DEF TypeOK
  <2>2. TargetsRegistered'
    BY <1>2 DEF TargetsRegistered
  <2>3. NoPanic' /\ SlotsReturned' /\ MapIsOpen'
    BY <1>2 DEF TypeOK, NoPanic, SlotsReturned, MapIsOpen
  <2> QED BY <2>1, <2>2, <2>3
<1>3. CASE Hello(c)
  <2> USE DEF Hello, Go, clientVars
  <2>1. TypeOK'
    BY <1>3 DEF TypeOK
  <2>2. TargetsRegistered'
    BY <1>3 DEF TargetsRegistered
  <2>3. NoPanic' /\ SlotsReturned' /\ MapIsOpen'
    BY <1>3 DEF TypeOK, NoPanic, SlotsReturned, MapIsOpen
  <2> QED BY <2>1, <2>2, <2>3
<1>4. CASE Receive(c)
  <2> USE DEF Receive, Go, clientVars
  <2>1. Head(chan[c]) \in Message /\ Tail(chan[c]) \in Seq(Message)
        /\ Len(Tail(chan[c])) <= Len(chan[c])
    BY <1>4 DEF TypeOK
  <2>2. chan' \in [Conns -> Seq(Message)] /\ \A d \in Conns : Len(chan'[d]) <= Buffer
    <3>1. Len(Tail(chan[c])) \in Nat /\ Len(chan[c]) \in Nat /\ Len(chan[c]) <= Buffer
      BY <2>1 DEF TypeOK
    <3>2. Len(Tail(chan[c])) <= Buffer
      BY <2>1, <3>1, HubAssumption
    <3>3. chan' = [chan EXCEPT ![c] = Tail(@)]
      BY <1>4
    <3> QED BY <2>1, <3>2, <3>3 DEF TypeOK
  <2>3. known' \in [Conns -> 0..MaxRevisions]
    BY <1>4, <2>1 DEF TypeOK, Message
  <2>4. stream' \in [Conns -> {"off", "joining", "joined", "open", "leaving", "done"}]
    BY <1>4 DEF TypeOK
  <2>5. TypeOK'
    BY <1>4, <2>2, <2>3, <2>4 DEF TypeOK
  <2>6. TargetsRegistered'
    BY <1>4 DEF TargetsRegistered
  <2>7. NoPanic' /\ SlotsReturned' /\ MapIsOpen'
    BY <1>4 DEF TypeOK, NoPanic, SlotsReturned, MapIsOpen
  <2> QED BY <2>5, <2>6, <2>7
<1>5. CASE Unsubscribe(c)
  <2> USE DEF Unsubscribe, Go
  <2>1. /\ clients' = clients \ {c}
        /\ closed' = IF c \in clients THEN closed \cup {c} ELSE closed
        /\ panicked' = panicked
    BY <1>5, UnregisterOnce
  <2>2. TypeOK'
    BY <1>5, <2>1 DEF TypeOK
  <2>3. TargetsRegistered'
    BY <1>5, NoTargets DEF TargetsRegistered
  <2>4. NoPanic' /\ SlotsReturned' /\ MapIsOpen'
    BY <1>5, <2>1 DEF TypeOK, NoPanic, SlotsReturned, MapIsOpen
  <2> QED BY <2>2, <2>3, <2>4
<1> QED BY <1>1, <1>2, <1>3, <1>4, <1>5 DEF Streaming

LEMMA CloseStep ==
  ASSUME HubInv, Close
  PROVE  HubInv'
<1> USE DEF HubInv, Close
<1>1. TypeOK'
  BY DEF TypeOK
<1>2. TargetsRegistered'
  BY NoTargets DEF TargetsRegistered
<1>3. NoPanic' /\ SlotsReturned' /\ MapIsOpen'
  BY DEF TypeOK, NoPanic, SlotsReturned, MapIsOpen
<1> QED BY <1>1, <1>2, <1>3

THEOREM HubIsSafe == Spec => []HubInv
<1>1. HubInv /\ [Next]_vars => HubInv'
  <2> SUFFICES ASSUME HubInv, [Next]_vars PROVE HubInv'
    OBVIOUS
  <2>1. CASE UNCHANGED vars
    BY <2>1 DEF HubInv, TypeOK, NoPanic, SlotsReturned, TargetsRegistered, MapIsOpen, vars,
                clientVars
  <2> QED BY <2>1, BroadcasterStep, StreamStep, CloseStep DEF Next
<1> QED BY InitHub, <1>1, PTL DEF Spec

\* TypeOK: the buffers never exceed their capacity, and every broadcast is of a message
\* that exists, for any number of streams and broadcasters.
THEOREM HubTypes == Spec => []TypeOK
<1>1. HubInv => TypeOK
  BY DEF HubInv
<1> QED BY HubIsSafe, <1>1, PTL

\* NoPanic: no send on a closed channel and no second close, whichever goroutines
\* broadcast, disconnect, drop and shut down at the same time.
THEOREM HubNeverPanics == Spec => []NoPanic
<1>1. HubInv => NoPanic
  BY DEF HubInv
<1> QED BY HubIsSafe, <1>1, PTL

\* SlotsReturned: a stream that has ended no longer counts against the limit.
THEOREM HubReturnsSlots == Spec => []SlotsReturned
<1>1. HubInv => SlotsReturned
  BY DEF HubInv
<1> QED BY HubIsSafe, <1>1, PTL

-----------------------------------------------------------------------------
(* No publish is missed                                                    *)

\* One publish is announced at a time: the next one is recorded when the broadcast of the
\* last is over.  Other events come when they like.
OnePublish ==
  \A a, b \in Broadcasters : bcast[a].msg.rev # 0 /\ bcast[b].msg.rev # 0 => a = b

Underway(c) == \E b \in Broadcasters : bcast[b].msg.rev = revision /\ InFlight(b, c)
Waiting(c, i) == i \in DOMAIN chan[c] /\ chan[c][i].rev = revision

\* Broadcasts are of the present revision or of other events, and publishes are for all.
MessagesAreNews ==
  \A b \in Broadcasters :
    /\ bcast[b].msg.rev \in {0, revision}
    /\ bcast[b].msg.rev # 0 => bcast[b].msg.to = "all"
    /\ bcast[b].pc = "announce" => bcast[b].stalled = {}

\* Before the first publish nobody has heard of one.
NothingBefore ==
  revision = 0 => \A c \in Conns : known[c] = 0 /\ \A i \in DOMAIN chan[c] : chan[c][i].rev = 0

EmptyBefore == \A c \in Conns : stream[c] \in {"off", "joining"} => chan[c] = <<>>

\* An old revision in a channel has the present one behind it.
InOrder(c) ==
  \A i \in DOMAIN chan[c] :
    chan[c][i].rev \notin {0, revision} => Underway(c) \/ \E j \in DOMAIN chan[c] : j > i /\ Waiting(c, j)

Told(c) == known[c] # revision => Underway(c) \/ \E i \in DOMAIN chan[c] : Waiting(c, i)

Informed(c) ==
  /\ stream[c] \in {"joined", "open"} => InOrder(c)
  /\ stream[c] = "open" => Told(c)

NewsInv == MessagesAreNews /\ NothingBefore /\ EmptyBefore /\ \A c \in clients : Informed(c)

\* A client that a step does not concern, but for what is on its way.
LEMMA StaysInformed ==
  ASSUME HubInv, NothingBefore, NEW c \in Conns, Informed(c), revision' = revision,
         stream'[c] = stream[c], known'[c] = known[c], chan'[c] = chan[c],
         revision # 0 /\ Underway(c) => Underway(c)'
  PROVE  Informed(c)'
<1>1. (revision = 0) => /\ known[c] = 0
                        /\ \A i \in DOMAIN chan[c] : chan[c][i].rev = 0
  BY DEF NothingBefore
<1>2. \A i : Waiting(c, i)' <=> Waiting(c, i)
  BY DEF Waiting
<1>3. InOrder(c) => InOrder(c)'
  BY <1>1, <1>2 DEF InOrder
<1>4. Told(c) => Told(c)'
  BY <1>1, <1>2 DEF Told
<1> QED BY <1>3, <1>4 DEF Informed

\* A broadcast step that leaves channels and streams alone.
LEMMA BroadcastsGoOn ==
  ASSUME HubInv, NewsInv, NEW b \in Broadcasters, NEW r,
         bcast' = [bcast EXCEPT ![b] = r],
         UNCHANGED <<chan, stream, known, revision>>, clients' \subseteq clients,
         r.msg.rev \in {0, revision}, r.msg.rev # 0 => r.msg.to = "all",
         r.pc = "announce" => r.stalled = {},
         \A c \in clients' :
           revision # 0 /\ bcast[b].msg.rev = revision /\ InFlight(b, c) =>
             /\ r.msg.rev = revision
             /\ r.pc = "announce" \/ (r.pc = "sending" /\ c \in r.todo) \/ c \in r.stalled
  PROVE  NewsInv'
<1>1. bcast'[b] = r /\ \A a \in Broadcasters \ {b} : bcast'[a] = bcast[a]
  BY DEF HubInv, TypeOK
<1>2. MessagesAreNews'
  BY <1>1 DEF NewsInv, MessagesAreNews
<1>3. NothingBefore' /\ EmptyBefore'
  BY DEF NewsInv, NothingBefore, EmptyBefore
<1>4. ASSUME NEW c \in clients' PROVE Informed(c)'
  <2>1. c \in Conns /\ Informed(c)
    BY DEF NewsInv, HubInv, TypeOK
  <2>2. ASSUME revision # 0, Underway(c) PROVE Underway(c)'
    <3>1. PICK a \in Broadcasters : bcast[a].msg.rev = revision /\ InFlight(a, c)
      BY <2>2 DEF Underway
    <3>2. bcast'[a].msg.rev = revision' /\ InFlight(a, c)'
      BY <1>1, <2>2, <3>1 DEF InFlight
    <3> QED BY <3>2 DEF Underway
  <2> QED BY <2>1, <2>2, StaysInformed DEF NewsInv
<1> QED BY <1>2, <1>3, <1>4 DEF NewsInv

LEMMA PublishNews ==
  ASSUME HubInv, NewsInv, OnePublish', NEW b \in Broadcasters, NotifyPlaylist(b)
  PROVE  NewsInv'
<1>1. /\ revision \in Nat /\ revision' = revision + 1 /\ revision' # 0
      /\ bcast[b] = Quiet
      /\ bcast' = [bcast EXCEPT ![b].pc = "announce", ![b].msg = [rev |-> revision + 1, to |-> "all"]]
  BY HubAssumption DEF NotifyPlaylist, Start, HubInv, TypeOK
<1>2. /\ bcast'[b].pc = "announce" /\ bcast'[b].msg = [rev |-> revision', to |-> "all"]
      /\ bcast'[b].stalled = {}
      /\ \A a \in Broadcasters \ {b} : bcast'[a] = bcast[a]
  BY <1>1 DEF HubInv, TypeOK, Quiet
<1>3. \A a \in Broadcasters \ {b} : bcast'[a].msg.rev = 0
  <2> TAKE a \in Broadcasters \ {b}
  <2>1. bcast'[b].msg.rev # 0
    BY <1>1, <1>2
  <2>2. bcast'[a].msg.rev # 0 /\ bcast'[b].msg.rev # 0 => a = b
    BY DEF OnePublish
  <2> QED BY <2>1, <2>2
<1>4. MessagesAreNews'
  BY <1>2, <1>3 DEF NewsInv, MessagesAreNews
<1>5. NothingBefore' /\ EmptyBefore'
  BY <1>1 DEF NotifyPlaylist, NewsInv, NothingBefore, EmptyBefore
<1>6. \A c : Underway(c)'
  BY <1>2 DEF Underway, InFlight
<1> QED BY <1>4, <1>5, <1>6 DEF NewsInv, Informed, InOrder, Told

LEMMA BroadcasterNews ==
  ASSUME HubInv, NewsInv, NEW b \in Broadcasters,
         NotifyOther(b) \/ SelectClients(b) \/ Release(b) \/ Drop(b) \/ Finish(b)
  PROVE  NewsInv'
<1>0. /\ bcast[b] \in Broadcast /\ bcast[b].msg.rev \in {0, revision}
      /\ bcast[b].msg.rev # 0 => bcast[b].msg.to = "all"
      /\ bcast[b].pc = "announce" => bcast[b].stalled = {}
      /\ clients \subseteq Conns
  BY DEF NewsInv, MessagesAreNews, HubInv, TypeOK
<1>1. CASE NotifyOther(b)
  <2>1. PICK to \in {"all", "admin"} : Start(b, [rev |-> 0, to |-> to])
    BY <1>1 DEF NotifyOther
  <2> DEFINE r == [bcast[b] EXCEPT !.pc = "announce", !.msg = [rev |-> 0, to |-> to]]
  <2>2. bcast' = [bcast EXCEPT ![b] = r]
    BY <2>1 DEF Start, HubInv, TypeOK
  <2>3. r.msg.rev = 0 /\ r.stalled = {} /\ bcast[b] = Quiet
    BY <2>1 DEF Start, Quiet
  <2>4. \A c : ~InFlight(b, c)
    BY <2>3 DEF InFlight, Quiet
  <2> HIDE DEF r
  <2>5. UNCHANGED <<chan, stream, known, revision>> /\ clients' = clients
    BY <1>1 DEF NotifyOther, clientVars
  <2> QED BY <2>2, <2>3, <2>4, <2>5, BroadcastsGoOn
<1>2. CASE SelectClients(b)
  <2> DEFINE r == [bcast[b] EXCEPT !.pc = "sending", !.todo = {c \in clients : Matches(bcast[b].msg, c)}]
  <2>1. bcast' = [bcast EXCEPT ![b] = r]
    BY <1>2 DEF SelectClients, HubInv, TypeOK
  <2>2. r.pc = "sending" /\ r.msg = bcast[b].msg /\ r.todo = {c \in clients : Matches(bcast[b].msg, c)}
    BY <1>0 DEF Broadcast
  <2> HIDE DEF r
  <2>3. UNCHANGED <<chan, stream, known, revision>> /\ clients' = clients
    BY <1>2 DEF SelectClients, clientVars
  <2>4. \A c \in clients : bcast[b].msg.rev # 0 => c \in r.todo
    BY <1>0, <2>2 DEF Matches
  <2> QED BY <1>0, <2>1, <2>2, <2>3, <2>4, BroadcastsGoOn
<1>3. CASE Release(b)
  <2> DEFINE r == [bcast[b] EXCEPT !.pc = "dropping"]
  <2>1. bcast' = [bcast EXCEPT ![b] = r] /\ bcast[b].pc = "sending" /\ bcast[b].todo = {}
    BY <1>3 DEF Release, HubInv, TypeOK
  <2>2. r.pc = "dropping" /\ r.msg = bcast[b].msg /\ r.stalled = bcast[b].stalled
    BY <1>0 DEF Broadcast
  <2> HIDE DEF r
  <2>3. UNCHANGED <<chan, stream, known, revision>> /\ clients' = clients
    BY <1>3 DEF Release, clientVars
  <2>4. \A c : InFlight(b, c) => c \in r.stalled
    BY <2>1, <2>2 DEF InFlight
  <2> QED BY <1>0, <2>1, <2>2, <2>3, <2>4, BroadcastsGoOn
<1>4. CASE Drop(b)
  <2>1. PICK d \in bcast[b].stalled : Unregister(d) /\ bcast' = [bcast EXCEPT ![b].stalled = @ \ {d}]
    BY <1>4 DEF Drop
  <2> DEFINE r == [bcast[b] EXCEPT !.stalled = @ \ {d}]
  <2>2. bcast' = [bcast EXCEPT ![b] = r] /\ bcast[b].pc = "dropping"
    BY <1>4, <2>1 DEF Drop, HubInv, TypeOK
  <2>3. r.pc = "dropping" /\ r.msg = bcast[b].msg /\ r.stalled = bcast[b].stalled \ {d}
    BY <1>0, <2>2 DEF Broadcast
  <2> HIDE DEF r
  <2>4. d \in Conns
    BY <1>0 DEF Broadcast
  <2>5. clients' = clients \ {d}
    BY <2>1, <2>4, UnregisterOnce
  <2>6. UNCHANGED <<chan, stream, known, revision>>
    BY <1>4 DEF Drop
  <2>7. \A c \in clients' : InFlight(b, c) => c \in r.stalled
    BY <2>2, <2>3, <2>5 DEF InFlight
  <2> QED BY <1>0, <2>2, <2>3, <2>5, <2>6, <2>7, BroadcastsGoOn
<1>5. CASE Finish(b)
  <2>1. bcast' = [bcast EXCEPT ![b] = Quiet] /\ \A c : ~InFlight(b, c)
    BY <1>5 DEF Finish, InFlight
  <2>2. UNCHANGED <<chan, stream, known, revision>> /\ clients' = clients
    BY <1>5 DEF Finish, clientVars
  <2>3. Quiet.msg.rev = 0 /\ Quiet.pc = "idle"
    BY DEF Quiet
  <2> QED BY <2>1, <2>2, <2>3, BroadcastsGoOn
<1> QED BY <1>1, <1>2, <1>3, <1>4, <1>5

\* One turn of the loop: the message is behind all others, or the client stalls.
LEMMA SendNews ==
  ASSUME HubInv, NewsInv, NEW b \in Broadcasters, NEW d \in Conns, Send(b, d)
  PROVE  NewsInv'
<1>0. /\ bcast[b] \in Broadcast /\ bcast[b].msg.rev \in {0, revision} /\ bcast[b].pc = "sending"
      /\ chan[d] \in Seq(Message) /\ bcast[b].msg \in Message
      /\ stream[d] \notin {"off", "joining"} /\ d \in clients
      /\ clients \subseteq Conns
  BY DEF NewsInv, MessagesAreNews, HubInv, TypeOK, TargetsRegistered, Send, Broadcast, SlotsReturned
<1>1. UNCHANGED <<clients, stream, known, revision>>
  BY DEF Send
<1>2. /\ \A a \in Broadcasters \ {b} : bcast'[a] = bcast[a]
      /\ bcast'[b].msg = bcast[b].msg /\ bcast'[b].pc = bcast[b].pc
      /\ bcast'[b].todo = bcast[b].todo \ {d}
      /\ bcast'[b].stalled \in {bcast[b].stalled, bcast[b].stalled \cup {d}}
  <2>1. CASE Len(chan[d]) < Buffer
    BY <1>0, <2>1 DEF Send, HubInv, TypeOK, Broadcast
  <2>2. CASE ~(Len(chan[d]) < Buffer)
    BY <1>0, <2>2 DEF Send, HubInv, TypeOK, Broadcast
  <2> QED BY <2>1, <2>2
<1>3. MessagesAreNews'
  BY <1>0, <1>1, <1>2 DEF NewsInv, MessagesAreNews
<1>4. \A c \in Conns \ {d} : chan'[c] = chan[c]
  BY DEF Send, HubInv, TypeOK
<1>5. \/ /\ chan'[d] = Append(chan[d], bcast[b].msg)
         /\ bcast'[b].stalled = bcast[b].stalled
      \/ /\ chan'[d] = chan[d]
         /\ bcast'[b].stalled = bcast[b].stalled \cup {d}
  <2>1. CASE Len(chan[d]) < Buffer
    BY <1>0, <2>1 DEF Send, HubInv, TypeOK, Broadcast
  <2>2. CASE ~(Len(chan[d]) < Buffer)
    BY <1>0, <2>2 DEF Send, HubInv, TypeOK, Broadcast
  <2> QED BY <2>1, <2>2
<1>6. \A c \in Conns \ {d} : Underway(c) => Underway(c)'
  <2> TAKE c \in Conns \ {d}
  <2> HAVE Underway(c)
  <2>1. PICK a \in Broadcasters : bcast[a].msg.rev = revision /\ InFlight(a, c)
    BY DEF Underway
  <2>2. bcast'[a].msg.rev = revision' /\ InFlight(a, c)'
    BY <1>1, <1>2, <2>1 DEF InFlight
  <2> QED BY <2>2 DEF Underway
<1>7. EmptyBefore'
  BY <1>0, <1>1, <1>4 DEF NewsInv, EmptyBefore
<1>7a. PICK last \in Nat : last = Len(chan[d]) + 1
  BY <1>0
<1>8. ASSUME chan'[d] = Append(chan[d], bcast[b].msg)
      PROVE  /\ DOMAIN chan[d] = 1..Len(chan[d]) /\ DOMAIN chan'[d] = 1..last
             /\ \A i \in 1..Len(chan[d]) : chan'[d][i] = chan[d][i]
             /\ chan'[d][last] = bcast[b].msg
             /\ last \in Nat /\ Len(chan[d]) \in Nat
  BY <1>0, <1>8, <1>7a
<1>9. NothingBefore'
  <2> SUFFICES ASSUME revision = 0, NEW c \in Conns
               PROVE  known[c] = 0 /\ \A i \in DOMAIN chan'[c] : chan'[c][i].rev = 0
    BY <1>1 DEF NothingBefore
  <2>1. known[c] = 0 /\ (\A i \in DOMAIN chan[c] : chan[c][i].rev = 0) /\ bcast[b].msg.rev = 0
    BY <1>0 DEF NewsInv, NothingBefore
  <2>2. CASE c # d \/ chan'[d] = chan[d]
    BY <1>4, <2>1, <2>2
  <2>3. CASE c = d /\ chan'[d] = Append(chan[d], bcast[b].msg)
    <3>1. \A i \in 1..last : i = last \/ i \in 1..Len(chan[d])
      BY <1>8, <1>7a, <2>3
    <3> QED BY <1>8, <2>1, <2>3, <3>1
  <2> QED BY <1>5, <2>2, <2>3
<1>10. ASSUME NEW c \in clients \ {d} PROVE Informed(c)'
  BY <1>0, <1>1, <1>4, <1>6, StaysInformed DEF NewsInv
<1>11. Informed(d)'
  <2>1. CASE chan'[d] = chan[d] /\ bcast'[b].stalled = bcast[b].stalled \cup {d}
    <3>1. Underway(d) => Underway(d)'
      <4> HAVE Underway(d)
      <4>1. PICK a \in Broadcasters : bcast[a].msg.rev = revision /\ InFlight(a, d)
        BY DEF Underway
      <4>2. bcast'[a].msg.rev = revision' /\ InFlight(a, d)'
        BY <1>1, <1>2, <2>1, <4>1 DEF InFlight
      <4> QED BY <4>2 DEF Underway
    <3> QED BY <1>0, <1>1, <2>1, <3>1, StaysInformed DEF NewsInv
  <2>2. CASE chan'[d] = Append(chan[d], bcast[b].msg) /\ bcast'[b].stalled = bcast[b].stalled
    <3>1. Underway(d) => Underway(d)' \/ Waiting(d, last)'
      <4> HAVE Underway(d)
      <4>1. PICK a \in Broadcasters : bcast[a].msg.rev = revision /\ InFlight(a, d)
        BY DEF Underway
      <4>2. CASE a = b
        <5>1. last \in DOMAIN chan'[d] /\ chan'[d][last] = bcast[b].msg
          BY <1>8, <2>2
        <5>2. chan'[d][last].rev = revision'
          BY <1>1, <4>1, <4>2, <5>1
        <5> QED BY <5>1, <5>2 DEF Waiting
      <4>3. CASE a # b
        BY <1>1, <1>2, <4>1, <4>3 DEF Underway, InFlight
      <4> QED BY <4>2, <4>3
    <3>2. \A i \in DOMAIN chan[d] : Waiting(d, i) => Waiting(d, i)' /\ i \in DOMAIN chan'[d]
      BY <1>1, <1>8, <2>2 DEF Waiting
    <3>3. last \in DOMAIN chan'[d] /\ \A i \in DOMAIN chan'[d] : i = last \/ (i \in DOMAIN chan[d] /\ last > i)
      BY <1>8, <1>7a, <2>2
    <3>4. InOrder(d) => InOrder(d)'
      <4> SUFFICES ASSUME InOrder(d), NEW i \in DOMAIN chan'[d], chan'[d][i].rev \notin {0, revision}
                   PROVE  Underway(d)' \/ \E j \in DOMAIN chan'[d] : j > i /\ Waiting(d, j)'
        BY <1>1 DEF InOrder
      <4>1. i \in DOMAIN chan[d] /\ last > i /\ chan[d][i] = chan'[d][i]
        BY <1>0, <1>8, <2>2, <3>3
      <4>2. CASE Underway(d)
        BY <3>1, <3>3, <4>1, <4>2
      <4>3. ASSUME NEW j \in DOMAIN chan[d], j > i, Waiting(d, j) PROVE Waiting(d, j)' /\ j \in DOMAIN chan'[d]
        BY <3>2, <4>3
      <4> QED BY <4>1, <4>2, <4>3 DEF InOrder
    <3>5. Told(d) => Told(d)'
      <4> SUFFICES ASSUME Told(d), known'[d] # revision
                   PROVE  Underway(d)' \/ \E i \in DOMAIN chan'[d] : Waiting(d, i)'
        BY <1>1 DEF Told
      <4>1. CASE Underway(d)
        BY <3>1, <3>3, <4>1
      <4>2. ASSUME NEW i \in DOMAIN chan[d], Waiting(d, i) PROVE Waiting(d, i)' /\ i \in DOMAIN chan'[d]
        BY <3>2, <4>2
      <4> QED BY <1>1, <4>1, <4>2 DEF Told
    <3> QED BY <1>0, <1>1, <3>4, <3>5 DEF NewsInv, Informed
  <2> QED BY <1>5, <2>1, <2>2
<1> QED BY <1>1, <1>3, <1>7, <1>9, <1>10, <1>11 DEF NewsInv

\* A stream that takes its next message from the channel.
LEMMA ReceiveNews ==
  ASSUME HubInv, NewsInv, NEW c \in Conns, Receive(c)
  PROVE  NewsInv'
<1>1. /\ chan[c] \in Seq(Message) /\ chan[c] # <<>> /\ chan'[c] = Tail(chan[c])
      /\ \A d \in Conns \ {c} : chan'[d] = chan[d] /\ stream'[d] = stream[d] /\ known'[d] = known[d]
      /\ stream[c] = "open"
      /\ UNCHANGED <<clients, revision, bcast>> /\ clients \subseteq Conns
      /\ \/ stream'[c] = "leaving" /\ known'[c] = known[c]
         \/ /\ stream'[c] = "open"
            /\ known'[c] = IF chan[c][1].rev = 0 THEN known[c] ELSE chan[c][1].rev
  BY DEF Receive, Go, HubInv, TypeOK, clientVars
<1>2. /\ DOMAIN chan[c] = 1..Len(chan[c]) /\ Len(chan[c]) \in Nat /\ 1 \in DOMAIN chan[c]
      /\ DOMAIN chan'[c] = 1..Len(chan[c]) - 1
      /\ \A i \in DOMAIN chan'[c] : i + 1 \in DOMAIN chan[c] /\ chan'[c][i] = chan[c][i + 1]
      /\ \A i \in DOMAIN chan[c] : i = 1 \/ i - 1 \in DOMAIN chan'[c]
  BY <1>1
<1>3. MessagesAreNews' /\ EmptyBefore'
  BY <1>1 DEF NewsInv, MessagesAreNews, EmptyBefore
<1>4. NothingBefore'
  <2> SUFFICES ASSUME revision = 0, NEW d \in Conns
               PROVE  known'[d] = 0 /\ \A i \in DOMAIN chan'[d] : chan'[d][i].rev = 0
    BY <1>1 DEF NothingBefore
  <2>1. \A e \in Conns : known[e] = 0 /\ \A i \in DOMAIN chan[e] : chan[e][i].rev = 0
    BY DEF NewsInv, NothingBefore
  <2>2. CASE d # c
    BY <1>1, <2>1, <2>2
  <2>3. CASE d = c
    <3>1. known'[c] = 0
      BY <1>1, <1>2, <2>1
    <3>2. \A i \in DOMAIN chan'[c] : chan'[c][i].rev = 0
      BY <1>2, <2>1
    <3> QED BY <2>3, <3>1, <3>2
  <2> QED BY <2>2, <2>3
<1>5. \A d : Underway(d)' <=> Underway(d)
  BY <1>1 DEF Underway, InFlight
<1>6. \A d \in clients \ {c} : Informed(d)'
  BY <1>1, <1>5, StaysInformed DEF NewsInv
<1>7. ASSUME c \in clients, stream'[c] = "open" PROVE Informed(c)'
  <2>1. InOrder(c) /\ Told(c)
    BY <1>1, <1>7 DEF NewsInv, Informed
  <2>2. \A i \in DOMAIN chan[c] : Waiting(c, i) /\ i # 1 => i - 1 \in DOMAIN chan'[c] /\ Waiting(c, i - 1)'
    <3> TAKE i \in DOMAIN chan[c]
    <3> HAVE Waiting(c, i) /\ i # 1
    <3>1. i - 1 \in DOMAIN chan'[c] /\ i \in Nat
      BY <1>2
    <3>2. chan'[c][i - 1] = chan[c][i]
      BY <1>2, <3>1
    <3> QED BY <1>1, <3>1, <3>2 DEF Waiting
  <2>3. InOrder(c)'
    <3> SUFFICES ASSUME NEW i \in DOMAIN chan'[c], chan'[c][i].rev \notin {0, revision}, ~Underway(c)
                 PROVE  \E j \in DOMAIN chan'[c] : j > i /\ Waiting(c, j)'
      BY <1>1, <1>5 DEF InOrder
    <3>1. i + 1 \in DOMAIN chan[c] /\ chan[c][i + 1].rev \notin {0, revision} /\ i \in Nat
      BY <1>2
    <3>2. PICK j \in DOMAIN chan[c] : j > i + 1 /\ Waiting(c, j)
      BY <2>1, <3>1 DEF InOrder
    <3>3. j \in Nat /\ j # 1 /\ j - 1 > i /\ i # 0
      BY <1>2, <3>1, <3>2
    <3> QED BY <2>2, <3>2, <3>3
  <2>4. Told(c)'
    <3> SUFFICES ASSUME known'[c] # revision, ~Underway(c)
                 PROVE  \E i \in DOMAIN chan'[c] : Waiting(c, i)'
      BY <1>1, <1>5 DEF Told
    <3>1. CASE chan[c][1].rev \notin {0, revision}
      <4>1. PICK j \in DOMAIN chan[c] : j > 1 /\ Waiting(c, j)
        BY <1>2, <2>1, <3>1 DEF InOrder
      <4> QED BY <1>2, <2>2, <4>1
    <3>2. CASE chan[c][1].rev = 0
      <4>1. known[c] # revision
        BY <1>1, <1>7, <3>2
      <4>2. PICK j \in DOMAIN chan[c] : Waiting(c, j)
        BY <2>1, <4>1 DEF Told
      <4>3. j # 1
        <5>1. revision # 0
          BY <4>1 DEF NewsInv, NothingBefore
        <5> QED BY <3>2, <4>2, <5>1 DEF Waiting
      <4> QED BY <2>2, <4>2, <4>3
    <3>3. CASE chan[c][1].rev = revision /\ revision # 0
      BY <1>1, <1>7, <3>3
    <3> QED BY <3>1, <3>2, <3>3
  <2> QED BY <2>3, <2>4 DEF Informed
<1>8. stream'[c] # "open" => Informed(c)'
  BY <1>1 DEF Informed
<1> QED BY <1>1, <1>3, <1>4, <1>6, <1>7, <1>8 DEF NewsInv

\* The steps of a stream that touch no channel.
LEMMA StreamNews ==
  ASSUME HubInv, NewsInv, NEW c \in Conns,
         Connect(c) \/ Subscribe(c) \/ Refuse(c) \/ Hello(c) \/ EndOfStream(c) \/ Disconnect(c) \/ Unsubscribe(c)
  PROVE  NewsInv'
<1>1. /\ UNCHANGED <<chan, revision, bcast>>
      /\ \A d \in Conns \ {c} : stream'[d] = stream[d] /\ known'[d] = known[d]
      /\ clients \subseteq Conns
  BY DEF Connect, Subscribe, Refuse, Hello, EndOfStream, Disconnect, Unsubscribe, Go, HubInv, TypeOK
<1>2. clients' \subseteq clients \cup {c}
  BY UnregisterOnce DEF Connect, Subscribe, Refuse, Hello, EndOfStream, Disconnect, Unsubscribe, clientVars
<1>3. \/ stream[c] \in {"off", "joining"} /\ stream'[c] \in {"joining", "joined", "done"} /\ known'[c] = known[c]
      \/ stream[c] = "joined" /\ stream'[c] = "open" /\ known'[c] = revision /\ clients' = clients
      \/ stream[c] \in {"open", "leaving"} /\ stream'[c] \in {"leaving", "done"} /\ known'[c] = known[c]
  BY DEF Connect, Subscribe, Refuse, Hello, EndOfStream, Disconnect, Unsubscribe, Go, HubInv, TypeOK, clientVars
<1>4. MessagesAreNews' /\ EmptyBefore' /\ NothingBefore'
  BY <1>1, <1>3 DEF NewsInv, MessagesAreNews, EmptyBefore, NothingBefore
<1>5. \A d : (Underway(d)' <=> Underway(d)) /\ \A i : (Waiting(d, i)' <=> Waiting(d, i))
  BY <1>1 DEF Underway, InFlight, Waiting
<1>6. \A d \in clients \ {c} : Informed(d)'
  BY <1>1, <1>5, StaysInformed DEF NewsInv
<1>7. ASSUME c \in clients' PROVE Informed(c)'
  <2>1. CASE stream[c] \in {"off", "joining"} /\ stream'[c] \in {"joining", "joined", "done"}
    <3>1. chan'[c] = <<>>
      BY <1>1, <2>1 DEF NewsInv, EmptyBefore
    <3> QED BY <2>1, <3>1 DEF Informed, InOrder
  <2>2. CASE stream[c] = "joined" /\ stream'[c] = "open" /\ known'[c] = revision /\ clients' = clients
    <3>1. InOrder(c)
      BY <1>7, <2>2 DEF NewsInv, Informed
    <3>2. InOrder(c)'
      BY <1>1, <1>5, <3>1 DEF InOrder
    <3> QED BY <1>1, <2>2, <3>2 DEF Informed, Told
  <2>3. CASE stream'[c] \in {"leaving", "done"}
    BY <2>3 DEF Informed
  <2> QED BY <1>3, <2>1, <2>2, <2>3
<1> QED BY <1>2, <1>4, <1>6, <1>7 DEF NewsInv

\* While publishes are announced one at a time, a connected stream that has not been told of
\* the last one has it in its channel or on its way, or is about to be dropped: whatever
\* other events there are, and however streams come and go (hub.go:141-283).
THEOREM PublishesArrive == Spec /\ []OnePublish => []NoMissedPublish
<1>1. Init => NewsInv
  BY DEF Init, NewsInv, MessagesAreNews, NothingBefore, EmptyBefore, Quiet
<1>2. HubInv /\ NewsInv /\ OnePublish' /\ [Next]_vars => NewsInv'
  <2> SUFFICES ASSUME HubInv, NewsInv, OnePublish', [Next]_vars PROVE NewsInv'
    OBVIOUS
  <2>1. CASE UNCHANGED vars
    BY <2>1 DEF vars, clientVars, NewsInv, MessagesAreNews, NothingBefore, EmptyBefore, Informed, InOrder, Told,
                Underway, InFlight, Waiting
  <2>2. CASE Close
    BY <2>2 DEF Close, NewsInv, MessagesAreNews, NothingBefore, EmptyBefore
  <2> QED BY <2>1, <2>2, PublishNews, BroadcasterNews, SendNews, ReceiveNews, StreamNews
          DEF Next, Broadcasting, Streaming
<1>3. NewsInv => NoMissedPublish
  BY DEF NewsInv, NoMissedPublish, Informed, Told, Underway, Waiting
<1> QED BY <1>1, <1>2, <1>3, HubIsSafe, PTL DEF Spec
=============================================================================
