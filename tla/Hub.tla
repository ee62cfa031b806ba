-------------------------------- MODULE Hub --------------------------------
(***************************************************************************)
(* The event hub (internal/realtime/hub.go): goroutines that broadcast, a  *)
(* goroutine per event stream, and the map of subscribers between them,    *)
(* guarded by a sync.RWMutex.                                              *)
(*                                                                         *)
(* A critical section under the write lock touches nothing else and is one *)
(* step, which waits for the readers to leave.  A broadcast holds the read *)
(* lock from its first send to its last.  As with Go's RWMutex, a waiting  *)
(* writer keeps new readers out.                                           *)
(***************************************************************************)
EXTENDS Naturals, FiniteSets, Sequences

CONSTANTS
  Broadcasters,   \* goroutines that may broadcast at the same time
  Conns,          \* event streams, one per request
  Players,        \* those of them that the display opened; the rest are dashboards
  MaxSubs,        \* Config.MaxSSEClients
  Buffer,         \* clientBuffer
  MaxRevisions,   \* bound on the publishes announced
  MaxEvents       \* bound on the other events

ASSUME HubAssumption ==
  /\ Players \subseteq Conns
  /\ IsFiniteSet(Conns)
  /\ MaxSubs \in Nat
  /\ Buffer \in Nat \ {0}
  /\ MaxRevisions \in Nat
  /\ MaxEvents \in Nat

VARIABLES
  clients,    \* Hub.clients
  chan,       \* what each client's channel holds
  closed,     \* the channels that have been closed
  stream,     \* where each stream's goroutine is in ServeHTTP
  known,      \* the last revision written to each stream
  revision,   \* Hub.revision
  bcast,      \* where each broadcaster is
  events,     \* other events so far
  panicked    \* a send on a closed channel, or a second close

clientVars == <<clients, closed, panicked>>
vars == <<clientVars, chan, stream, known, revision, bcast, events>>

Message == [rev: 0..MaxRevisions, to: {"all", "player", "admin"}]

\* A broadcaster: about to take the read lock, sending to those in todo, or
\* dropping those it found stalled.
Broadcast == [pc: {"idle", "announce", "sending", "dropping"}, msg: Message,
              todo: SUBSET Conns, stalled: SUBSET Conns]

Quiet == [pc |-> "idle", msg |-> [rev |-> 0, to |-> "all"], todo |-> {}, stalled |-> {}]

TypeOK ==
  /\ clients \in SUBSET Conns
  /\ chan \in [Conns -> Seq(Message)]
  /\ \A c \in Conns : Len(chan[c]) <= Buffer
  /\ closed \in SUBSET Conns
  /\ stream \in [Conns -> {"off", "joining", "joined", "open", "leaving", "done"}]
  /\ known \in [Conns -> 0..MaxRevisions]
  /\ revision \in 0..MaxRevisions
  /\ bcast \in [Broadcasters -> Broadcast]
  /\ events \in 0..MaxEvents
  /\ panicked \in BOOLEAN

Matches(m, c) ==
  \/ m.to = "all"
  \/ m.to = "player" /\ c \in Players
  \/ m.to = "admin" /\ c \notin Players

-----------------------------------------------------------------------------
(* The lock                                                                *)

\* Mutant: the sends happen after the read lock is released.
NoReaders == {}

\* The goroutines that hold the read lock.
Readers == {b \in Broadcasters : bcast[b].pc = "sending"}

\* The goroutines that wait for the write lock.
Writers == {b \in Broadcasters : bcast[b].pc = "dropping" /\ bcast[b].stalled # {}}
             \cup {c \in Conns : stream[c] \in {"joining", "leaving"}}

WriteLock == Readers = {}
ReadLock  == Writers = {}

-----------------------------------------------------------------------------
(* Broadcasts                                                              *)

Start(b, m) == bcast[b] = Quiet /\ bcast' = [bcast EXCEPT ![b].pc = "announce", ![b].msg = m]

\* NotifyPlaylist records the revision and broadcasts it.  Revisions arrive in
\* order here; Playlist has the case where they do not.
NotifyPlaylist(b) ==
  /\ revision < MaxRevisions
  /\ revision' = revision + 1
  /\ Start(b, [rev |-> revision + 1, to |-> "all"])
  /\ UNCHANGED <<clientVars, chan, stream, known, events>>

\* The other Notify functions.
NotifyOther(b) ==
  /\ events < MaxEvents
  /\ events' = events + 1
  /\ \E to \in {"all", "admin"} : Start(b, [rev |-> 0, to |-> to])
  /\ UNCHANGED <<clientVars, chan, stream, known, revision>>

\* RLock, with the clients that the loop will go through.
SelectClients(b) ==
  /\ bcast[b].pc = "announce"
  /\ ReadLock
  /\ bcast' = [bcast EXCEPT ![b].pc = "sending",
                            ![b].todo = {c \in clients : Matches(bcast[b].msg, c)}]
  /\ UNCHANGED <<clientVars, chan, stream, known, revision, events>>

\* Mutant: a message that does not fit is lost, and the client kept.
SendOrLose(b, c) ==
  /\ c \in bcast[b].todo
  /\ panicked' = (panicked \/ c \in closed)
  /\ chan' = [chan EXCEPT ![c] = IF Len(@) < Buffer THEN Append(@, bcast[b].msg) ELSE @]
  /\ bcast' = [bcast EXCEPT ![b].todo = @ \ {c}]
  /\ UNCHANGED <<clients, closed, stream, known, revision, events>>

\* Mutant: the send waits for room.
SendBlocking(b, c) ==
  /\ c \in bcast[b].todo
  /\ Len(chan[c]) < Buffer
  /\ panicked' = (panicked \/ c \in closed)
  /\ chan' = [chan EXCEPT ![c] = Append(@, bcast[b].msg)]
  /\ bcast' = [bcast EXCEPT ![b].todo = @ \ {c}]
  /\ UNCHANGED <<clients, closed, stream, known, revision, events>>

\* Mutant: the buffer has no limit.
SendUnbounded(b, c) ==
  /\ c \in bcast[b].todo
  /\ panicked' = (panicked \/ c \in closed)
  /\ chan' = [chan EXCEPT ![c] = Append(@, bcast[b].msg)]
  /\ bcast' = [bcast EXCEPT ![b].todo = @ \ {c}]
  /\ UNCHANGED <<clients, closed, stream, known, revision, events>>

\* One turn of the loop: a non-blocking send, or a note that the client stalls.
Send(b, c) ==
  /\ c \in bcast[b].todo
  /\ panicked' = (panicked \/ c \in closed)
  /\ IF Len(chan[c]) < Buffer
     THEN /\ chan' = [chan EXCEPT ![c] = Append(@, bcast[b].msg)]
          /\ bcast' = [bcast EXCEPT ![b].todo = @ \ {c}]
     ELSE /\ bcast' = [bcast EXCEPT ![b].todo = @ \ {c}, ![b].stalled = @ \cup {c}]
          /\ UNCHANGED chan
  /\ UNCHANGED <<clients, closed, stream, known, revision, events>>

\* RUnlock, once every client has been tried.
Release(b) ==
  /\ bcast[b].pc = "sending"
  /\ bcast[b].todo = {}
  /\ bcast' = [bcast EXCEPT ![b].pc = "dropping"]
  /\ UNCHANGED <<clientVars, chan, stream, known, revision, events>>

\* unsubscribe, under the write lock.
Unregister(c) ==
  IF c \in clients
  THEN /\ clients' = clients \ {c}
       /\ closed' = closed \cup {c}
       /\ panicked' = (panicked \/ c \in closed)
  ELSE UNCHANGED clientVars

\* A stalled client is dropped.
Drop(b) ==
  /\ bcast[b].pc = "dropping"
  /\ WriteLock
  /\ \E c \in bcast[b].stalled :
       /\ Unregister(c)
       /\ bcast' = [bcast EXCEPT ![b].stalled = @ \ {c}]
  /\ UNCHANGED <<chan, stream, known, revision, events>>

Finish(b) ==
  /\ bcast[b].pc = "dropping"
  /\ bcast[b].stalled = {}
  /\ bcast' = [bcast EXCEPT ![b] = Quiet]
  /\ UNCHANGED <<clientVars, chan, stream, known, revision, events>>

-----------------------------------------------------------------------------
(* Streams                                                                 *)

Go(c, from, to) == stream[c] = from /\ stream' = [stream EXCEPT ![c] = to]

\* A request for an event stream arrives.
Connect(c) ==
  /\ Go(c, "off", "joining")
  /\ UNCHANGED <<clientVars, chan, known, revision, bcast, events>>

\* subscribe, under the write lock.
Subscribe(c) ==
  /\ WriteLock
  /\ Cardinality(clients) < MaxSubs
  /\ Go(c, "joining", "joined")
  /\ clients' = clients \cup {c}
  /\ UNCHANGED <<closed, panicked, chan, known, revision, bcast, events>>

\* ErrTooManySubscribers: the answer is 503.
Refuse(c) ==
  /\ WriteLock
  /\ Cardinality(clients) >= MaxSubs
  /\ Go(c, "joining", "done")
  /\ UNCHANGED <<clientVars, chan, known, revision, bcast, events>>

\* The hello event carries the hub's revision.
Hello(c) ==
  /\ Go(c, "joined", "open")
  /\ known' = [known EXCEPT ![c] = revision]
  /\ UNCHANGED <<clientVars, chan, revision, bcast, events>>

\* The next message is taken from the channel, and written or not.
Receive(c) ==
  /\ chan[c] # <<>>
  /\ chan' = [chan EXCEPT ![c] = Tail(@)]
  /\ \/ /\ Go(c, "open", "open")
        /\ known' = [known EXCEPT ![c] = IF Head(chan[c]).rev = 0 THEN @ ELSE Head(chan[c]).rev]
     \/ Go(c, "open", "leaving") /\ UNCHANGED known
  /\ UNCHANGED <<clientVars, revision, bcast, events>>

\* The channel is closed and drained.
EndOfStream(c) ==
  /\ chan[c] = <<>>
  /\ c \in closed
  /\ Go(c, "open", "leaving")
  /\ UNCHANGED <<clientVars, chan, known, revision, bcast, events>>

\* The request's context ends, or a ping cannot be written.
Disconnect(c) ==
  /\ Go(c, "open", "leaving")
  /\ UNCHANGED <<clientVars, chan, known, revision, bcast, events>>

\* Mutant: a stream whose channel was drained leaves without unsubscribing.
LeaveQuietly(c) ==
  /\ WriteLock
  /\ Go(c, "leaving", "done")
  /\ UNCHANGED <<clientVars, chan, known, revision, bcast, events>>

\* The deferred unsubscribe.
Unsubscribe(c) ==
  /\ WriteLock
  /\ Go(c, "leaving", "done")
  /\ Unregister(c)
  /\ UNCHANGED <<chan, known, revision, bcast, events>>

\* Close, at shutdown.
Close ==
  /\ WriteLock
  /\ clients # {}
  /\ panicked' = (panicked \/ clients \cap closed # {})
  /\ closed' = closed \cup clients
  /\ clients' = {}
  /\ UNCHANGED <<chan, stream, known, revision, bcast, events>>

-----------------------------------------------------------------------------

Init ==
  /\ clients = {}
  /\ chan = [c \in Conns |-> <<>>]
  /\ closed = {}
  /\ stream = [c \in Conns |-> "off"]
  /\ known = [c \in Conns |-> 0]
  /\ revision = 0
  /\ bcast = [b \in Broadcasters |-> Quiet]
  /\ events = 0
  /\ panicked = FALSE

Broadcasting(b) ==
  \/ SelectClients(b) \/ (\E c \in Conns : Send(b, c)) \/ Release(b) \/ Drop(b) \/ Finish(b)

Streaming(c) ==
  \/ Connect(c) \/ Subscribe(c) \/ Refuse(c) \/ Hello(c) \/ Receive(c)
  \/ EndOfStream(c) \/ Disconnect(c) \/ Unsubscribe(c)

Next ==
  \/ \E b \in Broadcasters : NotifyPlaylist(b) \/ NotifyOther(b) \/ Broadcasting(b)
  \/ \E c \in Conns : Streaming(c)
  \/ Close

Spec == Init /\ [][Next]_vars

\* A goroutine that waits for the lock or is inside a broadcast goes on.  Nothing
\* is assumed of the clients: a stream may stay blocked in its write for ever.
Fairness ==
  /\ \A b \in Broadcasters : WF_vars(Broadcasting(b))
  /\ \A c \in Conns : WF_vars(Subscribe(c) \/ Refuse(c)) /\ WF_vars(Unsubscribe(c))

FairSpec == Spec /\ Fairness

-----------------------------------------------------------------------------
(* Properties                                                              *)

\* No broadcast sends on a channel that a disconnect, a drop or Close has closed,
\* and no channel is closed twice: either would bring the process down.
NoPanic == ~panicked

\* Slots are returned: a stream that has ended is not in the map, and a channel
\* is closed exactly when its stream was taken out of it.
SlotsReturned ==
  \A c \in Conns :
    /\ stream[c] \in {"off", "joining", "done"} => c \notin clients
    /\ stream[c] \in {"joined", "open", "leaving"} => (c \in closed <=> c \notin clients)

InFlight(b, c) ==
  \/ bcast[b].pc = "announce"
  \/ bcast[b].pc = "sending" /\ c \in bcast[b].todo
  \/ c \in bcast[b].stalled

\* A stream that is connected and has been told another revision than the hub's
\* has the news in its channel or on its way, or is about to be dropped: no
\* publish falls between the subscription and the hello event, and none is lost
\* to a full buffer.
NoMissedPublish ==
  \A c \in clients :
    (stream[c] = "open" /\ known[c] # revision)
      => \/ \E i \in DOMAIN chan[c] : chan[c][i].rev = revision
         \/ \E b \in Broadcasters : bcast[b].msg.rev = revision /\ InFlight(b, c)

\* A broadcast ends, whatever the clients do: a stalled dashboard cannot hold up
\* a publish, nor can the streams that come and go meanwhile.
BroadcastEnds ==
  \A b \in Broadcasters : (bcast[b].pc # "idle") ~> (bcast[b].pc = "idle")
=============================================================================
