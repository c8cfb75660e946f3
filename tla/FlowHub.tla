------------------------------- MODULE FlowHub -------------------------------
(***************************************************************************)
(* The server half of FlowMap: FeedHub, FlowSession and ClientTx of        *)
(* flowmap/session.py, the columns and epochs of flowmap/grid.py, and the  *)
(* receive loop of server_routes/flowmap_ws.py.                            *)
(*                                                                         *)
(* One asyncio thread runs everything, so what happens between two awaits  *)
(* is one step.  The awaits that matter are the hub's create lock, the     *)
(* candle backfill of a session that boots, and the next message of a      *)
(* connection.  A session is named by the order of its creation.           *)
(***************************************************************************)
EXTENDS Integers, Sequences, FiniteSets, SequencesExt

CONSTANTS
  Keys,          \* (symbol, band) pairs
  MaxConns,      \* bound: WebSocket connections
  MaxStarts,     \* bound: sessions created
  MaxColumns,    \* bound: columns of one session
  MaxEpoch,      \* bound: re-anchors of one session
  MaxCrashes,    \* bound: crashed sessions at a time
  MaxSessions,   \* max_sessions
  QueueCap,      \* _TX_QUEUE_CAP
  SnapshotCols,  \* SNAPSHOT_COLS
  Backfill       \* columns a successful backfill reconstructs

Conns == 1 .. MaxConns
None == 0        \* no connection, no session, no column

ASSUME FlowAssumption ==
  /\ MaxConns \in Nat /\ MaxSessions \in Nat
  /\ MaxStarts \in Nat /\ MaxColumns \in Nat /\ MaxEpoch \in Nat
  /\ SnapshotCols \in Nat \ {0}
  /\ Backfill \in 0 .. MaxColumns
  /\ None \notin Keys

VARIABLES
  sessions,   \* the sessions created so far, in order
  registry,   \* FeedHub._sessions
  lock,       \* FeedHub._create_lock: the connection whose subscribe holds it
  handler,    \* the server side of a connection: where its receive loop is,
              \* its session, and (for a property) how it found that
  tx,         \* its ClientTx, and every frame that queue ever evicted
  up,         \* the client's messages its receive loop has not taken yet
  wire        \* the socket itself

hub == <<sessions, registry, lock>>
hubVars == <<hub, handler, tx, up, wire>>

Blank == [pc |-> "absent", session |-> None, key |-> None, found |-> "working"]
EmptyTx == [queue |-> <<>>, evicted |-> {}]

HubInit ==
  /\ sessions = <<>>
  /\ registry = [k \in Keys |-> None]
  /\ lock = None
  /\ handler = [c \in Conns |-> Blank]
  /\ tx = [c \in Conns |-> EmptyTx]
  /\ up = [c \in Conns |-> <<>>]
  /\ wire = [c \in Conns |-> "unused"]

Started == DOMAIN sessions
Attached(s) == {c \in Conns : handler[c].session = s}      \* _clients
Registered == {registry[k] : k \in Keys} \ {None}

----------------------------------------------------------------------------
(* Frames.  A column carries its seq and its epoch; `announces' is the set *)
(* of epochs whose EpochStart the frame holds                              *)

Frame(kind, s, announces, columns, protected) ==
  [kind |-> kind, session |-> s, announces |-> announces,
   columns |-> columns, protected |-> protected]

\* Mutant of Column: counts from zero
ColumnFromZero(seq, epoch) == [seq |-> seq - 1, epoch |-> epoch]

Column(seq, epoch) == [seq |-> seq, epoch |-> epoch]

\* Mutant of Recent: the oldest columns of the ring instead of the newest
RecentOldest(cols) ==
  [i \in 1 .. (IF Len(cols) < SnapshotCols THEN Len(cols) ELSE SnapshotCols) |->
     Column(i, cols[i])]

\* grid.history(_T_MAX, SNAPSHOT_COLS): the newest columns, oldest first
Recent(cols) ==
  [i \in 1 .. (IF Len(cols) < SnapshotCols THEN Len(cols) ELSE SnapshotCols) |->
     LET seq == i + (IF Len(cols) < SnapshotCols THEN 0 ELSE Len(cols) - SnapshotCols)
     IN Column(seq, cols[seq])]

\* Mutant of Snapshot: announces the current epoch only
SnapshotOfCurrentEpoch(s, cols, epoch) ==
  <<Frame("hello", s, {epoch}, <<>>, TRUE)>>
  \o (IF Recent(cols) = <<>> THEN <<>>
      ELSE <<Frame("columns", s, {}, Recent(cols), TRUE)>>)

\* Hello with an EpochStart for every epoch of the snapshot, then its columns
Snapshot(s, cols, epoch) ==
  LET recent == Recent(cols)
      epochs == {recent[i].epoch : i \in DOMAIN recent} \cup {epoch}
      hello == Frame("hello", s, epochs, <<>>, TRUE)
  IN IF recent = <<>> THEN <<hello>>
     ELSE <<hello, Frame("columns", s, {}, recent, TRUE)>>

\* ClientTx.offer: beyond the cap the oldest unprotected frame goes, and a
\* queue of protected frames overflows
Evictable(queue) == {i \in DOMAIN queue : ~queue[i].protected}

Offer(box, frame) ==
  IF Len(box.queue) < QueueCap \/ frame.protected \/ Evictable(box.queue) = {}
  THEN [box EXCEPT !.queue = Append(@, frame)]
  ELSE LET oldest == CHOOSE i \in Evictable(box.queue) :
                       \A j \in Evictable(box.queue) : i <= j
       IN [queue |-> Append(RemoveAt(box.queue, oldest), frame),
           evicted |-> box.evicted \cup {box.queue[oldest]}]

OfferAll(box, frames) == FoldLeft(Offer, box, frames)

----------------------------------------------------------------------------
(* Sessions *)

\* _on_book: the columns an interval boundary finalizes are broadcast first,
\* then the EpochStart if the mid has left the frame
Book(s) ==
  /\ sessions[s].state = "live"
  /\ \E n \in 0 .. 1, anchor \in 0 .. 1 :
       LET old == sessions[s]
           seq == Len(old.columns) + n
           frames ==
             (IF n = 1 THEN <<Frame("columns", s, {}, <<Column(seq, old.epoch)>>, FALSE)>>
                       ELSE <<>>)
             \o (IF anchor = 1 THEN <<Frame("epoch", s, {old.epoch + 1}, <<>>, FALSE)>>
                               ELSE <<>>)
       IN /\ n + anchor > 0
          /\ seq <= MaxColumns /\ old.epoch + anchor <= MaxEpoch
          /\ sessions' = [sessions EXCEPT
               ![s].columns = IF n = 1 THEN Append(@, old.epoch) ELSE @,
               ![s].epoch = @ + anchor]
          /\ tx' = [c \in Conns |->
               IF c \in Attached(s) THEN OfferAll(tx[c], frames) ELSE tx[c]]
  /\ UNCHANGED <<registry, lock, handler, up, wire>>

Crashes(s) ==
  /\ sessions[s].state = "live"
  /\ Cardinality({t \in Started : sessions[t].state = "crashed"}) < MaxCrashes
  /\ sessions' = [sessions EXCEPT ![s].state = "crashed"]
  /\ UNCHANGED <<registry, lock, handler, up, wire>>

\* Mutant of RunCrashes: the clients are not told
RunCrashesQuietly(s) == Crashes(s) /\ UNCHANGED tx

\* run() dies of an exception, and the clients are told that the feed is
\* degraded.  The session stays registered, and nothing starts it again
RunCrashes(s) ==
  LET status == Frame("status", s, {}, <<>>, FALSE)
  IN /\ Crashes(s)
     /\ tx' = [c \in Conns |->
          IF c \in Attached(s) THEN Offer(tx[c], status) ELSE tx[c]]

\* Mutant of Detach: any client's leaving tears the session down
DetachStops(c) ==
  LET s == handler[c].session
  IN /\ sessions' = [t \in Started |->
          IF t = s THEN [sessions[t] EXCEPT !.state = "stopped"] ELSE sessions[t]]
     /\ registry' = [k \in Keys |->
          IF s # None /\ registry[k] = s THEN None ELSE registry[k]]

\* FeedHub.unsubscribe: the last client's leaving tears the session down
Detach(c) ==
  LET s == handler[c].session
      last == s # None /\ Attached(s) = {c}
  IN /\ sessions' = IF last THEN [sessions EXCEPT ![s].state = "stopped"]
                            ELSE sessions
     /\ registry' = [k \in Keys |->
          IF last /\ registry[k] = s THEN None ELSE registry[k]]

----------------------------------------------------------------------------
(* The receive loop of a connection *)

Receives(c, kind) ==
  /\ handler[c].pc = "idle"
  /\ up[c] # <<>> /\ Head(up[c]).kind = kind
  /\ up' = [up EXCEPT ![c] = Tail(@)]

ReceiveUnsubscribe(c) ==
  /\ Receives(c, "unsubscribe")
  /\ Detach(c)
  /\ handler' = [handler EXCEPT ![c] = [Blank EXCEPT !.pc = "idle"]]
  /\ UNCHANGED <<lock, tx, wire>>

\* _subscribe drops the old session, then queues for the hub's lock.  What is
\* queued in the ClientTx stays there.  (A free lock is taken at once in the
\* code; letting others run before only adds behaviours.)
ReceiveSubscribe(c) ==
  /\ Receives(c, "subscribe")
  /\ Detach(c)
  /\ handler' = [handler EXCEPT
       ![c] = [Blank EXCEPT !.pc = "wait", !.key = Head(up[c]).key]]
  /\ UNCHANGED <<lock, tx, wire>>

Turn(c) == handler[c].pc = "wait" /\ lock = None

AttachTo(c, s, cols, epoch) ==
  /\ handler' = [handler EXCEPT
       ![c] = [pc |-> "idle", session |-> s, key |-> None,
               found |-> IF sessions[s].state = "crashed" THEN "crashed" ELSE "working"]]
  /\ tx' = [tx EXCEPT ![c] = OfferAll(@, Snapshot(s, cols, epoch))]

\* FeedHub.subscribe on a registered key: no await until the snapshot is queued
SubscribeJoins(c) ==
  LET s == registry[handler[c].key]
  IN /\ Turn(c) /\ s # None
     /\ AttachTo(c, s, sessions[s].columns, sessions[s].epoch)
     /\ UNCHANGED <<hub, up, wire>>

\* Mutant of SubscribeBoots: no limit check
SubscribeBootsPastLimit(c) ==
  LET k == handler[c].key
  IN /\ Turn(c) /\ registry[k] = None
     /\ Len(sessions) < MaxStarts
     /\ sessions' = Append(sessions,
          [key |-> k, state |-> "booting", columns |-> <<>>, epoch |-> 0])
     /\ registry' = [registry EXCEPT ![k] = Len(sessions) + 1]
     /\ lock' = c
     /\ handler' = [handler EXCEPT ![c].pc = "boot"]
     /\ UNCHANGED <<tx, up, wire>>

\* On a new key: the session is registered before the await of its boot,
\* which holds the lock
SubscribeBoots(c) ==
  LET k == handler[c].key
  IN /\ Turn(c) /\ registry[k] = None
     /\ Cardinality(Registered) < MaxSessions
     /\ Len(sessions) < MaxStarts
     /\ sessions' = Append(sessions,
          [key |-> k, state |-> "booting", columns |-> <<>>, epoch |-> 0])
     /\ registry' = [registry EXCEPT ![k] = Len(sessions) + 1]
     /\ lock' = c
     /\ handler' = [handler EXCEPT ![c].pc = "boot"]
     /\ UNCHANGED <<tx, up, wire>>

\* The backfill returns its columns, or nothing and the session starts cold
SubscribeBooted(c) ==
  LET s == registry[handler[c].key]
  IN /\ handler[c].pc = "boot"
     /\ \E n \in {0, Backfill} :
          LET cols == [i \in 1 .. n |-> 0]
          IN /\ sessions' = [sessions EXCEPT ![s].state = "live", ![s].columns = cols]
             /\ AttachTo(c, s, cols, 0)
     /\ lock' = None
     /\ UNCHANGED <<registry, up, wire>>

\* The connection object is dropped, its queue with it
Gone(c) ==
  /\ handler' = [handler EXCEPT ![c] = [Blank EXCEPT !.pc = "gone"]]
  /\ tx' = [tx EXCEPT ![c].queue = <<>>]

\* SessionLimitError: the socket is closed with 1013
SubscribeRefused(c) ==
  /\ Turn(c)
  /\ registry[handler[c].key] = None /\ Cardinality(Registered) >= MaxSessions
  /\ Gone(c)
  /\ wire' = [wire EXCEPT ![c] = "cut"]
  /\ UNCHANGED <<hub, up>>

\* receive() reports the disconnect once the messages before it are handled
Disconnected(c) ==
  /\ handler[c].pc = "idle" /\ wire[c] = "cut" /\ up[c] = <<>>
  /\ Detach(c)
  /\ Gone(c)
  /\ UNCHANGED <<lock, up, wire>>

Handle(c) ==
  \/ ReceiveUnsubscribe(c) \/ ReceiveSubscribe(c) \/ Disconnected(c)
  \/ SubscribeBooted(c)

Subscribing(c) == SubscribeJoins(c) \/ SubscribeBoots(c) \/ SubscribeRefused(c)

Feed(s) == Book(s) \/ RunCrashes(s)

HubNext == (\E c \in Conns : Handle(c) \/ Subscribing(c)) \/ (\E s \in Started : Feed(s))

----------------------------------------------------------------------------
Frames == [kind: {"hello", "columns", "epoch", "status"}, session: 1 .. MaxStarts,
           announces: SUBSET (0 .. MaxEpoch),
           columns: Seq([seq: 1 .. MaxColumns, epoch: 0 .. MaxEpoch]),
           protected: BOOLEAN]

HubTypeOK ==
  /\ sessions \in Seq([key: Keys, state: {"booting", "live", "crashed", "stopped"},
                       columns: Seq(0 .. MaxEpoch), epoch: 0 .. MaxEpoch])
  /\ registry \in [Keys -> 0 .. MaxStarts]
  /\ lock \in Conns \cup {None}
  /\ handler \in [Conns -> [pc: {"absent", "idle", "wait", "boot", "gone"},
                            session: 0 .. MaxStarts, key: Keys \cup {None},
                            found: {"working", "crashed"}]]
  /\ tx \in [Conns -> [queue: Seq(Frames), evicted: SUBSET Frames]]
  /\ up \in [Conns -> Seq([kind: {"subscribe", "unsubscribe"}, key: Keys \cup {None}])]
  /\ wire \in [Conns -> {"unused", "opening", "open", "cut"}]

Held(s) ==
  IF sessions[s].state = "stopped"
  THEN s \notin Registered /\ Attached(s) = {}
  ELSE /\ registry[sessions[s].key] = s
       /\ \/ sessions[s].state # "booting" /\ Attached(s) # {}
          \/ lock # None /\ handler[lock].pc = "boot"
                          /\ handler[lock].key = sessions[s].key

\* A feed is held as long as someone watches it and no longer, also when its
\* run loop has crashed: every session that is not stopped is in the registry
\* under its key, with a client or with a subscriber that boots it; and a
\* stopped one has no client.
FeedsAreHeld == \A s \in Started : Held(s)

\* At most max_sessions feeds run, however subscribes and boots interleave.
FeedLimit == Cardinality({s \in Started : sessions[s].state # "stopped"}) <= MaxSessions
=============================================================================
