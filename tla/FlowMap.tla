------------------------------- MODULE FlowMap -------------------------------
(***************************************************************************)
(* FlowMap end to end: the panes' Connection (net/connection.ts, driven by *)
(* state/store.ts) over sockets that may be cut at any time, against the   *)
(* hub of FlowHub.                                                         *)
(*                                                                         *)
(* A Connection keeps one subscription across reconnects, the epochs it    *)
(* was told of, and for each epoch the seq of the last finalized column it *)
(* forwarded, by which it swallows duplicates.  `shown' and `swallowed'    *)
(* record what it did with each column; no step reads them.                *)
(***************************************************************************)
EXTENDS FlowHub

CONSTANTS
  Panes,       \* Connection objects
  MaxCalls,    \* bound: calls of subscribe() and close()
  MaxCuts      \* bound: failures of the network

ASSUME PaneAssumption == MaxCalls \in Nat /\ MaxCuts \in Nat

VARIABLES
  view,        \* the fields of each Connection
  shown,       \* columns forwarded to the renderer: <<session, seq>>
  swallowed,   \* columns discarded as duplicates, with whom the cursor was of
  unframed,    \* columns whose epoch was unknown when they were forwarded
  calls, cuts

paneVars == <<view, shown, swallowed, unframed, calls, cuts>>
vars == <<hubVars, paneVars>>

Epochs == 0 .. MaxEpoch

\* desired/active: desiredSub, activeSub; cursor: lastColSeq, by epoch; `of'
\* is the session of the column that set it
NewConnection ==
  [desired |-> None, active |-> None, socket |-> None, open |-> FALSE,
   timer |-> FALSE, session |-> None, epochs |-> {}, degraded |-> FALSE,
   cursor |-> [e \in Epochs |-> [seq |-> None, of |-> None]]]

Init ==
  /\ HubInit
  /\ view = [p \in Panes |-> NewConnection]
  /\ shown = [p \in Panes |-> {}]
  /\ swallowed = [p \in Panes |-> {}]
  /\ unframed = [p \in Panes |-> {}]
  /\ calls = 0 /\ cuts = 0

\* resetSessionState
Rewound(v) ==
  [v EXCEPT !.session = None, !.epochs = {}, !.cursor = NewConnection.cursor,
            !.degraded = FALSE]

Message(kind, k) == [kind |-> kind, key |-> k]

\* sendSubscribe, on an open socket
Sent(v) ==
  IF v.active = v.desired \/ v.desired = None THEN <<>>
  ELSE (IF v.active = None THEN <<>> ELSE <<Message("unsubscribe", None)>>)
       \o <<Message("subscribe", v.desired)>>

Unused == {c \in Conns : wire[c] = "unused"}
IsNext(c) == c \in Unused /\ \A d \in Unused : c <= d

\* openSocket cancels a pending reconnect timer
Opens(p, v) ==
  \E c \in Conns :
    /\ IsNext(c)
    /\ view' = [view EXCEPT ![p] =
         [v EXCEPT !.socket = c, !.open = FALSE, !.timer = FALSE]]
    /\ wire' = [wire EXCEPT ![c] = "opening"]

----------------------------------------------------------------------------
\* subscribe(): a different stream rewinds the session state; it is sent now
\* on an open socket, else on the next open
Subscribe(p, k) ==
  LET v == view[p]
      next == [(IF v.desired = k THEN v ELSE Rewound(v)) EXCEPT !.desired = k]
  IN /\ calls < MaxCalls /\ calls' = calls + 1
     /\ \/ /\ v.socket # None /\ v.open
           /\ view' = [view EXCEPT ![p] = [next EXCEPT !.active = k]]
           /\ up' = [up EXCEPT ![v.socket] = @ \o Sent(next)]
           /\ UNCHANGED wire
        \/ /\ v.socket # None /\ ~v.open
           /\ view' = [view EXCEPT ![p] = next]
           /\ UNCHANGED <<up, wire>>
        \/ v.socket = None /\ Opens(p, next) /\ UNCHANGED up
     /\ UNCHANGED <<hub, handler, tx, shown, swallowed, unframed, cuts>>

\* disconnect(): close(), and the store forgets the Connection
Close(p) ==
  LET c == view[p].socket
  IN /\ view[p].desired # None
     /\ calls < MaxCalls /\ calls' = calls + 1
     /\ view' = [view EXCEPT ![p] = NewConnection]
     /\ wire' = [d \in Conns |-> IF d = c THEN "cut" ELSE wire[d]]
     /\ shown' = [shown EXCEPT ![p] = {}]
     /\ swallowed' = [swallowed EXCEPT ![p] = {}]
     /\ unframed' = [unframed EXCEPT ![p] = {}]
     /\ UNCHANGED <<hub, handler, tx, up, cuts>>

\* onSocketOpen, and the server's accept
SocketOpens(p) ==
  LET c == view[p].socket
      v == [view[p] EXCEPT !.open = TRUE, !.active = None]
  IN /\ c # None /\ wire[c] = "opening"
     /\ wire' = [wire EXCEPT ![c] = "open"]
     /\ handler' = [handler EXCEPT ![c].pc = "idle"]
     /\ up' = [up EXCEPT ![c] = Sent(v)]
     /\ view' = [view EXCEPT ![p] = [v EXCEPT !.active = v.desired]]
     /\ UNCHANGED <<hub, tx, shown, swallowed, unframed, calls, cuts>>

\* Mutant of SocketCloses: no reconnect is scheduled
SocketClosesForGood(p) ==
  LET c == view[p].socket
  IN /\ c # None /\ wire[c] = "cut"
     /\ view' = [view EXCEPT ![p].socket = None, ![p].open = FALSE,
                             ![p].active = None]
     /\ UNCHANGED <<hubVars, shown, swallowed, unframed, calls, cuts>>

\* onSocketClose: whatever the code, a reconnect is scheduled
SocketCloses(p) ==
  LET c == view[p].socket
  IN /\ c # None /\ wire[c] = "cut"
     /\ view' = [view EXCEPT ![p].socket = None, ![p].open = FALSE,
                             ![p].active = None, ![p].timer = TRUE]
     /\ UNCHANGED <<hubVars, shown, swallowed, unframed, calls, cuts>>

ReconnectTimer(p) ==
  /\ view[p].timer /\ Opens(p, view[p])
  /\ UNCHANGED <<hub, handler, tx, up, shown, swallowed, unframed, calls, cuts>>

\* The network fails, or the server aborts a silent peer; messages on their
\* way to the server may be lost
Cut(c) ==
  /\ wire[c] \in {"opening", "open"}
  /\ cuts < MaxCuts /\ cuts' = cuts + 1
  /\ wire' = [wire EXCEPT ![c] = "cut"]
  /\ \E n \in 0 .. Len(up[c]) : up' = [up EXCEPT ![c] = SubSeq(@, 1, n)]
  /\ UNCHANGED <<hub, handler, tx, view, shown, swallowed, unframed, calls>>

----------------------------------------------------------------------------
(* One frame of the flush loop reaches the pane: onSocketMessage, route *)

\* Mutant of Duplicate: swallows the column after the cursor, too
DuplicateNext(cursor, col) ==
  cursor[col.epoch].seq # None /\ col.seq <= cursor[col.epoch].seq + 1

\* isDuplicateFinalizedDepth
Duplicate(cursor, col) ==
  cursor[col.epoch].seq # None /\ col.seq <= cursor[col.epoch].seq

Advance(cursor, s, col) ==
  IF Duplicate(cursor, col) THEN cursor
  ELSE [cursor EXCEPT ![col.epoch] = [seq |-> col.seq, of |-> s]]

\* The cursor once the first i columns of a frame are routed
After(cursor, frame, i) ==
  LET step(u, col) == Advance(u, frame.session, col)
  IN FoldLeft(step, cursor, SubSeq(frame.columns, 1, i))

Learn(v, frame) ==
  [v EXCEPT !.epochs = @ \cup frame.announces,
            !.session = IF frame.kind = "hello" THEN frame.session ELSE @,
            !.degraded = @ \/ frame.kind = "status"]

Deliver(p) ==
  LET c == view[p].socket
      frame == Head(tx[c].queue)
      v == Learn(view[p], frame)
      at(i) == After(v.cursor, frame, i)
      dup(i) == Duplicate(at(i - 1), frame.columns[i])
      fresh == {i \in DOMAIN frame.columns : ~dup(i)}
  IN /\ c # None /\ view[p].open /\ wire[c] = "open" /\ tx[c].queue # <<>>
     /\ tx' = [tx EXCEPT ![c].queue = Tail(@)]
     /\ view' = [view EXCEPT ![p] = [v EXCEPT !.cursor = at(Len(frame.columns))]]
     /\ shown' = [shown EXCEPT ![p] = @ \cup
          {<<frame.session, frame.columns[i].seq>> : i \in fresh}]
     /\ swallowed' = [swallowed EXCEPT ![p] = @ \cup
          {[session |-> frame.session, seq |-> frame.columns[i].seq,
            of |-> at(i - 1)[frame.columns[i].epoch].of]
           : i \in DOMAIN frame.columns \ fresh}]
     /\ unframed' = [unframed EXCEPT ![p] = @ \cup
          {<<frame.session, frame.columns[i].epoch>> :
             i \in {j \in fresh : v.session = frame.session
                                  /\ frame.columns[j].epoch \notin v.epochs}}]
     /\ UNCHANGED <<hub, handler, up, wire, calls, cuts>>

PaneStep(p) == SocketOpens(p) \/ SocketCloses(p) \/ ReconnectTimer(p) \/ Deliver(p)

Next ==
  \/ HubNext /\ UNCHANGED paneVars
  \/ \E p \in Panes : PaneStep(p) \/ Close(p) \/ \E k \in Keys : Subscribe(p, k)
  \/ \E c \in Conns : Cut(c)

Spec == Init /\ [][Next]_vars

\* asyncio resumes every ready task, its Lock is first come first served, and
\* a backfill has a timeout; the browser runs its callbacks and timers
FairSpec ==
  /\ Spec
  /\ \A c \in Conns : WF_vars(Handle(c) /\ UNCHANGED paneVars)
  /\ \A c \in Conns : SF_vars(Subscribing(c) /\ UNCHANGED paneVars)
  /\ \A p \in Panes : WF_vars(PaneStep(p))

----------------------------------------------------------------------------
TypeOK ==
  /\ HubTypeOK
  /\ view \in [Panes ->
       [desired: Keys \cup {None}, active: Keys \cup {None},
        socket: Conns \cup {None}, open: BOOLEAN, timer: BOOLEAN,
        session: 0 .. MaxStarts, epochs: SUBSET Epochs,
        degraded: BOOLEAN,
        cursor: [Epochs -> [seq: 0 .. MaxColumns, of: 0 .. MaxStarts]]]]
  /\ \A p \in Panes : shown[p] \subseteq (1 .. MaxStarts) \X (1 .. MaxColumns)
  /\ calls \in 0 .. MaxCalls /\ cuts \in 0 .. MaxCuts

Evicted == UNION {tx[c].evicted : c \in Conns}

\* What a Connection swallows by a cursor its own session has set, it has
\* forwarded before, or lost before to another session's cursor: neither the
\* re-sent snapshot of a reconnect to a session another pane kept alive, nor
\* an epoch bump in between, loses a column (isDuplicateFinalizedDepth).
\* Frames the send queue evicted are the exception: their re-send comes too
\* late, and history paging has to repair it.
OwnCursorIsExact ==
  \A p \in Panes : \A w \in swallowed[p] :
    w.of = w.session =>
      \/ <<w.session, w.seq>> \in shown[p]
      \/ \E x \in swallowed[p] :
           x.session = w.session /\ x.seq = w.seq /\ x.of # x.session
      \/ \E frame \in Evicted : frame.session = w.session
           /\ \E i \in DOMAIN frame.columns : frame.columns[i].seq = w.seq

\* "The client must hold params for each epoch before decoding its columns"
\* (session.py:446-447): a column reaches the pane of its session after the
\* EpochStart that describes it, through every snapshot and re-anchor, unless
\* the full queue evicted that EpochStart.
EpochsAreKnown ==
  \A p \in Panes : \A u \in unframed[p] :
    \E frame \in Evicted : frame.session = u[1] /\ u[2] \in frame.announces

\* The frames queued since the last hello, and the columns of frames in a row
Current(queue) ==
  LET hellos == {i \in DOMAIN queue : queue[i].kind = "hello"}
  IN SubSeq(queue, Max(hellos \cup {1}), Len(queue))
Seqs(frame) == [j \in DOMAIN frame.columns |-> frame.columns[j].seq]
Flat(frames) ==
  LET join(acc, frame) == acc \o Seqs(frame) IN FoldLeft(join, <<>>, frames)

\* "Per-client frame order is exactly stream order" (session.py:27-28): the
\* columns that wait for an attached client run on without a gap from its
\* snapshot to the newest column of the session, and what is older than them
\* has reached the pane, unless the queue had to evict.
SeamIsExact ==
  \A c \in Conns :
    LET s == handler[c].session
        seqs == Flat(Current(tx[c].queue))
        newest == Len(sessions[s].columns)
    IN s # None /\ tx[c].evicted = {} =>
         /\ \A j \in DOMAIN seqs : seqs[j] = newest - Len(seqs) + j
         /\ \A p \in Panes :
              seqs = <<>> /\ newest > 0 /\ view[p].socket = c =>
                \/ <<s, newest>> \in shown[p]
                \/ \E w \in swallowed[p] : w.session = s /\ w.seq = newest

\* The dedup cursor "is exactly what swallows the reconnect snapshot's
\* re-sends" (connection.ts:257-258): no column is swallowed that this
\* Connection has not forwarded.
OnlyResendsAreSwallowed ==
  \A p \in Panes : \A w \in swallowed[p] : <<w.session, w.seq>> \in shown[p]

\* Whoever watches a feed when its run loop crashes is shown that it is
\* degraded (session.py:289), unless the Status is still in the queue, the
\* queue evicted it, or the pane has asked for another stream.  Who attaches
\* later is told nothing.
CrashIsShown ==
  \A p \in Panes :
    LET c == view[p].socket
        s == handler[c].session
        watching == c # None /\ wire[c] = "open" /\ up[c] = <<>> /\ s # None
    IN watching /\ sessions[s].state = "crashed" /\ handler[c].found # "crashed" =>
         \/ view[p].degraded
         \/ \E frame \in Range(tx[c].queue) \cup tx[c].evicted :
              frame.session = s /\ frame.kind = "status"

\* Served: the pane's connection is attached to a session of the stream it
\* wants, which delivers unless its run loop has crashed
Served(p) ==
  LET v == view[p]
  IN /\ v.socket # None
     /\ handler[v.socket].session # None
     /\ sessions[handler[v.socket].session].key = v.desired
     /\ sessions[handler[v.socket].session].state \in {"live", "crashed"}

\* Through cuts, refusals, switches and half-open sockets every pane that
\* wants a stream ends up served.  The bounds may end the story earlier: no
\* socket or no session is left to create.
PanesAreServed ==
  \A p \in Panes :
    <>[](\/ view[p].desired = None \/ Served(p)
         \/ Unused = {} \/ Len(sessions) = MaxStarts)
=============================================================================
