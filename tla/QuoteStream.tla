------------------------------ MODULE QuoteStream ------------------------------
(***************************************************************************)
(* The live quotes of one symbol in the web view, three layers on one      *)
(* socket:                                                                 *)
(*   - subscribeQuote (ui/src/lib/stream.ts) opens the socket, reconnects  *)
(*     after a backoff, and waits while the tab is hidden;                 *)
(*   - subscribeQuoteStream (ui/src/lib/market-data.ts) turns its statuses *)
(*     into a transport state and watches for silence;                     *)
(*   - subscribeQuoteMultiplexed shares it between panes, whose rows show  *)
(*     the transport state (useLiveQuotesInternal).                        *)
(*                                                                         *)
(* Of the sidecar only Backend is known: when it serves, and whether the   *)
(* port the web view holds is its port.                                    *)
(***************************************************************************)
EXTENDS Backend, Integers

CONSTANTS
  Panes,       \* hook instances that may show the symbol
  MaxStale     \* STALE_RECONNECT_AFTER_INTERVALS
ASSUME MaxStaleAssumption == MaxStale \in Nat \ {0}

VARIABLES
  panes,       \* the listeners of the multiplex entry; none: no entry
  rows,        \* per pane: the transport state its row shows
  hidden,      \* document.visibilityState
  socket,      \* `socket': none, connecting, open
  reach,       \* its other end is the sidecar that serves, and talks
  dying,       \* sockets dropped by reconnectNow whose onclose is to come
  timer,       \* reconnectTimer is set
  listening,   \* visibilityListener is set
  transport,   \* currentState of the wrapper
  ever,        \* everConnected
  watched,     \* staleTimer is set
  silent       \* staleIntervals

stream == <<socket, reach, dying, timer, listening>>
wrapper == <<transport, ever, watched, silent>>
vars == <<backend, panes, rows, hidden, stream, wrapper>>

Transport == {"idle", "connecting", "live", "stale", "reconnecting", "offline",
              "error"}

TypeOK ==
  /\ up \in BOOLEAN /\ known \in BOOLEAN /\ lost \in BOOLEAN
  /\ panes \in SUBSET Panes
  /\ rows \in [Panes -> Transport]
  /\ hidden \in BOOLEAN
  /\ socket \in {"none", "connecting", "open"} /\ reach \in BOOLEAN
  /\ dying \in Nat /\ timer \in BOOLEAN /\ listening \in BOOLEAN
  /\ transport \in Transport /\ ever \in BOOLEAN
  /\ watched \in BOOLEAN /\ silent \in 0 .. MaxStale - 1

Init ==
  /\ BackendInit
  /\ panes = {} /\ rows = [p \in Panes |-> "idle"]
  /\ hidden \in BOOLEAN
  /\ socket = "none" /\ reach = FALSE /\ dying = 0
  /\ timer = FALSE /\ listening = FALSE
  /\ transport = "idle" /\ ever = FALSE /\ watched = FALSE /\ silent = 0

----------------------------------------------------------------------------
(* What the three layers do on the way; each operator fixes what it names  *)

\* The multiplexer's fan-out: every listener's row takes the new state
Shows(ps, state) ==
  /\ transport' = state
  /\ rows' = [p \in Panes |-> IF p \in ps THEN state ELSE rows[p]]

\* onStatus "connecting" and "offline", as the wrapper renames them
Retrying(connected) == IF connected THEN "reconnecting" ELSE "connecting"
Lost(connected) == IF connected THEN "reconnecting" ELSE "offline"

\* A new socket goes to the port the web view holds
Reaches == up /\ known

\* Mutant of Connect: nothing is opened in a hidden tab, nor planned
ConnectVisible(ps, connected, asleep) ==
  /\ socket' = IF asleep THEN "none" ELSE "connecting"
  /\ reach' = Reaches
  /\ Shows(ps, Retrying(connected))
  /\ UNCHANGED listening

\* connect: a hidden tab gets a listener instead of a socket
Connect(ps, connected, asleep) ==
  IF asleep
  THEN /\ listening' = TRUE
       /\ Shows(ps, Lost(connected))
       /\ UNCHANGED <<socket, reach>>
  ELSE /\ socket' = "connecting"
       /\ reach' = Reaches
       /\ Shows(ps, Retrying(connected))
       /\ UNCHANGED listening

\* onclose: offline, then scheduleReconnect.  The toast is left out
Closes ==
  /\ Shows(panes, Lost(ever))
  /\ IF hidden THEN listening' = TRUE /\ UNCHANGED timer
     ELSE timer' = TRUE /\ UNCHANGED listening

\* Mutant of Lives: silence is watched for from the first tick only
LivesUnwatched ==
  /\ Shows(panes, "live")
  /\ ever' = TRUE /\ silent' = 0
  /\ watched' = (socket = "open")

\* A tick, or onStatus "live"
Lives ==
  /\ Shows(panes, "live")
  /\ ever' = TRUE /\ silent' = 0 /\ watched' = TRUE

----------------------------------------------------------------------------
(* The panes: effect and cleanup of useLiveQuotesInternal *)

\* The first pane opens the upstream
Opens(p) ==
  /\ panes = {} /\ panes' = {p}
  /\ Connect({p}, FALSE, hidden)
  /\ ever' = FALSE /\ watched' = FALSE /\ silent' = 0
  /\ dying' = 0 /\ timer' = FALSE
  /\ UNCHANGED <<backend, hidden>>

\* A late pane gets the current state as a replay
Joins(p) ==
  /\ panes # {} /\ p \notin panes
  /\ panes' = panes \cup {p}
  /\ rows' = [rows EXCEPT ![p] = transport]
  /\ UNCHANGED <<backend, hidden, stream, wrapper>>

\* The last one to leave closes the upstream: `stop'.  Its row stays
Leaves(p) ==
  /\ p \in panes /\ panes' = panes \ {p}
  /\ IF panes = {p}
     THEN /\ socket' = "none" /\ reach' = FALSE /\ dying' = 0
          /\ timer' = FALSE /\ listening' = FALSE
          /\ transport' = "idle" /\ ever' = FALSE
          /\ watched' = FALSE /\ silent' = 0
     ELSE UNCHANGED <<stream, wrapper>>
  /\ UNCHANGED <<backend, rows, hidden>>

----------------------------------------------------------------------------
(* The socket *)

SocketOpens ==
  /\ socket = "connecting" /\ reach
  /\ socket' = "open"
  /\ Lives
  /\ UNCHANGED <<backend, panes, hidden, reach, dying, timer, listening>>

\* onerror, if any, then onclose in the same task
SocketCloses ==
  /\ socket # "none"
  /\ socket' = "none" /\ reach' = FALSE
  /\ Closes
  /\ UNCHANGED <<backend, panes, hidden, dying, ever, watched, silent>>

TickArrives ==
  /\ socket = "open" /\ reach
  /\ Lives
  /\ UNCHANGED <<backend, panes, hidden, stream>>

\* A frame that is no tick, or reports an error
BadFrame ==
  /\ socket = "open" /\ reach
  /\ Shows(panes, "error")
  /\ UNCHANGED <<backend, panes, hidden, stream, ever, watched, silent>>

\* The network or the exchange falls silent: a half-open socket
Mutes ==
  /\ socket # "none" /\ reach
  /\ reach' = FALSE
  /\ UNCHANGED <<backend, panes, rows, hidden, socket, dying, timer, listening,
                 wrapper>>

----------------------------------------------------------------------------
(* The timers *)

\* Mutant of StaleTimer: stale is the last word
StaleTimerOnly ==
  /\ watched
  /\ Shows(panes, IF transport = "live" THEN "stale" ELSE transport)
  /\ watched' = FALSE
  /\ UNCHANGED <<backend, panes, hidden, stream, ever, silent>>

\* Mutant of StaleTimer: one interval too many
StaleTimerLate ==
  /\ watched
  /\ Shows(panes, IF transport = "live" THEN "stale" ELSE transport)
  /\ IF silent < MaxStale
     THEN silent' = silent + 1 /\ UNCHANGED <<watched, socket, reach, dying>>
     ELSE /\ silent' = 0 /\ watched' = FALSE
          /\ socket' = "none" /\ reach' = FALSE
          /\ dying' = IF socket = "none" THEN dying ELSE dying + 1
  /\ UNCHANGED <<backend, panes, hidden, timer, listening, ever>>

\* staleTimer: the MaxStale-th interval in a row calls reconnectNow
StaleTimer ==
  /\ watched
  /\ Shows(panes, IF transport = "live" THEN "stale" ELSE transport)
  /\ IF silent + 1 < MaxStale
     THEN silent' = silent + 1 /\ UNCHANGED <<watched, socket, reach, dying>>
     ELSE /\ silent' = 0 /\ watched' = FALSE
          /\ socket' = "none" /\ reach' = FALSE
          /\ dying' = IF socket = "none" THEN dying ELSE dying + 1
  /\ UNCHANGED <<backend, panes, hidden, timer, listening, ever>>

\* onclose of a socket that reconnectNow dropped
DeadCloses ==
  /\ dying > 0 /\ dying' = dying - 1
  /\ Closes
  /\ UNCHANGED <<backend, panes, hidden, socket, reach, ever, watched, silent>>

ReconnectTimer ==
  /\ timer /\ timer' = FALSE
  /\ Connect(panes, ever, hidden)
  /\ UNCHANGED <<backend, panes, hidden, dying, ever, watched, silent>>

----------------------------------------------------------------------------
(* The tab and the sidecar *)

TabHides ==
  /\ ~hidden /\ hidden' = TRUE
  /\ UNCHANGED <<backend, panes, rows, stream, wrapper>>

\* visibilityListener, if it is set, takes itself off and connects
TabShows ==
  /\ hidden /\ hidden' = FALSE
  /\ IF listening
     THEN /\ listening' = FALSE
          /\ socket' = "connecting" /\ reach' = Reaches
          /\ Shows(panes, Retrying(ever))
          /\ UNCHANGED <<dying, timer>>
     ELSE UNCHANGED <<stream, rows, transport>>
  /\ UNCHANGED <<backend, panes, ever, watched, silent>>

\* A socket to a sidecar that is gone gets no answer any more
BackendStep ==
  /\ BackendNext
  /\ reach' = (reach /\ up')
  /\ UNCHANGED <<panes, rows, hidden, socket, dying, timer, listening, wrapper>>

----------------------------------------------------------------------------
Next ==
  \/ \E p \in Panes : Opens(p) \/ Joins(p) \/ Leaves(p)
  \/ SocketOpens \/ SocketCloses \/ TickArrives \/ BadFrame \/ Mutes
  \/ StaleTimer \/ DeadCloses \/ ReconnectTimer
  \/ TabHides \/ TabShows \/ BackendStep

Spec == Init /\ [][Next]_vars

\* Timers fire; a connection attempt ends, and one that can be answered is
\* answered in the end; a socket that was told to close reports it.  Nothing
\* obliges a silent socket to close, a tick to come, a tab to be shown
FairSpec ==
  /\ Spec
  /\ SF_vars(SocketOpens)
  /\ WF_vars(socket = "connecting" /\ SocketCloses)
  /\ WF_vars(StaleTimer) /\ WF_vars(DeadCloses) /\ WF_vars(ReconnectTimer)

----------------------------------------------------------------------------
\* While a pane shows the symbol there is exactly one way forward: a socket,
\* one that is about to report its end, a reconnect timer, or the wait for
\* the tab.  Two would double the ticks, none strands the panes for ever;
\* without panes there is nothing left at all.
OneWayForward ==
  (IF socket = "none" THEN 0 ELSE 1) + dying + (IF timer THEN 1 ELSE 0)
    + (IF listening THEN 1 ELSE 0) = (IF panes = {} THEN 0 ELSE 1)

\* Every subscribed pane shows the state of the shared stream, the one that
\* joined late too; LIVE is only said of an open socket, and every open
\* socket is watched for silence, so that a half-open one is noticed
\* (UI-ROBUSTNESS F3).
LiveIsWatched ==
  /\ \A p \in panes : rows[p] = transport
  /\ transport = "live" => socket = "open"
  /\ socket = "open" => watched
  /\ watched => panes # {}

\* A stream that has gone silent does not stay LIVE.
SilenceShows == transport = "live" /\ ~reach ~> transport # "live" \/ reach

\* With a pane open in a visible tab, a sidecar that serves and a port that
\* is not lost, the stream is live again and again: whatever closes, hangs
\* or falls silent in between, and however often the tab was hidden.
PanesGoLive ==
  Settles =>
    []<>(transport = "live" \/ panes = {} \/ hidden \/ ~up \/ lost)
=============================================================================
