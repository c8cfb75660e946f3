--------------------------- MODULE QuoteStreamProofs ---------------------------
(***************************************************************************)
(* The safety properties of QuoteStream, for any number of panes and any   *)
(* stale limit.  OneWay carries the others: an open socket excludes *)
(* a pending reconnect, and belongs to a pane.                             *)
(***************************************************************************)
EXTENDS QuoteStream, TLAPS

\* OneWayForward without its sum: of the four ways no two are there at once
OneWay ==
  /\ dying \in {0, 1}
  /\ socket # "none" => dying = 0 /\ timer = FALSE /\ listening = FALSE
  /\ dying # 0 => timer = FALSE /\ listening = FALSE
  /\ timer = TRUE => listening = FALSE
  /\ panes = {} <=> /\ socket = "none" /\ dying = 0
                    /\ timer = FALSE /\ listening = FALSE

Inv == TypeOK /\ OneWay /\ LiveIsWatched

LEMMA OneWayIsOneWay == TypeOK /\ OneWay => OneWayForward
<1> SUFFICES ASSUME TypeOK, OneWay PROVE OneWayForward
  OBVIOUS
<1> DEFINE s == IF socket = "none" THEN 0 ELSE 1
           t == IF timer THEN 1 ELSE 0
           l == IF listening THEN 1 ELSE 0
<1>1. /\ socket = "none" => s = 0
      /\ socket # "none" => s = 1
      /\ timer = TRUE => t = 1
      /\ timer = FALSE => t = 0
      /\ listening = TRUE => l = 1
      /\ listening = FALSE => l = 0
  BY DEF TypeOK
<1>2. timer \in BOOLEAN /\ listening \in BOOLEAN
  BY DEF TypeOK
<1> HIDE DEF s, t, l
<1>3. s + dying + t + l = IF panes = {} THEN 0 ELSE 1
  BY <1>1, <1>2, SMT DEF OneWay
<1> QED BY <1>3 DEF OneWayForward, s, t, l

LEMMA InitHolds == Init => Inv
<1> SUFFICES ASSUME Init PROVE Inv
  OBVIOUS
<1>1. silent \in 0 .. MaxStale - 1 /\ dying \in Nat
  BY MaxStaleAssumption, SMT DEF Init
<1>2. TypeOK
  BY <1>1, Zenon DEF Init, BackendInit, TypeOK, Transport
<1>3. OneWay
  BY Zenon DEF Init, OneWay
<1>4. LiveIsWatched
  BY Zenon DEF Init, LiveIsWatched
<1> QED BY <1>2, <1>3, <1>4 DEF Inv

\* The fan-out types and fills the rows
LEMMA RowsShow ==
  ASSUME TypeOK, NEW ps \in SUBSET Panes, NEW state \in Transport,
         Shows(ps, state)
  PROVE  /\ transport' = state
         /\ rows' \in [Panes -> Transport]
         /\ \A p \in ps : rows'[p] = state
BY SMT DEF Shows, TypeOK

LEMMA Names ==
  ASSUME NEW b
  PROVE  /\ Retrying(b) \in Transport /\ Retrying(b) # "live"
         /\ Lost(b) \in Transport /\ Lost(b) # "live"
BY DEF Retrying, Lost, Transport

LEMMA ReachesIsBoolean == TypeOK => Reaches \in BOOLEAN
BY DEF TypeOK, Reaches

LEMMA NextKeeps == Inv /\ [Next]_vars => Inv'
<1> SUFFICES ASSUME Inv, [Next]_vars PROVE Inv'
  OBVIOUS
<1> USE MaxStaleAssumption
<1>0. Reaches \in BOOLEAN
  BY ReachesIsBoolean DEF Inv
<1>1. ASSUME NEW p \in Panes, Opens(p) PROVE Inv'
  <2>1. {p} \in SUBSET Panes /\ panes' = {p}
    BY <1>1 DEF Opens
  <2>2. /\ transport' # "live" /\ transport' \in Transport
        /\ rows' \in [Panes -> Transport] /\ rows'[p] = transport'
    BY <1>1, <2>1, Names, RowsShow DEF Opens, Connect, Inv
  <2>3. TypeOK'
    <3>1. dying' \in Nat /\ silent' \in 0 .. MaxStale - 1
      BY <1>1, SMT DEF Opens
    <3> QED
      BY <1>0, <1>1, <2>1, <2>2, <3>1, Zenon DEF Opens, Connect, Inv, TypeOK, backend
  <2>4. OneWay'
    BY <1>1, <2>1, Zenon DEF Opens, Connect, Inv, TypeOK, OneWay
  <2>5. LiveIsWatched'
    BY <1>1, <2>1, <2>2, Zenon DEF Opens, Connect, Inv, TypeOK, OneWay, LiveIsWatched
  <2> QED BY <2>3, <2>4, <2>5 DEF Inv
<1>2. ASSUME NEW p \in Panes, Joins(p) PROVE Inv'
  BY <1>2, SMT DEF Joins, Inv, TypeOK, OneWay, LiveIsWatched,
       backend, stream, wrapper
<1>3. ASSUME NEW p \in Panes, Leaves(p) PROVE Inv'
  <2>1. /\ dying' \in Nat /\ silent' \in 0 .. MaxStale - 1
        /\ panes' = panes \ {p} /\ p \in panes
    BY <1>3, SMT DEF Leaves, Inv, TypeOK, stream, wrapper
  <2>2. CASE panes = {p}
    <3>1. TypeOK'
      BY <1>3, <2>1, <2>2, Zenon DEF Leaves, Inv, TypeOK, backend, Transport
    <3>2. panes' = {}
      BY <2>1, <2>2
    <3>3. OneWay'
      BY <1>3, <2>2, <3>2, Zenon DEF Leaves, OneWay
    <3>4. LiveIsWatched'
      BY <1>3, <2>2, <3>2, Zenon DEF Leaves, LiveIsWatched
    <3> QED BY <3>1, <3>3, <3>4 DEF Inv
  <2>3. CASE panes # {p}
    <3>1. TypeOK'
      BY <1>3, <2>1, <2>3, Zenon DEF Leaves, Inv, TypeOK, backend, stream, wrapper
    <3>2. panes' # {} /\ panes # {}
      BY <2>1, <2>3
    <3>3. OneWay'
      BY <1>3, <2>3, <3>2, Zenon DEF Leaves, Inv, OneWay, stream
    <3>4. LiveIsWatched'
      BY <1>3, <2>1, <2>3, <3>2, Zenon DEF Leaves, Inv, LiveIsWatched, stream, wrapper
    <3> QED BY <3>1, <3>3, <3>4 DEF Inv
  <2> QED BY <2>2, <2>3
<1>4. CASE SocketOpens
  <2>1. /\ transport' = "live" /\ rows' \in [Panes -> Transport]
        /\ \A p \in panes : rows'[p] = "live"
    BY <1>4, RowsShow DEF SocketOpens, Lives, Inv, TypeOK, Transport
  <2> QED
    BY <1>4, <2>1, SMT DEF SocketOpens, Lives, Inv, TypeOK, OneWay,
         LiveIsWatched, backend, Transport
<1>5. CASE SocketCloses
  <2>1. /\ transport' # "live" /\ transport' \in Transport
        /\ rows' \in [Panes -> Transport]
        /\ \A p \in panes : rows'[p] = transport'
    BY <1>5, RowsShow, Names DEF SocketCloses, Closes, Inv, TypeOK
  <2>2. TypeOK'
    <3>1. dying' \in Nat
      BY <1>5, SMT DEF SocketCloses, Inv, TypeOK
    <3> QED
      BY <1>5, <2>1, <3>1, Zenon DEF SocketCloses, Closes, Inv, TypeOK, backend
  <2>3. OneWay'
    BY <1>5, SMT DEF SocketCloses, Closes, Inv, TypeOK, OneWay
  <2>4. LiveIsWatched'
    BY <1>5, <2>1, SMT DEF SocketCloses, Closes, Inv, TypeOK, OneWay, LiveIsWatched
  <2> QED BY <2>2, <2>3, <2>4 DEF Inv
<1>6. CASE TickArrives
  <2>1. /\ transport' = "live" /\ rows' \in [Panes -> Transport]
        /\ \A p \in panes : rows'[p] = "live"
    BY <1>6, RowsShow DEF TickArrives, Lives, Inv, TypeOK, Transport
  <2> QED
    BY <1>6, <2>1, SMT DEF TickArrives, Lives, Inv, TypeOK, OneWay,
         LiveIsWatched, backend, stream, Transport
<1>7. CASE BadFrame
  <2>1. /\ transport' = "error" /\ rows' \in [Panes -> Transport]
        /\ \A p \in panes : rows'[p] = "error"
    BY <1>7, RowsShow DEF BadFrame, Inv, TypeOK, Transport
  <2> QED
    BY <1>7, <2>1, SMT DEF BadFrame, Inv, TypeOK, OneWay,
         LiveIsWatched, backend, stream, Transport
<1>8. CASE Mutes
  <2>1. TypeOK'
    BY <1>8, Zenon DEF Mutes, Inv, TypeOK, backend, wrapper
  <2>2. OneWay' /\ LiveIsWatched'
    BY <1>8, SMT DEF Mutes, Inv, OneWay, LiveIsWatched, wrapper
  <2> QED BY <2>1, <2>2 DEF Inv
<1>9. CASE StaleTimer
  <2> DEFINE state == IF transport = "live" THEN "stale" ELSE transport
  <2>1. state \in Transport /\ state # "live"
    BY DEF Inv, TypeOK, Transport
  <2>2. /\ transport' = state /\ rows' \in [Panes -> Transport]
        /\ \A p \in panes : rows'[p] = state
    BY <1>9, <2>1, RowsShow DEF StaleTimer, Inv, TypeOK
  <2> HIDE DEF state
  <2>3. CASE silent + 1 < MaxStale
    <3>1. /\ silent' \in 0 .. MaxStale - 1
          /\ UNCHANGED <<watched, socket, reach, dying>>
      BY <1>9, <2>3, SMT DEF StaleTimer, Inv, TypeOK
    <3>2. TypeOK'
      BY <1>9, <2>1, <2>2, <3>1, Zenon DEF StaleTimer, Inv, TypeOK, backend
    <3>3. OneWay'
      BY <1>9, <3>1, Zenon DEF StaleTimer, Inv, OneWay
    <3>4. LiveIsWatched'
      BY <1>9, <2>1, <2>2, <3>1, Zenon DEF StaleTimer, Inv, LiveIsWatched
    <3> QED BY <3>2, <3>3, <3>4 DEF Inv
  <2>4. CASE ~(silent + 1 < MaxStale)
    <3>1. /\ silent' = 0 /\ watched' = FALSE
          /\ socket' = "none" /\ reach' = FALSE
          /\ dying' = IF socket = "none" THEN dying ELSE dying + 1
      BY <1>9, <2>4, Zenon DEF StaleTimer
    <3>2. /\ dying' \in {0, 1} /\ dying' \in Nat
          /\ silent' \in 0 .. MaxStale - 1
          /\ socket # "none" => dying' = 1
          /\ socket = "none" => dying' = dying
          /\ dying' # 0 => socket # "none" \/ dying # 0
      BY <3>1, SMT DEF Inv, OneWay
    <3>3. TypeOK'
      BY <1>9, <2>1, <2>2, <3>1, <3>2, Zenon DEF StaleTimer, Inv, TypeOK, backend
    <3>4. UNCHANGED <<panes, timer, listening>>
      BY <1>9 DEF StaleTimer
    <3>5. OneWay'
      BY <3>1, <3>2, <3>4, SMT DEF Inv, OneWay
    <3>6. LiveIsWatched'
      BY <2>1, <2>2, <3>1, <3>4, Zenon DEF LiveIsWatched
    <3> QED BY <3>3, <3>5, <3>6 DEF Inv
  <2> QED BY <2>3, <2>4
<1>10. CASE DeadCloses
  <2>1. /\ transport' # "live" /\ transport' \in Transport
        /\ rows' \in [Panes -> Transport]
        /\ \A p \in panes : rows'[p] = transport'
    BY <1>10, RowsShow, Names DEF DeadCloses, Closes, Inv, TypeOK
  <2>2. TypeOK'
    <3>1. dying' \in Nat
      BY <1>10, SMT DEF DeadCloses, Inv, TypeOK
    <3> QED
      BY <1>10, <2>1, <3>1, Zenon DEF DeadCloses, Closes, Inv, TypeOK, backend
  <2>3. OneWay'
    BY <1>10, SMT DEF DeadCloses, Closes, Inv, TypeOK, OneWay
  <2>4. LiveIsWatched'
    BY <1>10, <2>1, SMT DEF DeadCloses, Closes, Inv, TypeOK, OneWay, LiveIsWatched
  <2> QED BY <2>2, <2>3, <2>4 DEF Inv
<1>11. CASE ReconnectTimer
  <2>1. /\ transport' # "live" /\ transport' \in Transport
        /\ rows' \in [Panes -> Transport]
        /\ \A p \in panes : rows'[p] = transport'
    BY <1>11, RowsShow, Names DEF ReconnectTimer, Connect, Inv, TypeOK
  <2>2. TypeOK'
    BY <1>0, <1>11, <2>1, Zenon DEF ReconnectTimer, Connect, Inv, TypeOK, backend
  <2>3. OneWay'
    BY <1>11, SMT DEF ReconnectTimer, Connect, Inv, TypeOK, OneWay
  <2>4. LiveIsWatched'
    BY <1>11, <2>1, SMT DEF ReconnectTimer, Connect, Inv, TypeOK, OneWay, LiveIsWatched
  <2> QED BY <2>2, <2>3, <2>4 DEF Inv
<1>12. CASE TabHides
  BY <1>12, SMT DEF TabHides, Inv, TypeOK, OneWay, LiveIsWatched,
       backend, stream, wrapper
<1>13. CASE TabShows
  <2>1. CASE listening
    <3>1. /\ transport' # "live" /\ transport' \in Transport
          /\ rows' \in [Panes -> Transport]
          /\ \A p \in panes : rows'[p] = transport'
      BY <1>13, <2>1, RowsShow, Names DEF TabShows, Inv, TypeOK
    <3>2. TypeOK'
      BY <1>0, <1>13, <2>1, <3>1, Zenon DEF TabShows, Inv, TypeOK, backend
    <3>3. OneWay'
      BY <1>13, <2>1, SMT DEF TabShows, Inv, TypeOK, OneWay
    <3>4. LiveIsWatched'
      BY <1>13, <2>1, <3>1, SMT DEF TabShows, Inv, TypeOK, OneWay, LiveIsWatched
    <3> QED BY <3>2, <3>3, <3>4 DEF Inv
  <2>2. CASE ~listening
    <3>1. TypeOK'
      BY <1>13, <2>2, Zenon DEF TabShows, Inv, TypeOK, backend, stream
    <3>2. OneWay' /\ LiveIsWatched'
      BY <1>13, <2>2, SMT DEF TabShows, Inv, OneWay, LiveIsWatched, stream
    <3> QED BY <3>1, <3>2 DEF Inv
  <2> QED BY <2>1, <2>2
<1>14. CASE BackendStep
  <2>1. up' \in BOOLEAN /\ known' \in BOOLEAN /\ lost' \in BOOLEAN
    BY <1>14 DEF BackendStep, BackendNext, Appears, Vanishes, Learns,
         Unlearns, Muddles, Inv, TypeOK
  <2>2. reach' \in BOOLEAN
    BY <1>14, <2>1 DEF BackendStep, Inv, TypeOK
  <2> QED
    BY <1>14, <2>1, <2>2, SMT DEF BackendStep, Inv, TypeOK, OneWay,
         LiveIsWatched, wrapper
<1>15. CASE UNCHANGED vars
  BY <1>15, SMT DEF vars, backend, stream, wrapper, Inv, TypeOK,
       OneWay, LiveIsWatched
<1> QED
  BY <1>1, <1>2, <1>3, <1>4, <1>5, <1>6, <1>7, <1>8, <1>9, <1>10, <1>11,
     <1>12, <1>13, <1>14, <1>15 DEF Next

LEMMA Safe == Spec => []Inv
BY InitHolds, NextKeeps, PTL DEF Spec

\* Every variable keeps its type; in particular the silence counted stays
\* below the limit
THEOREM TypesHold == Spec => []TypeOK
BY Safe, PTL DEF Inv

\* However panes, tab, socket, timers and sidecar interleave, a stream that
\* panes watch has exactly one way forward (subscribeQuote)
THEOREM AlwaysOneWayForward == Spec => []OneWayForward
BY Safe, OneWayIsOneWay, PTL DEF Inv

\* Panes agree with the shared stream, and what they call LIVE is watched
\* (subscribeQuoteStream, subscribeQuoteMultiplexed)
THEOREM LiveStaysWatched == Spec => []LiveIsWatched
BY Safe, PTL DEF Inv
=============================================================================
