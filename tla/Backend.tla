-------------------------------- MODULE Backend --------------------------------
(***************************************************************************)
(* What the web view can rely on about the sidecar's port, as the abstract *)
(* specification that SidecarClient implements and QuoteStream builds on.  *)
(***************************************************************************)

VARIABLES
  up,       \* a sidecar serves, and the shell has announced its port
  known,    \* the web view's cached port is that one
  lost      \* an announcement was missed, or overwritten by an older answer

backend == <<up, known, lost>>

BackendInit == up = FALSE /\ known = FALSE /\ lost = FALSE

Appears ==
  /\ up = FALSE
  /\ up' = TRUE /\ known' = FALSE /\ lost' \in BOOLEAN
Vanishes ==
  /\ up = TRUE
  /\ up' = FALSE /\ known' = FALSE /\ lost' = lost
Learns ==
  /\ up = TRUE /\ known = FALSE
  /\ up' = TRUE /\ known' = TRUE /\ lost' \in {lost, FALSE}
Unlearns ==
  /\ known = TRUE
  /\ up' = TRUE /\ known' = FALSE /\ lost' \in BOOLEAN
Muddles ==
  /\ lost' = ~lost
  /\ UNCHANGED <<up, known>>

BackendNext == Appears \/ Vanishes \/ Learns \/ Unlearns \/ Muddles

\* A port that was announced and not lost is learnt, and kept
Settles == <>[](up = TRUE /\ lost = FALSE) => <>[](known = TRUE)

BackendSpec == BackendInit /\ [][BackendNext]_backend /\ Settles
=============================================================================
