----------------------------- MODULE RoundTrips -----------------------------
(* What the bot's ledger promises: positions open and close in turn, and   *)
(* each one that closes adds one trade to closed_trades_log.               *)
EXTENDS Naturals

VARIABLES open, trades

vars == <<open, trades>>

Init == open = FALSE /\ trades = 0

Enter == ~open /\ open' = TRUE /\ UNCHANGED trades
Leave == open /\ open' = FALSE /\ trades' = trades + 1

Next == Enter \/ Leave

Spec == Init /\ [][Next]_vars

=============================================================================
