--------------------------- MODULE MCBotLifecycle ---------------------------
(* Model values for BotLifecycle: every bot of an instance references the  *)
(* one credential, so that its deletion cascades over all of them.         *)
EXTENDS BotLifecycle, TLC

CONSTANT k1

MCCredOf == [b \in Bots |-> k1]
MCSymmetry == Permutations(Loops) \cup Permutations(Callers)
MCBotSymmetry == MCSymmetry \cup Permutations(Bots)

=============================================================================
