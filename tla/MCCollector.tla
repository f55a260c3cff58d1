----------------------------- MODULE MCCollector -----------------------------
(* Instances of Collector for TLC.                                         *)
EXTENDS Collector, TLC

CONSTANTS s1, s2, c1, c2

(* Two processes with one connection each, or one that connects twice.     *)
TwoClients == (c1 :> s1) @@ (c2 :> s2)
Reconnect == (c1 :> s1) @@ (c2 :> s1)

(* The two clients of TwoClients are interchangeable with all they own.    *)
SwapClients ==
  {f \in Permutations({c1, c2, s1, s2}) :
     \A c \in {c1, c2} : f[c] \in {c1, c2} /\ f[TwoClients[c]] = TwoClients[f[c]]}
=============================================================================
