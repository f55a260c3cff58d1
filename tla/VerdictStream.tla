---------------------------- MODULE VerdictStream ----------------------------
(***************************************************************************)
(* What the online processor promises about the verdicts of a session,     *)
(* whatever its threads do: windows settle in any order, verdicts come out *)
(* in window order, each decided by the rolling policy on the scores that  *)
(* came out before it; a terminating verdict is the last one, and nothing  *)
(* comes out once the session has ended.                                   *)
(***************************************************************************)
EXTENDS RollingPolicy

CONSTANTS
  Sessions,
  Windows,   \* window numbers, an initial segment of Nat
  Scores,
  None,      \* outcome of a window whose inference failed
  Unknown    \* outcome of a window that has not settled

VARIABLES
  outcome,   \* what became of each window
  verdicts,  \* verdicts of each session, in the order they came out
  ended      \* sessions whose client is gone

vars == <<outcome, verdicts, ended>>

Init ==
  /\ outcome = [s \in Sessions |-> [i \in Windows |-> Unknown]]
  /\ verdicts = [s \in Sessions |-> <<>>]
  /\ ended = [s \in Sessions |-> FALSE]

Emitted(s, i) == \E k \in DOMAIN verdicts[s] : verdicts[s][k].win = i

Terminated(s) ==
  \E k \in DOMAIN verdicts[s] : verdicts[s][k].action = "terminate"

Settle(s, i, out) ==
  /\ outcome[s][i] = Unknown
  /\ outcome' = [outcome EXCEPT ![s][i] = out]
  /\ UNCHANGED <<verdicts, ended>>

Emit(s, i) ==
  LET seen == Append(ScoresOf(verdicts[s]), outcome[s][i]) IN
  /\ ~ended[s] /\ ~Terminated(s) /\ ~Emitted(s, i)
  /\ outcome[s][i] \in Scores
  /\ \A j \in Windows : j < i => outcome[s][j] = None \/ Emitted(s, j)
  /\ verdicts' = [verdicts EXCEPT ![s] = Append(@,
       [sess |-> s, win |-> i, score |-> outcome[s][i],
        action |-> IF Suspicious(LastScores(seen))
                   THEN "terminate" ELSE "log"])]
  /\ UNCHANGED <<outcome, ended>>

End(s) ==
  /\ ~ended[s]
  /\ ended' = [ended EXCEPT ![s] = TRUE]
  /\ UNCHANGED <<outcome, verdicts>>

Next ==
  \E s \in Sessions :
    \/ End(s)
    \/ \E i \in Windows :
         Emit(s, i) \/ \E out \in Scores \cup {None} : Settle(s, i, out)

Spec == Init /\ [][Next]_vars
=============================================================================
