--------------------------- MODULE MCLeaderLease ---------------------------
(***************************************************************************)
(* Instances of LeaderLease for TLC.                                       *)
(***************************************************************************)
EXTENDS LeaderLease, TLC

\* All clocks agree; or the second replica is a minute ahead.
SameClocks == [i \in Instances |-> 0]
OneAhead == [i \in Instances |-> IF i = "r2" THEN MinuteLen ELSE 0]
EveryMinute == 0..(MaxTime + MinuteLen)
=============================================================================
