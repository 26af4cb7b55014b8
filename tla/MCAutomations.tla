--------------------------- MODULE MCAutomations ---------------------------
(* Automations on small instances.                                         *)
EXTENDS Automations
CONSTANTS nightly, weekly, server, cli
TwoAutos  == {nightly, weekly}
OneServer == {server}
OneUser   == {cli}
Clocks    == {"fold", "gap"}
EachKind  ==
  {[a \in TwoAutos |-> IF a = nightly THEN p[1] ELSE p[2]] :
     p \in { <<Interval(2), Daily(1)>>, <<Daily(0), Weekly({1}, 1)>> }}
=============================================================================
