------------------------------- MODULE MCStartUp -------------------------------
(***************************************************************************)
(* A small instance of StartUp: the services of local mode.                *)
(***************************************************************************)
EXTENDS StartUp

MCPeers ==
  [s \in Services |->
     CASE s = "gateway" -> <<"fraud">>
       [] s = "fraud"   -> <<"external", "microcks">>
       [] OTHER         -> <<>>]

\* The tightest schedule there is.
MCBy ==
  LET wait == 2 * AttemptTimeout + Interval
      risk == [n \in {0} |-> Spread]
      fraud == [n \in 0..2 |-> IF n = 0 THEN Spread
                               ELSE Spread + wait + (n - 1) * AttemptTimeout]
      gateway == [n \in 0..1 |-> IF n = 0 THEN Spread ELSE fraud[2] + wait]
  IN  [s \in Services |->
         CASE s = "gateway" -> gateway [] s = "fraud" -> fraud [] OTHER -> risk]
=============================================================================
