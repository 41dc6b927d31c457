---------------------------- MODULE SingleDaemon ----------------------------
(***************************************************************************)
(* What the start-up of atty-guard promises to the clients of its socket:  *)
(* at most one daemon serves, clients reach it for as long as it runs, and *)
(* only its own end takes the socket away from it.                         *)
(***************************************************************************)
CONSTANTS Procs, NoProc

VARIABLES serving,    \* the daemons in their accept loop
          reached     \* whom a client that opens the socket talks to

vars == <<serving, reached>>

Init == serving = {} /\ reached = NoProc

Begin(p) ==
    /\ serving = {}
    /\ serving' = {p} /\ reached' = p

End(p) ==
    /\ serving = {p}
    /\ serving' = {} /\ reached' = NoProc

Next == \E p \in Procs : Begin(p) \/ End(p)

Spec == Init /\ [][Next]_vars

=============================================================================
