-------------------------- MODULE TunnelLifecycle --------------------------
(***************************************************************************)
(* What the client promises to a listener on its event bus: the order of   *)
(* the TunnelState events of each tunnel, when a tunnel may end, and what  *)
(* may still be posted once the client has been told to stop.              *)
(***************************************************************************)
EXTENDS Naturals

CONSTANT Tunnels

VARIABLES
  shown,    \* the last state posted for each tunnel
  late,     \* Connecting events posted after the stop
  stopped,  \* the client was told to stop
  over      \* tunnels that have ended

vars == <<shown, late, stopped, over>>

Init ==
  /\ shown = [t \in Tunnels |-> "none"] /\ late = [t \in Tunnels |-> 0]
  /\ stopped = FALSE /\ over = {}

Post(t, from, s) ==
  /\ t \notin over /\ shown[t] \in from
  /\ shown' = [shown EXCEPT ![t] = s]
  /\ UNCHANGED <<stopped, over>>

\* A connect attempt: the first one, one after a failed one, or one after the
\* loss of a connection has been announced.  One is allowed after the stop.
Connect(t) ==
  /\ stopped => late[t] = 0
  /\ late' = IF stopped THEN [late EXCEPT ![t] = 1] ELSE late
  /\ Post(t, {"none", "Connecting", "Reconnecting"}, "Connecting")

Establish(t) == Post(t, {"Connecting"}, "Connected") /\ UNCHANGED late
Serve(t) == Post(t, {"Connected"}, "Tunneling") /\ UNCHANGED late
Lose(t) == Post(t, {"Connected", "Tunneling"}, "Reconnecting") /\ UNCHANGED late

Stop == ~stopped /\ stopped' = TRUE /\ UNCHANGED <<shown, late, over>>

Finish(t) ==
  /\ stopped /\ t \notin over /\ over' = over \cup {t}
  /\ UNCHANGED <<shown, late, stopped>>

Next ==
  \/ Stop
  \/ \E t \in Tunnels : Connect(t) \/ Establish(t) \/ Serve(t) \/ Lose(t) \/ Finish(t)

Spec == Init /\ [][Next]_vars
=============================================================================
