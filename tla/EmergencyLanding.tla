-------------------------- MODULE EmergencyLanding --------------------------
(***************************************************************************)
(* What the emergency landing promises, without queues, policies, versions  *)
(* or timeouts: while the drone is isolated an executor may be secured, and *)
(* once it is, nothing commands it before the isolation ends.              *)
(*                                                                         *)
(* EmergencyProtocol implements this specification; the mapping is there.   *)
(***************************************************************************)
CONSTANTS
  Executors,   \* motors and cargo
  States,      \* their states
  Safe         \* Safe[x] \in States: the state an emergency brings x into

VARIABLES
  isolated,    \* the security monitor is ISOLATED
  held,        \* the executors secured in the present isolation
  exec         \* state of each executor

lvars == <<isolated, held, exec>>

Init ==
  /\ isolated = FALSE
  /\ held = {}
  /\ exec \in [Executors -> States]

(* An isolation begins with nothing secured.                               *)
Isolate ==
  /\ ~isolated
  /\ isolated' = TRUE
  /\ held' = {}
  /\ UNCHANGED exec

(* It ends, by ISOLATION_END or by a restart of the monitor, for all.       *)
Release ==
  /\ isolated
  /\ isolated' = FALSE
  /\ held' = {}
  /\ UNCHANGED exec

Secure(x) ==
  /\ isolated
  /\ held' = held \cup {x}
  /\ exec' = [exec EXCEPT ![x] = Safe[x]]
  /\ UNCHANGED isolated

(* An executor that is not secured may be commanded into any state.         *)
Command(x, s) ==
  /\ x \notin held
  /\ exec' = [exec EXCEPT ![x] = s]
  /\ UNCHANGED <<isolated, held>>

Next ==
  \/ Isolate
  \/ Release
  \/ \E x \in Executors : Secure(x) \/ \E s \in States : Command(x, s)

Spec == Init /\ [][Next]_lvars

=============================================================================
