------------------------- MODULE MCContainerLifecycle -------------------------
(* Containers, requests and failures for TLC. *)
EXTENDS ContainerLifecycle, TLC

\* Containers with these policies, StopSignal and AutoRemove.
Containers(policies, signals, autos, requests, faults) ==
  {c \in [policy : policies, stopSignal : signals, autoRemove : autos,
          requests : {requests}, faults : {faults}] : c.autoRemove => c.policy = "no"}

\* Two clients against each other and against a restart policy.
Races ==
  Containers({"always", "on-failure"}, {FALSE}, {FALSE},
             {"start", "stop", "kill", "rm", "rmforce"}, {"start", "remove"})

\* A client whose container only it stops and starts, whatever its configuration, and
\* one that makes every request while everything may fail.
Alone ==
  Containers(AllPolicies, {FALSE}, BOOLEAN, {"start", "stop", "kill", "signal", "restart"}, {"start"})
    \cup Containers({"always"}, {TRUE}, {FALSE}, {"start", "stop", "kill", "signal"}, {"start"})
    \cup Containers({"no", "always"}, {FALSE}, BOOLEAN, AllRequests, AllFaults \ {"disk"})
    \cup Containers({"always"}, {FALSE}, {FALSE}, {"start", "rm"}, {"disk"})

\* A client that starts and pauses.
Pausing == Containers({"no"}, {FALSE}, {FALSE}, {"start", "pause"}, {})

Symmetry == Permutations(Ops)
===============================================================================
