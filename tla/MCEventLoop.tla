----------------------------- MODULE MCEventLoop -----------------------------
(* Instances of EventLoop. *)
EXTENDS EventLoop, TLC

WorkerSymmetry == Permutations(Workers)

Config(n, w, cap, idle, answers) ==
    [conns |-> n, workers |-> w, max_connections |-> cap, idle_timeout |-> idle,
     answers |-> answers]

\* More connections than slots; two connections in one round; a streaming body,
\* and a WebSocket under the reaper, with two workers.
MCConfigs == {Config(3, 2, 1, FALSE, {"tunnel"}),
              Config(2, 1, 0, FALSE, {}),
              Config(1, 2, 1, FALSE, {"stream"}),
              Config(1, 2, 1, TRUE, {"upgrade"})}

\* One connection that may do everything.
MCAll == {Config(1, 1, 1, TRUE, {"stream", "upgrade", "tunnel"})}
=============================================================================
