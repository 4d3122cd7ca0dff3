------------------------------ MODULE MCServer ------------------------------
(***************************************************************************)
(* Four parts of the server that share no state; `part' says which of them *)
(* moves: the life of the server and its stop, one connection of the       *)
(* event-driven and one of the blocking driver, and the reverse proxy's    *)
(* upstreams and bridges.                                                  *)
(***************************************************************************)
EXTENDS ServerRun, EventConn, H1Serve, Proxy

CONSTANT Parts  \* the parts a run looks at

VARIABLE part

mcvars == <<part, srvars, ecvars, hsvars, pxvars>>

RunPart(A) == part = "run" /\ A /\ UNCHANGED <<part, ecvars, hsvars, pxvars>>
ConnPart(A) == part = "conn" /\ A /\ UNCHANGED <<part, srvars, hsvars, pxvars>>
H1Part(A) == part = "h1" /\ A /\ UNCHANGED <<part, srvars, ecvars, pxvars>>
ProxyPart(A) == part = "proxy" /\ A /\ UNCHANGED <<part, srvars, ecvars, hsvars>>

Init ==
    /\ part \in Parts
    /\ SrInit /\ (part # "run" => srv.mode = "event")
    /\ EcInit /\ (part # "conn" => script = CHOOSE s \in [Requests -> [kind : Kinds, close : Closes, coding : Codings, pipelined : {FALSE}]] : \A k \in Requests : s[k].kind = "plain")
    /\ \A k \in Requests : script[k].kind \in {"upgrade", "tunnel"} => ~script[k].close /\ script[k].coding = "length"
    /\ HsInit /\ (part # "h1" => \A r \in 1..HsRequests : peer.kind[r] = "get")
    /\ PxInit /\ (part # "proxy" => balance = "RoundRobin")

Next ==
    RunPart(SrNext) \/ ConnPart(EcNext) \/ H1Part(HsNext) \/ ProxyPart(PxNext)

\* Threads run, and EventConn's as it says; stoppers finish what they began; connections
\* being served end (they have read timeouts); a pump polls with a time limit.
Spec ==
    /\ Init /\ [][Next]_mcvars
    /\ WF_mcvars(RunPart(ServerThread)) /\ WF_mcvars(RunPart(OtherThreads))
    /\ WF_mcvars(RunPart(Stopping)) /\ WF_mcvars(RunPart(JobSteps))
    /\ WF_mcvars(ConnPart(Resume)) /\ WF_mcvars(ConnPart(Step))
    /\ SF_mcvars(ConnPart(Step /\ wire' # wire))
    /\ \A k \in Requests : WF_mcvars(ConnPart(EcFinish(k)))
    /\ WF_mcvars(ProxyPart(PumpStop)) /\ WF_mcvars(ProxyPart(PumpClose))
=============================================================================
