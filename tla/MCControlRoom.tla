---------------------------- MODULE MCControlRoom ----------------------------
(***************************************************************************)
(* The instance of ControlRoom for TLC.                                    *)
(***************************************************************************)
EXTENDS ControlRoom

MCRequest(subject, session, trust) ==
  [subject |-> subject, session |-> session, device |-> "d", thumb |-> "t", kind |-> "human",
   trust |-> trust]

\* Two sessions, one of them issued to two subjects, and a body without a session.
MCRequests ==
  {MCRequest("u", "s1", 80), MCRequest("v", "s1", 30), MCRequest("u", "s2", 80),
   MCRequest("u", "", 80)}

MCModes == {"full", "delta"}
MCProbeOrder == <<"cortex-trust-engine", "cortex-envoy">>
MCSurfaces == {[reachable |-> FALSE, ready |-> TRUE, provider |-> FALSE]}

\* What each of the three programs that create CORTEX_EVENTS asks for, of the subjects here.
MCStreamLists ==
  {{"cortex.obs.stream", "cortex.obs.sot.issued", "cortex.agents.tasks.decision"},
   {"cortex.obs.sot.issued"}, {"cortex.obs.stream"}}

\* Two weak signals of one identity: a faint one, six of which are just enough, and one
\* on another path.  Some come late, one is older than the memory goes back.
Faint == [identity |-> "u", path |-> "vpn", family |-> "ledger",
          weak |-> 15, novelty |-> 0, anomaly |-> 0]
MCFingerprints == {Faint, [Faint EXCEPT !.path = "edge", !.novelty = 60, !.anomaly = 50]}
MCAges == {20, 100}
MCTargets ==
  {[anomaly |-> 0, novelty |-> 0, trust |-> 100, graph |-> 0, criticality |-> 80]}

Usual == [aligned |-> TRUE, sensitive |-> FALSE, justified |-> FALSE, night |-> FALSE,
          offProcess |-> FALSE, recovery |-> FALSE]
Odd == [Usual EXCEPT !.aligned = FALSE, !.sensitive = TRUE, !.night = TRUE, !.offProcess = TRUE]
MCConducts == {Usual, Odd}
MCReviews == {<<>>, <<Odd>>, <<Usual, Odd>>, <<[Usual EXCEPT !.justified = TRUE]>>}

Deed(action, family, level) == [action |-> action, family |-> family, level |-> level]
Reset == Deed("reset_password", "hr", "standard")
Rotate == Deed("rotate_breakglass", "vault", "standard")
Dump == Deed("dump_secrets", "vault", "domain_admin")
MCDeeds == {Reset, Rotate, Dump}
MCChains ==
  {<<>>, <<Dump>>, <<Rotate, Rotate>>, <<Rotate, Dump>>, <<Reset, Dump>>, <<Dump, Rotate, Dump>>}

MCAuditEvents == {[principal |-> "u", decision |-> "allow"], [principal |-> "v", decision |-> "deny"]}
MCFilters == {<<>>, [decision |-> "deny"], [principal |-> "u", decision |-> "allow"]}

\* One kind of trouble at a time: the services have nothing to do with each other.
None == [k \in Kinds |-> 0]
MCLoads ==
  {[None EXCEPT !["issue"] = 2, !["restartAuth"] = 1, !["ask"] = 1],
   [None EXCEPT !["issue"] = 1, !["expire"] = 1, !["ask"] = 1],
   [None EXCEPT !["job"] = 2, !["clock"] = 1, !["restartSync"] = 1],
   [None EXCEPT !["job"] = 1, !["restartSync"] = 1, !["ask"] = 1],
   [None EXCEPT !["post"] = 3, !["restartGateway"] = 1],
   [None EXCEPT !["connect"] = 1, !["stream"] = 1, !["signal"] = 3, !["late"] = 1,
                !["restartObs"] = 1],
   [None EXCEPT !["connect"] = 1, !["stream"] = 1, !["signal"] = 2, !["lose"] = 1],
   [None EXCEPT !["fingerprint"] = 6, !["days"] = 1],
   [None EXCEPT !["fingerprint"] = 2, !["days"] = 2, !["restartAdvisor"] = 1],
   [None EXCEPT !["conduct"] = 5, !["restartAdvisor"] = 1],
   [None EXCEPT !["deed"] = 3, !["restartAdvisor"] = 1],
   [None EXCEPT !["audit"] = 3, !["restartAudit"] = 1],
   [None EXCEPT !["connect"] = 1, !["service"] = 2, !["tick"] = 1, !["lose"] = 1,
                !["restartObs"] = 1]}
=============================================================================
