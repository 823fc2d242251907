--------------------------- MODULE MCPanelEngine ----------------------------
(***************************************************************************)
(* PanelEngine for TLC: the configurations of each run.                    *)
(***************************************************************************)
EXTENDS PanelEngine

Config(mode, rule, policy, workers) ==
  [mode |-> mode, rule |-> rule, policy |-> policy, workers |-> workers]

\* Whoever is asked is asked at once.
MCAtOnce ==
  {Config("propose-converge", "unanimous", "shrink-quorum", 2),
   Config("propose-converge", "inclusive-majority", "treat-as-blocking", 2),
   Config("post-review", "unanimous", "treat-as-no-vote", 2)}

\* CONSENSUS_MCP_MAX_DISPATCH_WORKERS=1, and the advisory panel.
MCOneByOne ==
  {Config("propose-converge", "strict-majority", "treat-as-no-vote", 1),
   Config("advisory", "advisory", "treat-as-no-vote", 2)}

MCTwoAtOnce == {Config("propose-converge", "unanimous", "treat-as-blocking", 2)}
=============================================================================
