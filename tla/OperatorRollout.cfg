\* Two operator processes side by side, as during a rollout.
SPECIFICATION MetricsSpec
CONSTANTS
  DnsLabels = {"risk", "pay", "deny"}
  Hostnames = {"risk.com", "pay.com", "mock.sys"}
  SystemNamespace = "poc"
  DefaultMicrocksHostPort <- MCDefaultMicrocks
  Operators = {"op1", "op2"}
  Manifests <- OneManifest
  Specs <- CoreSpecs
  NoSpec = NoSpec
  ProdLabels = {FALSE}
  Environments = {"dev"}
  Hooks = {FALSE}
  Foreign = {}
  Budget <- RollBudget
INVARIANTS
  RestIsTruthful ResultTrue
CHECK_DEADLOCK FALSE
