\* Stale status merged into a newer one.
SPECIFICATION Spec
CONSTANTS
  DnsLabels = {"risk", "pay", "deny"}
  Hostnames = {"risk.com", "pay.com", "mock.sys"}
  SystemNamespace = "sys"
  DefaultMicrocksHostPort <- MCDefaultMicrocks
  Operators = {"op1"}
  Manifests <- OneManifest
  Specs <- CoreSpecs
  NoSpec = NoSpec
  ProdLabels = {FALSE}
  Environments = {"dev"}
  Hooks = {FALSE}
  Foreign = {}
  Budget <- UsersBudget
INVARIANTS
  ReadyMeansApplied
CHECK_DEADLOCK FALSE
