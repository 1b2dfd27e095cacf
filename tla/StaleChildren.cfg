\* A third party renamed in the spec.
SPECIFICATION Spec
CONSTANTS
  DnsLabels = {"risk", "pay", "deny"}
  Hostnames = {"risk.com", "pay.com", "mock.sys"}
  SystemNamespace = "sys"
  DefaultMicrocksHostPort <- MCDefaultMicrocks
  Operators = {"op1"}
  Manifests <- OneManifest
  Specs <- ValidSpecs
  NoSpec = NoSpec
  ProdLabels = {FALSE}
  Environments = {"dev"}
  Hooks = {FALSE}
  Foreign = {}
  Budget <- UsersBudget
INVARIANTS
  NothingUnlisted
CHECK_DEADLOCK FALSE
