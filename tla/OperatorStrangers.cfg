\* Two manifests that share no object, in namespaces both sweeps visit, do not
\* disturb each other.
SPECIFICATION Spec
ACTION_CONSTRAINT OneSpecEach
CONSTANTS
  DnsLabels = {"risk", "pay", "deny"}
  Hostnames = {"risk.com", "pay.com", "mock.sys"}
  SystemNamespace = "sys"
  DefaultMicrocksHostPort <- MCDefaultMicrocks
  Operators = {"op1"}
  Manifests <- StrangerManifests
  Specs <- StrangerSpecs
  NoSpec = NoSpec
  ProdLabels = {FALSE}
  Environments = {"dev"}
  Hooks = {TRUE}
  Foreign = {}
  Budget <- StrangerBudget
INVARIANTS
  RestIsTruthful
PROPERTIES
  SweepsDeletedOnly
CHECK_DEADLOCK FALSE
