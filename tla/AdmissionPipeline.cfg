\* Every kind of malformed spec, with and without webhooks, in dev and prod.
SPECIFICATION Spec
CONSTANTS
  DnsLabels = {"risk", "pay", "deny", "both", "none", "empty", "blank"}
  Hostnames = {"risk.com", "pay.com", "mock", "mock.sys"}
  SystemNamespace = "simulation-system"
  DefaultMicrocksHostPort <- MCDefaultMicrocks
  ThirdPartyLists <- MCThirdPartyLists
  ScenarioLists <- MCScenarioLists
  MicrocksServices <- MCMicrocksServices
  VirtualBackends <- MCVirtualBackends
  Environments = {"dev", "prod"}
INVARIANTS
  TypeOK AdmittedGenerates KeysDistinct EveryPartyRouted WebhookTransparent
  HostsDistinct
CHECK_DEADLOCK FALSE
