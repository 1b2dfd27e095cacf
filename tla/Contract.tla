------------------------------ MODULE Contract ------------------------------
(***************************************************************************)
(* The vocabulary every part of the virtualization framework shares: the   *)
(* fields of a SimulationManifest spec, the operator's configuration, and  *)
(* the few facts about strings that the code tells apart.                  *)
(*                                                                         *)
(* A string is abstracted to a Text: its trimmed value v and whether it    *)
(* carries surrounding white space (pad).  A host:port string is a         *)
(* HostPort: its host part and the form of what follows the colon.         *)
(***************************************************************************)
EXTENDS Integers, Sequences, FiniteSets

CONSTANTS
  DnsLabels,                 \* values that match nameRe
  Hostnames,                 \* values that match hostRe
  SystemNamespace,           \* SYSTEM_NAMESPACE of the operator
  DefaultMicrocksHostPort    \* MICROCKS_SERVICE of the operator

Text(v) == [v |-> v, pad |-> FALSE]
Padded(v) == [v |-> v, pad |-> TRUE]

\* strings.TrimSpace(t) == "" and t == "" : the code uses both.
Blank(t) == t.v = ""
Empty(t) == t.v = "" /\ ~t.pad

\* "none": no colon, "empty": nothing after the colon, "word": not an integer,
\* "number": strconv.Atoi succeeds with the value port.
HostPort(h, p) == [host |-> h, form |-> "number", port |-> p]
HostPortWord(h) == [host |-> h, form |-> "word", port |-> 0]
HostOnly(h) == [host |-> h, form |-> "none", port |-> 0]
NoHostPort == HostOnly("")

BackendTeachingMock == "teaching-mock"
BackendMicrocks == "microcks"

\* Every value strings.EqualFold identifies with BackendMicrocks.
MicrocksSpellings == {BackendMicrocks, "Microcks", "MICROCKS"}

\* The environments of Config.IsProd; any other value is a development one.
IsProd(environment) == environment = "prod"

ASSUME ConfigAssumption ==
  /\ "" \notin DnsLabels \cup Hostnames
  /\ SystemNamespace # ""
  /\ DefaultMicrocksHostPort.form = "number"
  /\ DefaultMicrocksHostPort.host \in Hostnames
=============================================================================
