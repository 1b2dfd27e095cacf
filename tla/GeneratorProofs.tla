--------------------------- MODULE GeneratorProofs ---------------------------
(***************************************************************************)
(* What the validation of a spec promises the generator, and what the      *)
(* generator returns for a spec that passed it.  The facts are about every *)
(* spec of any length; the proofs about the admission pipeline and about   *)
(* the operator both rest on them.                                         *)
(***************************************************************************)
EXTENDS Generator, Admission, FiniteSetTheorems, SequenceTheorems, TLAPS

(***************************************************************************)
(* Induction on a number, as the least element of a set                    *)
(***************************************************************************)

\* A set of natural numbers has a least element.

LEMMA LeastNumber ==
  ASSUME NEW T, T \subseteq Nat, T # {}
  PROVE  \E n \in T : \A m \in T : n <= m
<1> DEFINE R == OpToRel(<, Nat)
<1>1. \A m, n \in Nat : m < n => <<m, n>> \in R
  BY DEF OpToRel
<1>2. IsWellFoundedOn(R, Nat)
  BY NatLessThanWellFounded
<1> HIDE DEF R
<1>3. \E n \in T : \A m \in T : ~(<<m, n>> \in R)
  BY <1>2, WFMin
<1>4. PICK n \in T : \A m \in T : ~(<<m, n>> \in R)
  BY <1>3
<1>5. ASSUME NEW m \in T PROVE n <= m
  <2>1. m \in Nat /\ n \in Nat  OBVIOUS
  <2>2. ~(m < n)  BY <1>1, <1>4, <2>1
  <2> QED BY <2>1, <2>2
<1> QED  BY <1>5

(***************************************************************************)
(* Error lists                                                             *)
(***************************************************************************)

\* FlattenSeq, a recursive function, is well defined: its value is the last
\* of the partial concatenations.
LEMMA FlattenUnfolds ==
  ASSUME NEW S, NEW seqs \in Seq(Seq(S)), seqs # <<>>
  PROVE  \E f \in [1..Len(seqs) -> Seq(S)] :
           /\ FlattenSeq(seqs) = f[Len(seqs)]
           /\ \A i \in 1..Len(seqs) :
                 f[i] = IF i = 1 THEN seqs[i] ELSE f[i - 1] \o seqs[i]
<1> DEFINE N == Len(seqs)
           Unfolds(f, n) ==
             \A i \in 1..n : f[i] = IF i = 1 THEN seqs[i] ELSE f[i - 1] \o seqs[i]
           Bad == {n \in Nat : n <= N /\ ~ \E f \in [1..n -> Seq(S)] : Unfolds(f, n)}
           Q(f) == f = [i \in 1..N |-> IF i = 1 THEN seqs[i] ELSE f[i - 1] \o seqs[i]]
<1>1. FlattenSeq(seqs) = (CHOOSE f : Q(f))[N]
  BY DEF FlattenSeq
<1>2. Bad = {}
  <2>1. SUFFICES ASSUME Bad # {} PROVE FALSE
    OBVIOUS
  <2>2. PICK n \in Bad : \A m \in Bad : n <= m
    BY <2>1, LeastNumber
  <2>3. n # 0
    <3>1. [i \in 1..0 |-> <<>>] \in [1..0 -> Seq(S)] /\ Unfolds([i \in 1..0 |-> <<>>], 0)
      OBVIOUS
    <3> QED  BY <2>2, <3>1
  <2>4. n - 1 \in Nat /\ n - 1 \notin Bad /\ n \in 1..N
    <3>1. n \in Nat /\ n <= N /\ N \in Nat  BY <2>2
    <3>2. n - 1 \notin Bad
      <4>1. n - 1 \in Bad => n <= n - 1  BY <2>2
      <4> HIDE DEF Bad
      <4> QED  BY <3>1, <4>1
    <3> HIDE DEF Bad, N
    <3> QED BY <2>3, <3>1, <3>2
  <2>5. PICK f \in [1..(n - 1) -> Seq(S)] : Unfolds(f, n - 1)
    <3>1. n - 1 \in Nat /\ n - 1 <= N  BY <2>4
    <3> HIDE DEF Unfolds, N
    <3> QED  BY <2>4, <3>1
  <2> DEFINE last == IF n = 1 THEN seqs[n] ELSE f[n - 1] \o seqs[n]
             g == [i \in 1..n |-> IF i = n THEN last ELSE f[i]]
  <2>6. last \in Seq(S)
    BY <2>4
  <2>7. g \in [1..n -> Seq(S)]
    <3> HIDE DEF last
    <3> QED  BY <2>4, <2>6
  <2>8. Unfolds(g, n)
    <3> SUFFICES ASSUME NEW i \in 1..n
                 PROVE  g[i] = IF i = 1 THEN seqs[i] ELSE g[i - 1] \o seqs[i]
      OBVIOUS
    <3>0. n \in Nat /\ (n # 1 => n - 1 \in 1..n /\ g[n - 1] = f[n - 1]) /\ g[n] = last
      <4> HIDE DEF last
      <4> QED  BY <2>4
    <3>1. CASE i = n
      BY <3>0, <3>1
    <3>2. CASE i # n
      <4>1. i \in 1..(n - 1) /\ g[i] = f[i]
        BY <2>4, <3>2
      <4>2. i # 1 => i - 1 \in 1..n /\ i - 1 # n /\ g[i - 1] = f[i - 1]
        <5> HIDE DEF last
        <5> QED BY <3>0, <4>1
      <4>3. f[i] = IF i = 1 THEN seqs[i] ELSE f[i - 1] \o seqs[i]
        BY <2>5, <4>1
      <4> QED  BY <4>1, <4>2, <4>3
    <3> QED  BY <3>1, <3>2
  <2> QED  BY <2>2, <2>7, <2>8
<1>3. PICK f \in [1..N -> Seq(S)] : Unfolds(f, N)
  <2>1. N \in Nat  OBVIOUS
  <2>2. \A n \in Nat : n <= N /\ n \notin Bad => \E f \in [1..n -> Seq(S)] : Unfolds(f, n)
    OBVIOUS
  <2>3. N <= N
    BY <2>1
  <2> HIDE DEF N, Unfolds, Bad
  <2> QED BY <1>2, <2>1, <2>2, <2>3
<1>4. Q(f)
  BY <1>3
<1> DEFINE h == CHOOSE x : Q(x)
<1>5. Q(h)
  BY <1>4
<1> HIDE DEF h
<1>6. \A i \in 1..N : h[i] = IF i = 1 THEN seqs[i] ELSE h[i - 1] \o seqs[i]
  BY <1>5
<1>7. \A i \in 1..N : h[i] = f[i]
  <2> DEFINE Wrong == {i \in 1..N : h[i] # f[i]}
  <2>1. SUFFICES ASSUME Wrong # {} PROVE FALSE
    OBVIOUS
  <2>2. PICK n \in Wrong : \A m \in Wrong : n <= m
    <3>1. Wrong \subseteq Nat  OBVIOUS
    <3> HIDE DEF Wrong
    <3> QED  BY <2>1, <3>1, LeastNumber
  <2>3. n = 1 \/ (n - 1 \in 1..N /\ h[n - 1] = f[n - 1])
    <3>1. n \in 1..N /\ n - 1 \notin Wrong  BY <2>2
    <3> QED  BY <3>1
  <2>4. n \in 1..N /\ h[n] # f[n]
    OBVIOUS
  <2> QED  BY <1>3, <1>6, <2>3, <2>4
<1>8. N \in 1..N
  OBVIOUS
<1> QED BY <1>1, <1>3, <1>7, <1>8 DEF h

\* A concatenation is empty only if both parts are.
LEMMA ConcatEmpty ==
  ASSUME NEW S, NEW a \in Seq(S), NEW b \in Seq(S)
  PROVE  a \o b \in Seq(S) /\ (a \o b = <<>> => a = <<>> /\ b = <<>>)
<1>1. a \o b \in Seq(S) /\ Len(a \o b) = Len(a) + Len(b)
  OBVIOUS
<1>2. a \o b = <<>> => Len(a) = 0 /\ Len(b) = 0
  BY <1>1
<1> QED  BY <1>1, <1>2

LEMMA FiveEmpty ==
  ASSUME NEW S, NEW a \in Seq(S), NEW b \in Seq(S), NEW c \in Seq(S), NEW d \in Seq(S),
         NEW e \in Seq(S)
  PROVE  /\ a \o b \o c \o d \o e \in Seq(S)
         /\ a \o b \o c \o d \o e = <<>> =>
              a = <<>> /\ b = <<>> /\ c = <<>> /\ d = <<>> /\ e = <<>>
<1> DEFINE ab == a \o b
           abc == ab \o c
           abcd == abc \o d
<1>1. ab \in Seq(S) /\ (ab = <<>> => a = <<>> /\ b = <<>>)
  BY ConcatEmpty
<1> HIDE DEF ab
<1>2. abc \in Seq(S) /\ (abc = <<>> => ab = <<>> /\ c = <<>>)
  BY <1>1, ConcatEmpty
<1> HIDE DEF abc
<1>3. abcd \in Seq(S) /\ (abcd = <<>> => abc = <<>> /\ d = <<>>)
  BY <1>2, ConcatEmpty
<1> HIDE DEF abcd
<1>4. abcd \o e \in Seq(S) /\ (abcd \o e = <<>> => abcd = <<>> /\ e = <<>>)
  BY <1>3, ConcatEmpty
<1>5. abcd \o e = a \o b \o c \o d \o e
  BY DEF ab, abc, abcd
<1> QED  BY <1>1, <1>2, <1>3, <1>4, <1>5

\* A flattened list of error lists is empty only if each of them is.
LEMMA FlattenEmpty ==
  ASSUME NEW S, NEW seqs \in Seq(Seq(S))
  PROVE  /\ FlattenSeq(seqs) \in Seq(S)
         /\ FlattenSeq(seqs) = <<>> => \A i \in 1..Len(seqs) : seqs[i] = <<>>
<1>1. CASE seqs = <<>>
  <2>1. FlattenSeq(seqs) = seqs  BY <1>1 DEF FlattenSeq
  <2>2. FlattenSeq(seqs) \in Seq(S)
    <3>1. <<>> \in Seq(S)  OBVIOUS
    <3> QED  BY <1>1, <2>1, <3>1
  <2>3. \A i \in 1..Len(seqs) : seqs[i] = <<>>
    BY <1>1
  <2> QED  BY <2>2, <2>3
<1>2. CASE seqs # <<>>
  <2> DEFINE N == Len(seqs)
  <2>1. PICK f \in [1..N -> Seq(S)] :
           /\ FlattenSeq(seqs) = f[N]
           /\ \A i \in 1..N : f[i] = IF i = 1 THEN seqs[i] ELSE f[i - 1] \o seqs[i]
    BY <1>2, FlattenUnfolds
  <2>2. N \in Nat \ {0} /\ N \in 1..N
    BY <1>2
  <2>3. \A i \in 1..N : f[i] \in Seq(S) /\ seqs[i] \in Seq(S)
    <3>1. \A i \in 1..N : seqs[i] \in Seq(S)  OBVIOUS
    <3> HIDE DEF N
    <3> QED  BY <3>1
  <2>4. ASSUME f[N] = <<>> PROVE \A i \in 1..N : f[i] = <<>>
    <3> DEFINE Full == {k \in Nat : k < N /\ f[N - k] # <<>>}
    <3>1. SUFFICES ASSUME Full # {} PROVE FALSE
      <4>1. ASSUME NEW i \in 1..N PROVE f[i] = <<>>
        <5>1. N - i \in Nat /\ N - i < N /\ N - (N - i) = i
          BY <2>2
        <5> QED  BY <3>1, <5>1
      <4> QED  BY <4>1
    <3>2. PICK k \in Full : \A m \in Full : k <= m
      <4>1. Full \subseteq Nat  OBVIOUS
      <4> HIDE DEF Full
      <4> QED  BY <3>1, <4>1, LeastNumber
    <3>3. k \in Nat /\ k < N /\ f[N - k] # <<>>
      OBVIOUS
    <3>4. k # 0
      <4> SUFFICES ASSUME k = 0 PROVE FALSE  OBVIOUS
      <4>1. N - k = N  BY <2>2
      <4> QED  BY <2>4, <3>3, <4>1
    <3>5. k - 1 \in Nat /\ k - 1 < N /\ ~(k <= k - 1)
      BY <3>3, <3>4, <2>2
    <3>6. f[N - (k - 1)] = <<>>
      BY <3>2, <3>5
    <3>7. N - (k - 1) \in 1..N /\ N - (k - 1) # 1 /\ N - (k - 1) - 1 = N - k /\ N - k \in 1..N
      BY <3>3, <3>5, <2>2
    <3>8. f[N - (k - 1)] = f[N - k] \o seqs[N - (k - 1)]
      BY <2>1, <3>7
    <3>9. f[N - k] \in Seq(S) /\ seqs[N - (k - 1)] \in Seq(S)
      BY <2>3, <3>7
    <3> QED  BY <3>3, <3>6, <3>8, <3>9, ConcatEmpty
  <2>5. ASSUME f[N] = <<>>, NEW i \in 1..N PROVE seqs[i] = <<>>
    <3>1. f[i] = <<>>  BY <2>4, <2>5
    <3>2. seqs[i] \in Seq(S)  BY <2>3
    <3>3. CASE i = 1  BY <2>1, <3>1, <3>3
    <3>4. CASE i # 1
      <4>1. i - 1 \in 1..N  BY <2>2, <3>4
      <4>2. f[i - 1] \in Seq(S)  BY <2>3, <4>1
      <4>3. f[i - 1] \o seqs[i] = <<>>  BY <2>1, <3>1, <3>4
      <4> HIDE DEF N
      <4> QED  BY <3>2, <4>2, <4>3, ConcatEmpty
    <3> QED  BY <3>3, <3>4
  <2> QED  BY <2>1, <2>2, <2>3, <2>5
<1> QED  BY <1>1, <1>2

\* A report is empty only if its check passed.
LEMMA ReportEmpty ==
  ASSUME NEW S, NEW e \in S, NEW failed
  PROVE  Report(failed, e) \in Seq(S) /\ (Report(failed, e) = <<>> => ~failed)
  BY DEF Report

\* A finite set can be ranged over.
LEMMA RangeExists ==
  ASSUME NEW D, IsFiniteSet(D)
  PROVE  SetToSeqs(D) # {}
<1>1. PICK f : f \in Bijection(1..Cardinality(D), D)
  BY FS_CardinalityType DEF ExistsBijection
<1>2. /\ f \in [1..Cardinality(D) -> D]
      /\ \A i, j \in 1..Cardinality(D) : f[i] = f[j] => i = j
  BY <1>1 DEF Bijection, Injection, IsInjective
<1>3. f \in SetToSeqs(D)
  BY <1>2 DEF SetToSeqs
<1> QED  BY <1>3

\* Every spec has an order of its responses, so a set of error texts without a
\* text means that the validation found no error in some run.
LEMMA OrderingExists ==
  ASSUME NEW s, IsSpec(s)
  PROVE  Orderings(s) # {}
<1> DEFINE sc == s.scenarios
           orders(i) == SetToSeqs(DOMAIN sc[i].responses)
           o == [i \in DOMAIN sc |-> CHOOSE x : x \in orders(i)]
<1>1. ASSUME NEW i \in DOMAIN sc PROVE o[i] \in orders(i)
  <2>1. IsScenario(sc[i])
    BY DEF IsSpec, ToSet
  <2>2. orders(i) # {}
    BY <2>1, RangeExists DEF IsScenario
  <2>3. o[i] = CHOOSE x : x \in orders(i)
    OBVIOUS
  <2> HIDE DEF orders, o
  <2> QED  BY <2>2, <2>3
<1>2. o \in [DOMAIN sc -> UNION {orders(i) : i \in DOMAIN sc}]
  <2> HIDE DEF orders
  <2> QED  BY <1>1
<1>3. o \in Orderings(s)
  BY <1>1, <1>2 DEF Orderings
<1> QED  BY <1>3

\* An admitted manifest has passed the validation, in a development
\* environment and without a production label.
LEMMA AdmittedPasses ==
  ASSUME NEW s, NEW p, NEW e, IsSpec(s), Admitted(s, p, e)
  PROVE  /\ ~IsProd(e) /\ ~p
         /\ \E o \in Orderings(s) : SpecErrors(s, o) = <<>>
<1>1. Denials(s, p, e) = {}
  BY DEF Admitted
<1>2. ~IsProd(e) /\ ~p
  BY <1>1 DEF Denials
<1>3. ValidateSpec(s) \subseteq {<<>>}
  BY <1>1, <1>2 DEF Denials
<1> QED  BY <1>2, <1>3, OrderingExists DEF ValidateSpec

\* The entries of an error list, for the given map keys.
Errors(keys) ==
  [field : {"thirdParties", "scenarios", "host", "port", "backendPort", "backendHost",
            "operation", "body", "responses", "microcksService", "virtualBackend"},
   at : Int, key : keys \cup {""},
   why : {"required", "invalid", "duplicate", "not found", "not supported"}]

LEMMA ErrIsError ==
  ASSUME NEW K, NEW i \in Int, NEW k \in K \cup {""},
         NEW f \in {"thirdParties", "scenarios", "host", "port", "backendPort", "backendHost",
                    "operation", "body", "responses", "microcksService", "virtualBackend"},
         NEW why \in {"required", "invalid", "duplicate", "not found", "not supported"}
  PROVE  Err(f, i, k, why) \in Errors(K)
  BY DEF Err, Errors

\* The name rule reports nothing only for a well-formed name that is new.
LEMMA NameErrorsEmpty ==
  ASSUME NEW K, NEW list, NEW i \in Int, NEW f \in {"thirdParties", "scenarios"}
  PROVE  /\ NameErrors(f, list, i) \in Seq(Errors(K))
         /\ NameErrors(f, list, i) = <<>> =>
              /\ ~list[i].name.pad /\ list[i].name.v \in DnsLabels
              /\ list[i].name.v \notin NamesBefore(list, i)
<1> DEFINE S == Errors(K)
           a == Err(f, i, "", "required")
           b == Err(f, i, "", "invalid")
           c == Err(f, i, "", "duplicate")
<1>1. a \in S /\ b \in S /\ c \in S
  BY ErrIsError
<1>2. NameErrors(f, list, i) =
        IF Blank(list[i].name) THEN <<a>>
        ELSE IF list[i].name.pad \/ list[i].name.v \notin DnsLabels THEN <<b>>
        ELSE Report(list[i].name.v \in NamesBefore(list, i), c)
  BY DEF NameErrors
<1>3. /\ Report(list[i].name.v \in NamesBefore(list, i), c) \in Seq(S)
      /\ Report(list[i].name.v \in NamesBefore(list, i), c) = <<>>
           => list[i].name.v \notin NamesBefore(list, i)
  BY <1>1, ReportEmpty
<1> HIDE DEF S, a, b, c
<1>4. <<a>> \in Seq(S) /\ <<b>> \in Seq(S) /\ <<a>> # <<>> /\ <<b>> # <<>>
  BY <1>1
<1> QED  BY <1>2, <1>3, <1>4 DEF S

\* The host rule reports nothing only for a host name that is new.
LEMMA HostErrorsEmpty ==
  ASSUME NEW K, NEW list, NEW i \in Int
  PROVE  /\ HostErrors(list, i) \in Seq(Errors(K))
         /\ HostErrors(list, i) = <<>> =>
              /\ list[i].host.v \in Hostnames
              /\ list[i].host.v \notin HostsBefore(list, i)
<1> DEFINE S == Errors(K)
           a == Err("host", i, "", "required")
           b == Err("host", i, "", "invalid")
           c == Err("host", i, "", "duplicate")
           host == list[i].host.v
<1>1. a \in S /\ b \in S /\ c \in S
  BY ErrIsError
<1>2. HostErrors(list, i) =
        IF host = "" THEN <<a>>
        ELSE IF host \notin Hostnames THEN <<b>>
        ELSE Report(host \in HostsBefore(list, i), c)
  BY DEF HostErrors
<1>3. /\ Report(host \in HostsBefore(list, i), c) \in Seq(S)
      /\ Report(host \in HostsBefore(list, i), c) = <<>> => host \notin HostsBefore(list, i)
  BY <1>1, ReportEmpty
<1> HIDE DEF S, a, b, c
<1>4. <<a>> \in Seq(S) /\ <<b>> \in Seq(S) /\ <<a>> # <<>> /\ <<b>> # <<>>
  BY <1>1
<1> QED  BY <1>2, <1>3, <1>4 DEF S

\* What a third party is that no error is reported for.
PartyOK(list, i) ==
  /\ ~list[i].name.pad /\ list[i].name.v \in DnsLabels
  /\ list[i].name.v \notin NamesBefore(list, i)
  /\ list[i].host.v \in Hostnames /\ list[i].host.v \notin HostsBefore(list, i)
  /\ list[i].port \in Ports /\ list[i].backendPort \in {0} \cup Ports
  /\ Blank(list[i].backendHost) \/ list[i].backendHost.v \in Hostnames

LEMMA ThirdPartyErrorsEmpty ==
  ASSUME NEW K, NEW list, NEW i \in Int
  PROVE  /\ ThirdPartyErrors(list, i) \in Seq(Errors(K))
         /\ ThirdPartyErrors(list, i) = <<>> => PartyOK(list, i)
<1> DEFINE S == Errors(K)
           a == NameErrors("thirdParties", list, i)
           b == HostErrors(list, i)
           badPort == list[i].port \notin Ports
           c == Report(badPort, Err("port", i, "", "invalid"))
           badBackendPort == list[i].backendPort # 0 /\ list[i].backendPort \notin Ports
           d == Report(badBackendPort, Err("backendPort", i, "", "invalid"))
           badBackend == ~Blank(list[i].backendHost) /\ list[i].backendHost.v \notin Hostnames
           e == Report(badBackend, Err("backendHost", i, "", "invalid"))
<1>1. ThirdPartyErrors(list, i) = a \o b \o c \o d \o e
  BY DEF ThirdPartyErrors
<1>2. /\ Err("port", i, "", "invalid") \in S
      /\ Err("backendPort", i, "", "invalid") \in S
      /\ Err("backendHost", i, "", "invalid") \in S
  BY ErrIsError
<1>3. a \in Seq(S) /\ b \in Seq(S)
  BY NameErrorsEmpty, HostErrorsEmpty
<1>4. /\ c \in Seq(S) /\ (c = <<>> => ~badPort)
      /\ d \in Seq(S) /\ (d = <<>> => ~badBackendPort)
      /\ e \in Seq(S) /\ (e = <<>> => ~badBackend)
  <2> HIDE DEF S, badPort, badBackendPort, badBackend
  <2> QED  BY <1>2, ReportEmpty DEF c, d, e
<1>5. c \in Seq(S) /\ d \in Seq(S) /\ e \in Seq(S)
  <2> HIDE DEF badPort, badBackendPort, badBackend, c, d, e
  <2> QED  BY <1>4
<1>6. a = <<>> => /\ ~list[i].name.pad /\ list[i].name.v \in DnsLabels
                  /\ list[i].name.v \notin NamesBefore(list, i)
  BY NameErrorsEmpty
<1>7. b = <<>> => list[i].host.v \in Hostnames /\ list[i].host.v \notin HostsBefore(list, i)
  BY HostErrorsEmpty
<1>8. /\ a \o b \o c \o d \o e \in Seq(S)
      /\ a \o b \o c \o d \o e = <<>> =>
           a = <<>> /\ b = <<>> /\ c = <<>> /\ d = <<>> /\ e = <<>>
  <2> HIDE DEF S, a, b, c, d, e
  <2> QED  BY <1>3, <1>5, FiveEmpty
<1> HIDE DEF S, a, b, c, d, e, badPort, badBackendPort, badBackend
<1>9. SUFFICES ASSUME ThirdPartyErrors(list, i) = <<>> PROVE PartyOK(list, i)
  BY <1>1, <1>8 DEF S
<1>10. a = <<>> /\ b = <<>> /\ c = <<>> /\ d = <<>> /\ e = <<>>
  BY <1>1, <1>8, <1>9
<1>11. ~badPort /\ ~badBackendPort /\ ~badBackend
  BY <1>4, <1>10
<1>12. list[i].port \in Ports
  BY <1>11 DEF badPort
<1>13. list[i].backendPort \in {0} \cup Ports
  BY <1>11 DEF badBackendPort
<1>14. Blank(list[i].backendHost) \/ list[i].backendHost.v \in Hostnames
  BY <1>11 DEF badBackend
<1>15. /\ ~list[i].name.pad /\ list[i].name.v \in DnsLabels
       /\ list[i].name.v \notin NamesBefore(list, i)
       /\ list[i].host.v \in Hostnames /\ list[i].host.v \notin HostsBefore(list, i)
  BY <1>6, <1>7, <1>10
<1> QED  BY <1>12, <1>15, <1>13, <1>14 DEF PartyOK

\* A list built index by index from error lists is a list of error lists.
LEMMA FlattenMapEmpty ==
  ASSUME NEW S, NEW f, NEW n \in Nat, DOMAIN f = 1..n, f = [i \in 1..n |-> f[i]],
         \A i \in 1..n : f[i] \in Seq(S)
  PROVE  /\ FlattenSeq(f) \in Seq(S)
         /\ FlattenSeq(f) = <<>> => \A i \in 1..n : f[i] = <<>>
<1>1. f \in [1..n -> Seq(S)]
  OBVIOUS
<1>2. f \in Seq(Seq(S)) /\ Len(f) = n
  BY <1>1
<1> QED  BY <1>2, FlattenEmpty

\* An operation passes only with a name and a body.
LEMMA OperationErrorsEmpty ==
  ASSUME NEW K, NEW i \in Int, NEW key \in K, NEW op
  PROVE  /\ OperationErrors(i, key, op) \in Seq(Errors(K))
         /\ OperationErrors(i, key, op) = <<>> => ~Blank(op.operation) /\ ~Blank(op.body)
<1> DEFINE S == Errors(K)
           c == Blank(op.operation)
           d == Blank(op.body)
           a == Report(c, Err("operation", i, key, "required"))
           b == Report(d, Err("body", i, key, "required"))
<1>1. OperationErrors(i, key, op) = a \o b
  BY DEF OperationErrors
<1>2. Err("operation", i, key, "required") \in S /\ Err("body", i, key, "required") \in S
  BY ErrIsError
<1>3. a \in Seq(S) /\ (a = <<>> => ~c) /\ b \in Seq(S) /\ (b = <<>> => ~d)
  <2> HIDE DEF S, c, d
  <2> QED  BY <1>2, ReportEmpty DEF a, b
<1> HIDE DEF S, a, b, c, d
<1>4. a \o b \in Seq(S) /\ (a \o b = <<>> => a = <<>> /\ b = <<>>)
  BY <1>3, ConcatEmpty
<1>5. a \o b = <<>> => ~c /\ ~d
  BY <1>3, <1>4
<1> QED  BY <1>1, <1>4, <1>5 DEF S, c, d

\* What a scenario's responses to one third party are when no error is
\* reported for them.
ResponseOK(s, i, key) ==
  LET ops == s.scenarios[i].responses[key]
  IN  /\ ThirdPartyNames(s) # {} => key \in ThirdPartyNames(s)
      /\ ops # <<>>
      /\ \A j \in DOMAIN ops : ~Blank(ops[j].operation) /\ ~Blank(ops[j].body)

LEMMA ResponseErrorsEmpty ==
  ASSUME NEW K, NEW s, IsSpec(s), NEW i \in DOMAIN s.scenarios,
         NEW key \in K, key \in DOMAIN s.scenarios[i].responses
  PROVE  /\ ResponseErrors(s, i, key) \in Seq(Errors(K))
         /\ ResponseErrors(s, i, key) = <<>> => ResponseOK(s, i, key)
<1> DEFINE S == Errors(K)
           ops == s.scenarios[i].responses[key]
           names == ThirdPartyNames(s)
           c == names # {} /\ key \notin names
           d == ops = <<>>
           a == Report(c, Err("responses", i, key, "not found"))
           b == Report(d, Err("responses", i, key, "required"))
           f == [j \in DOMAIN ops |-> OperationErrors(i, key, ops[j])]
           e == FlattenSeq(f)
<1>1. ResponseErrors(s, i, key) = a \o b \o e
  BY DEF ResponseErrors
<1>2. i \in Int /\ IsScenario(s.scenarios[i])
  BY DEF IsSpec, ToSet
<1>3. ops \in Seq(ScenarioOperationBody)
  BY <1>2 DEF IsScenario
<1>4. Err("responses", i, key, "not found") \in S /\ Err("responses", i, key, "required") \in S
  BY <1>2, ErrIsError
<1>5. a \in Seq(S) /\ (a = <<>> => ~c) /\ b \in Seq(S) /\ (b = <<>> => ~d)
  <2> HIDE DEF S, c, d
  <2> QED  BY <1>4, ReportEmpty DEF a, b
<1>6. /\ e \in Seq(S)
      /\ e = <<>> => \A j \in DOMAIN ops : ~Blank(ops[j].operation) /\ ~Blank(ops[j].body)
  <2>1. Len(ops) \in Nat /\ DOMAIN ops = 1..Len(ops)
    BY <1>3
  <2>2. \A j \in DOMAIN ops :
           /\ f[j] \in Seq(S)
           /\ f[j] = <<>> => ~Blank(ops[j].operation) /\ ~Blank(ops[j].body)
    <3> HIDE DEF ops
    <3> QED  BY <1>2, OperationErrorsEmpty
  <2>3. DOMAIN f = DOMAIN ops /\ f = [j \in DOMAIN ops |-> f[j]]
    OBVIOUS
  <2> HIDE DEF f, S, ops
  <2>. DEFINE l == Len(ops)
  <2>4. /\ l \in Nat /\ \A j \in 1..l : f[j] \in Seq(S)
        /\ DOMAIN f = 1..l /\ f = [j \in 1..l |-> f[j]]
    BY <2>1, <2>2, <2>3
  <2>. HIDE DEF l
  <2>5. FlattenSeq(f) \in Seq(S) /\ (FlattenSeq(f) = <<>> => \A j \in 1..l : f[j] = <<>>)
    BY <2>4, FlattenMapEmpty
  <2> QED  BY <2>1, <2>2, <2>5 DEF l
<1> HIDE DEF S, a, b, e
<1>7. a \o b \in Seq(S) /\ (a \o b = <<>> => a = <<>> /\ b = <<>>)
  BY <1>5, ConcatEmpty
<1>8. a \o b \o e \in Seq(S) /\ (a \o b \o e = <<>> => a \o b = <<>> /\ e = <<>>)
  BY <1>6, <1>7, ConcatEmpty
<1>9. ASSUME a \o b \o e = <<>> PROVE ResponseOK(s, i, key)
  <2>1. ~c /\ ~d /\ e = <<>>
    BY <1>5, <1>7, <1>8, <1>9
  <2> QED  BY <1>6, <2>1 DEF ResponseOK
<1> QED  BY <1>1, <1>8, <1>9 DEF S

\* Ranging over a map visits every key.
LEMMA RangeCovers ==
  ASSUME NEW D, IsFiniteSet(D), NEW f \in SetToSeqs(D)
  PROVE  /\ Cardinality(D) \in Nat
         /\ f \in [1..Cardinality(D) -> D]
         /\ \A k \in D : \E j \in 1..Cardinality(D) : f[j] = k
<1> DEFINE n == Cardinality(D)
<1>1. n \in Nat
  BY FS_CardinalityType
<1>2. f \in [1..n -> D] /\ \A i, j \in 1..n : i # j => f[i] # f[j]
  BY DEF SetToSeqs
<1>3. f \in Injection(1..n, D)
  BY <1>2 DEF Injection, IsInjective
<1>4. Cardinality(1..n) = n
  BY <1>1, FS_Interval
<1>5. f \in Surjection(1..n, D)
  BY <1>3, <1>4, FS_Injection
<1> QED  BY <1>1, <1>2, <1>5 DEF Surjection

\* What a scenario is that no error is reported for.
ScenarioOK(s, i) ==
  LET sc == s.scenarios[i]
  IN  /\ ~sc.name.pad /\ sc.name.v \in DnsLabels
      /\ sc.name.v \notin NamesBefore(s.scenarios, i)
      /\ DOMAIN sc.responses # {}
      /\ \A key \in DOMAIN sc.responses : ResponseOK(s, i, key)

LEMMA ScenarioErrorsEmpty ==
  ASSUME NEW K, NEW s, IsSpec(s), NEW i \in DOMAIN s.scenarios,
         DOMAIN s.scenarios[i].responses \subseteq K,
         NEW order \in SetToSeqs(DOMAIN s.scenarios[i].responses)
  PROVE  /\ ScenarioErrors(s, i, order) \in Seq(Errors(K))
         /\ ScenarioErrors(s, i, order) = <<>> => ScenarioOK(s, i)
<1> DEFINE S == Errors(K)
           D == DOMAIN s.scenarios[i].responses
           n == Cardinality(D)
           none == order = <<>>
           a == NameErrors("scenarios", s.scenarios, i)
           b == Report(none, Err("responses", i, "", "required"))
           f == [j \in DOMAIN order |-> ResponseErrors(s, i, order[j])]
           e == FlattenSeq(f)
<1>1. ScenarioErrors(s, i, order) = a \o b \o e
  BY DEF ScenarioErrors
<1>2. i \in Int /\ IsScenario(s.scenarios[i])
  BY DEF IsSpec, ToSet
<1>3. IsFiniteSet(D)
  BY <1>2 DEF IsScenario
<1>4. /\ n \in Nat /\ order \in [1..n -> D]
      /\ \A k \in D : \E j \in 1..n : order[j] = k
  BY <1>3, RangeCovers
<1>5. a \in Seq(S) /\ (a = <<>> => /\ ~s.scenarios[i].name.pad
                                   /\ s.scenarios[i].name.v \in DnsLabels
                                   /\ s.scenarios[i].name.v \notin NamesBefore(s.scenarios, i))
  BY <1>2, NameErrorsEmpty
<1>6. b \in Seq(S) /\ (b = <<>> => ~none)
  <2>1. Err("responses", i, "", "required") \in S
    BY <1>2, ErrIsError
  <2> HIDE DEF S, none
  <2> QED  BY <2>1, ReportEmpty DEF b
<1>7. /\ e \in Seq(S)
      /\ e = <<>> => \A key \in D : ResponseOK(s, i, key)
  <2>1. DOMAIN order = 1..n /\ DOMAIN f = 1..n /\ f = [j \in 1..n |-> f[j]]
    BY <1>4
  <2>2. \A j \in 1..n :
           /\ f[j] \in Seq(S)
           /\ f[j] = <<>> => ResponseOK(s, i, order[j])
    <3> SUFFICES ASSUME NEW j \in 1..n
                 PROVE  /\ f[j] \in Seq(S)
                        /\ f[j] = <<>> => ResponseOK(s, i, order[j])
      OBVIOUS
    <3>1. f[j] = ResponseErrors(s, i, order[j])
      BY <2>1
    <3>2. order[j] \in K /\ order[j] \in D
      BY <1>4
    <3> HIDE DEF f
    <3> QED  BY <3>1, <3>2, ResponseErrorsEmpty
  <2> HIDE DEF f, S, n, D
  <2>3. n \in Nat /\ \A j \in 1..n : f[j] \in Seq(S)
    BY <1>4, <2>2
  <2>4. DOMAIN f = 1..n /\ f = [j \in 1..n |-> f[j]]
    BY <2>1
  <2>5. FlattenSeq(f) \in Seq(S) /\ (FlattenSeq(f) = <<>> => \A j \in 1..n : f[j] = <<>>)
    BY <2>3, <2>4, FlattenMapEmpty
  <2> QED  BY <1>4, <2>2, <2>5
<1> HIDE DEF S, a, b, e
<1>8. a \o b \in Seq(S) /\ (a \o b = <<>> => a = <<>> /\ b = <<>>)
  BY <1>5, <1>6, ConcatEmpty
<1>9. a \o b \o e \in Seq(S) /\ (a \o b \o e = <<>> => a \o b = <<>> /\ e = <<>>)
  BY <1>7, <1>8, ConcatEmpty
<1>10. ASSUME a \o b \o e = <<>> PROVE ScenarioOK(s, i)
  <2>1. a = <<>> /\ ~none /\ e = <<>>
    BY <1>6, <1>8, <1>9, <1>10
  <2>2. D # {}
    <3> SUFFICES ASSUME D = {} PROVE FALSE  OBVIOUS
    <3>1. n = 0  BY FS_EmptySet
    <3>2. order = <<>>
      <4> HIDE DEF D
      <4> QED  BY <1>4, <3>1
    <3> QED  BY <2>1, <3>2
  <2> QED  BY <1>5, <1>7, <2>1, <2>2 DEF ScenarioOK
<1> QED  BY <1>1, <1>9, <1>10 DEF S

\* The six parts of the error list of a spec.
LEMMA SixEmpty ==
  ASSUME NEW S, NEW a \in Seq(S), NEW b \in Seq(S), NEW c \in Seq(S), NEW d \in Seq(S),
         NEW e \in Seq(S), NEW f \in Seq(S)
  PROVE  /\ a \o b \o c \o d \o e \o f \in Seq(S)
         /\ a \o b \o c \o d \o e \o f = <<>> =>
              a = <<>> /\ b = <<>> /\ c = <<>> /\ d = <<>> /\ e = <<>> /\ f = <<>>
<1> DEFINE abcde == a \o b \o c \o d \o e
<1>1. abcde \in Seq(S)
  BY FiveEmpty
<1>2. abcde \o f \in Seq(S) /\ (abcde \o f = <<>> => abcde = <<>> /\ f = <<>>)
  <2> HIDE DEF abcde
  <2> QED  BY <1>1, ConcatEmpty
<1>3. abcde = <<>> => a = <<>> /\ b = <<>> /\ c = <<>> /\ d = <<>> /\ e = <<>>
  BY FiveEmpty
<1>4. abcde \o f = a \o b \o c \o d \o e \o f
  OBVIOUS
<1> HIDE DEF abcde
<1> QED  BY <1>2, <1>3, <1>4

ResponseKeys(s) == UNION {DOMAIN s.scenarios[i].responses : i \in DOMAIN s.scenarios}

\* A spec without an error has no faulty third party, no faulty scenario and no
\* virtual backend that cannot be split.
LEMMA SpecErrorsEmpty ==
  ASSUME NEW s, IsSpec(s), NEW o \in Orderings(s)
  PROVE  /\ SpecErrors(s, o) \in Seq(Errors(ResponseKeys(s)))
         /\ SpecErrors(s, o) = <<>> =>
              /\ s.thirdParties # <<>> /\ s.scenarios # <<>>
              /\ \A i \in DOMAIN s.thirdParties : PartyOK(s.thirdParties, i)
              /\ \A i \in DOMAIN s.scenarios : ScenarioOK(s, i)
              /\ s.microcksService = NoHostPort \/ ~validateHostPort(s.microcksService)
<1> DEFINE K == ResponseKeys(s)
           S == Errors(K)
           tps == s.thirdParties
           scs == s.scenarios
           noParty == tps = <<>>
           noScenario == scs = <<>>
           badService == s.microcksService # NoHostPort /\ validateHostPort(s.microcksService)
           badBackend == ~Blank(s.virtualBackend)
                           /\ s.virtualBackend.v \notin {BackendTeachingMock, BackendMicrocks}
           a == Report(noParty, Err("thirdParties", 0, "", "required"))
           b == Report(noScenario, Err("scenarios", 0, "", "required"))
           f == [i \in DOMAIN tps |-> ThirdPartyErrors(tps, i)]
           g == [i \in DOMAIN scs |-> ScenarioErrors(s, i, o[i])]
           c == FlattenSeq(f)
           d == FlattenSeq(g)
           e == Report(badService, Err("microcksService", 0, "", "invalid"))
           h == Report(badBackend, Err("virtualBackend", 0, "", "not supported"))
<1>1. SpecErrors(s, o) = a \o b \o c \o d \o e \o h
  BY DEF SpecErrors
<1>2. /\ Err("thirdParties", 0, "", "required") \in S
      /\ Err("scenarios", 0, "", "required") \in S
      /\ Err("microcksService", 0, "", "invalid") \in S
      /\ Err("virtualBackend", 0, "", "not supported") \in S
  <2> HIDE DEF K
  <2> QED  BY DEF Err, Errors
<1>3. /\ a \in Seq(S) /\ (a = <<>> => ~noParty)
      /\ b \in Seq(S) /\ (b = <<>> => ~noScenario)
      /\ e \in Seq(S) /\ (e = <<>> => ~badService)
      /\ h \in Seq(S)
  <2> HIDE DEF S, noParty, noScenario, badService, badBackend
  <2> QED  BY <1>2, ReportEmpty DEF a, b, e, h
<1>4. c \in Seq(S) /\ (c = <<>> => \A i \in DOMAIN tps : PartyOK(tps, i))
  <2>1. Len(tps) \in Nat /\ DOMAIN tps = 1..Len(tps)
    BY DEF IsSpec
  <2>2. \A i \in 1..Len(tps) :
           /\ f[i] \in Seq(S)
           /\ f[i] = <<>> => PartyOK(tps, i)
    <3> SUFFICES ASSUME NEW i \in 1..Len(tps)
                 PROVE  f[i] \in Seq(S) /\ (f[i] = <<>> => PartyOK(tps, i))
      OBVIOUS
    <3>1. f[i] = ThirdPartyErrors(tps, i)
      BY <2>1
    <3> HIDE DEF f, tps
    <3> QED  BY <3>1, ThirdPartyErrorsEmpty
  <2>3. DOMAIN f = 1..Len(tps) /\ f = [i \in 1..Len(tps) |-> f[i]]
    BY <2>1
  <2> HIDE DEF f, S, tps
  <2>4. FlattenSeq(f) \in Seq(S) /\ (FlattenSeq(f) = <<>> => \A i \in 1..Len(tps) : f[i] = <<>>)
    BY <2>1, <2>2, <2>3, FlattenMapEmpty
  <2> QED  BY <2>1, <2>2, <2>4
<1>5. d \in Seq(S) /\ (d = <<>> => \A i \in DOMAIN scs : ScenarioOK(s, i))
  <2>1. Len(scs) \in Nat /\ DOMAIN scs = 1..Len(scs)
    BY DEF IsSpec
  <2>2. \A i \in 1..Len(scs) :
           /\ g[i] \in Seq(S)
           /\ g[i] = <<>> => ScenarioOK(s, i)
    <3> SUFFICES ASSUME NEW i \in 1..Len(scs)
                 PROVE  g[i] \in Seq(S) /\ (g[i] = <<>> => ScenarioOK(s, i))
      OBVIOUS
    <3>1. g[i] = ScenarioErrors(s, i, o[i])
      BY <2>1
    <3>2. i \in DOMAIN s.scenarios /\ DOMAIN s.scenarios[i].responses \subseteq K
      BY <2>1 DEF ResponseKeys
    <3>3. o[i] \in SetToSeqs(DOMAIN s.scenarios[i].responses)
      BY <3>2 DEF Orderings
    <3> HIDE DEF g, K
    <3> QED  BY <3>1, <3>2, <3>3, ScenarioErrorsEmpty
  <2>3. DOMAIN g = 1..Len(scs) /\ g = [i \in 1..Len(scs) |-> g[i]]
    BY <2>1
  <2> HIDE DEF g, S, scs
  <2>4. FlattenSeq(g) \in Seq(S) /\ (FlattenSeq(g) = <<>> => \A i \in 1..Len(scs) : g[i] = <<>>)
    BY <2>1, <2>2, <2>3, FlattenMapEmpty
  <2> QED  BY <2>1, <2>2, <2>4
<1>6. /\ SpecErrors(s, o) \in Seq(S)
      /\ SpecErrors(s, o) = <<>> => a = <<>> /\ b = <<>> /\ c = <<>> /\ d = <<>> /\ e = <<>>
  <2> HIDE DEF a, b, c, d, e, h, S
  <2> QED  BY <1>1, <1>3, <1>4, <1>5, SixEmpty
<1> HIDE DEF a, b, c, d, e
<1> QED  BY <1>3, <1>4, <1>5, <1>6

\* What a spec is that the operator admits: the third parties have names,
\* hosts and ports in range, no two of them share a name or, white space
\* aside, a host, a scenario answers for third parties of the spec only, and
\* a virtual backend that is given has a hostname.
WellFormed(s) ==
  /\ s.thirdParties # <<>> /\ s.scenarios # <<>>
  /\ \A i \in DOMAIN s.thirdParties :
       LET tp == s.thirdParties[i]
       IN  /\ ~tp.name.pad /\ tp.name.v \in DnsLabels
           /\ tp.host.v \in Hostnames
           /\ tp.port \in Ports /\ tp.backendPort \in {0} \cup Ports
           /\ Blank(tp.backendHost) \/ tp.backendHost.v \in Hostnames
  /\ \A i, j \in DOMAIN s.thirdParties :
       \/ s.thirdParties[i].name.v = s.thirdParties[j].name.v
       \/ s.thirdParties[i].host.v = s.thirdParties[j].host.v
       => i = j
  /\ \A i, j \in DOMAIN s.scenarios : s.scenarios[i].name.v = s.scenarios[j].name.v => i = j
  /\ \A i \in DOMAIN s.scenarios : \A key \in DOMAIN s.scenarios[i].responses :
       /\ \E j \in DOMAIN s.thirdParties : s.thirdParties[j].name.v = key
       /\ s.scenarios[i].responses[key] # <<>>
  /\ s.microcksService = NoHostPort \/ s.microcksService.host \in Hostnames

LEMMA SeqElement ==
  ASSUME NEW S, NEW s \in Seq(S), NEW e, Len(s) = 1, s[1] = e
  PROVE  e \in S
<1>1. s \in [1..Len(s) -> S]
  OBVIOUS
<1>. QED  BY <1>1

\* No spec error reads like the refusal of an environment.
LEMMA SpecErrorsSpeakOfSpec ==
  ASSUME NEW s, IsSpec(s), NEW text \in ValidateSpec(s)
  PROVE  text # <<Err("environment", 0, "", "forbidden")>>
<1>1. PICK o \in Orderings(s) : text = SpecErrors(s, o)
  BY DEF ValidateSpec
<1>2. text \in Seq(Errors(ResponseKeys(s)))
  BY <1>1, SpecErrorsEmpty
<1>3. ASSUME text = <<Err("environment", 0, "", "forbidden")>>
      PROVE  Len(text) = 1 /\ text[1] = Err("environment", 0, "", "forbidden")
  BY <1>3
<1>4. ASSUME text = <<Err("environment", 0, "", "forbidden")>>
      PROVE  Err("environment", 0, "", "forbidden") \in Errors(ResponseKeys(s))
  BY <1>2, <1>3, <1>4, SeqElement
<1>. QED  BY <1>4 DEF Err, Errors

\* validate.go:25: a spec the operator admits, of whatever length, and however
\* Go ranges over its maps, is well formed.
THEOREM AdmittedWellFormed ==
  ASSUME NEW s, NEW p, NEW e, IsSpec(s), Admitted(s, p, e)
  PROVE  WellFormed(s)
<1> DEFINE tps == s.thirdParties
           scs == s.scenarios
<1>1. PICK o \in Orderings(s) : SpecErrors(s, o) = <<>>
  BY AdmittedPasses
<1>2. /\ tps # <<>> /\ scs # <<>>
      /\ \A i \in DOMAIN tps : PartyOK(tps, i)
      /\ \A i \in DOMAIN scs : ScenarioOK(s, i)
      /\ s.microcksService = NoHostPort \/ ~validateHostPort(s.microcksService)
  BY <1>1, SpecErrorsEmpty
<1>3. /\ Len(tps) \in Nat /\ DOMAIN tps = 1..Len(tps)
      /\ Len(scs) \in Nat /\ DOMAIN scs = 1..Len(scs)
  BY DEF IsSpec
<1>4. ASSUME NEW i \in DOMAIN tps, NEW j \in DOMAIN tps, i < j
      PROVE  tps[i].name.v # tps[j].name.v /\ tps[i].host.v # tps[j].host.v
  <2>1. i \in 1..(j - 1)
    BY <1>3, <1>4
  <2>2. tps[i].name.v \in NamesBefore(tps, j) /\ tps[i].host.v \in HostsBefore(tps, j)
    BY <1>2, <2>1 DEF PartyOK, NamesBefore, HostsBefore
  <2> QED  BY <1>2, <2>2 DEF PartyOK
<1>5. ASSUME NEW i \in DOMAIN scs, NEW j \in DOMAIN scs, i < j
      PROVE  scs[i].name.v # scs[j].name.v
  <2>1. i \in 1..(j - 1)
    BY <1>3, <1>5
  <2>2. scs[i].name.v \in NamesBefore(scs, j)
    BY <1>2, <2>1 DEF ScenarioOK, NamesBefore
  <2> QED  BY <1>2, <2>2 DEF ScenarioOK
<1>6. ThirdPartyNames(s) = {tps[j].name.v : j \in DOMAIN tps} /\ ThirdPartyNames(s) # {}
  <2>1. 1..(Len(tps) + 1 - 1) = DOMAIN tps /\ 1 \in DOMAIN tps
    BY <1>2, <1>3 DEF IsSpec
  <2>2. ThirdPartyNames(s) = {tps[j].name.v : j \in DOMAIN tps}
    BY <1>2, <2>1 DEF ThirdPartyNames, NamesBefore, PartyOK
  <2> QED  BY <2>1, <2>2
<1>7. ASSUME NEW i \in DOMAIN scs, NEW key \in DOMAIN scs[i].responses
      PROVE  /\ \E j \in DOMAIN tps : tps[j].name.v = key
             /\ scs[i].responses[key] # <<>>
  <2>1. ResponseOK(s, i, key)
    BY <1>2 DEF ScenarioOK
  <2>2. key \in ThirdPartyNames(s) /\ scs[i].responses[key] # <<>>
    BY <1>6, <2>1 DEF ResponseOK
  <2> QED  BY <1>6, <2>2
<1>8. \A i, j \in DOMAIN tps : tps[i].name.v = tps[j].name.v \/ tps[i].host.v = tps[j].host.v => i = j
  <2>1. \A i, j \in DOMAIN tps : i = j \/ i < j \/ j < i
    BY <1>3
  <2> QED  BY <1>4, <2>1
<1>9. \A i, j \in DOMAIN scs : scs[i].name.v = scs[j].name.v => i = j
  <2>1. \A i, j \in DOMAIN scs : i = j \/ i < j \/ j < i
    BY <1>3
  <2> QED  BY <1>5, <2>1
<1>10. s.microcksService = NoHostPort \/ s.microcksService.host \in Hostnames
  BY <1>2 DEF validateHostPort
<1> QED  BY <1>2, <1>7, <1>8, <1>9, <1>10 DEF WellFormed, PartyOK

(***************************************************************************)
(* What Generate returns                                                   *)
(***************************************************************************)

\* The virtual backend a spec's routes lead to.
Microcks(s) == splitHostPort(firstHostPort(s.microcksService, DefaultMicrocksHostPort))

\* Which third party, and which of its three objects, index i > n stands for.
PartyAt(i, n) == (i - n + 2) \div 3
PartAt(i, n) == ((i - n - 1) % 3) + 1

LEMMA PlaceOfIndex ==
  ASSUME NEW n \in Nat, NEW L \in Nat, NEW i \in Int, i > n, i <= n + 3 * L
  PROVE  /\ PartyAt(i, n) \in 1..L /\ PartAt(i, n) \in 1..3
         /\ i = n + 3 * (PartyAt(i, n) - 1) + PartAt(i, n)
  BY DEF PartyAt, PartAt

LEMMA PairParts ==
  ASSUME NEW x, NEW y, NEW z, x = <<y, z>>
  PROVE  x[1] = y /\ x[2] = z
  OBVIOUS

\* A pair, perhaps one element more, and a last one: where each of them is.
LEMMA ConcatIndexes ==
  ASSUME NEW S, NEW s \in Seq(S), NEW t \in Seq(S)
  PROVE  /\ s \o t \in Seq(S) /\ Len(s \o t) = Len(s) + Len(t)
         /\ \A i \in 1..Len(s) : (s \o t)[i] = s[i]
         /\ \A i \in 1..Len(t) : (s \o t)[Len(s) + i] = t[i]
<1>1. Len(s) \in Nat /\ Len(t) \in Nat
  OBVIOUS
<1>2. \A i \in 1..(Len(s) + Len(t)) :
         (s \o t)[i] = IF i <= Len(s) THEN s[i] ELSE t[i - Len(s)]
  BY ConcatProperties
<1>3. s \o t \in Seq(S) /\ Len(s \o t) = Len(s) + Len(t)
  BY ConcatProperties
<1>4. \A i \in 1..Len(s) : i \in 1..(Len(s) + Len(t)) /\ i <= Len(s)
  BY <1>1
<1>5. \A i \in 1..Len(t) : /\ Len(s) + i \in 1..(Len(s) + Len(t))
                           /\ ~(Len(s) + i <= Len(s)) /\ Len(s) + i - Len(s) = i
  BY <1>1
<1> QED  BY <1>2, <1>3, <1>4, <1>5

LEMMA SharedTuple ==
  ASSUME NEW a, NEW b, NEW c, NEW d
  PROVE  LET x == <<a, b>> \o <<c>> \o <<d>>
             y == <<a, b>> \o <<>> \o <<d>>
         IN  /\ Len(x) = 4 /\ x[1] = a /\ x[2] = b /\ x[3] = c /\ x[4] = d
             /\ Len(y) = 3 /\ y[1] = a /\ y[2] = b /\ y[3] = d
<1> DEFINE S == {a, b, c, d}
           ab == <<a, b>>
           abc == ab \o <<c>>
<1>1. /\ ab \in Seq(S) /\ <<c>> \in Seq(S) /\ <<d>> \in Seq(S)
      /\ Len(ab) = 2 /\ ab[1] = a /\ ab[2] = b
      /\ Len(<<c>>) = 1 /\ <<c>>[1] = c /\ Len(<<d>>) = 1 /\ <<d>>[1] = d
  OBVIOUS
<1>2. ab \o <<>> = ab
  BY <1>1
<1> HIDE DEF S, ab
<1>3. abc \in Seq(S) /\ Len(abc) = 3 /\ abc[1] = a /\ abc[2] = b /\ abc[3] = c
  BY <1>1, ConcatIndexes, SMTT(30)
<1> HIDE DEF abc
<1>4. LET x == abc \o <<d>>
      IN  Len(x) = 4 /\ x[1] = a /\ x[2] = b /\ x[3] = c /\ x[4] = d
  BY <1>1, <1>3, ConcatIndexes, SMTT(30)
<1>5. LET y == ab \o <<d>>
      IN  Len(y) = 3 /\ y[1] = a /\ y[2] = b /\ y[3] = d
  BY <1>1, ConcatIndexes, SMTT(30)
<1> QED  BY <1>2, <1>4, <1>5 DEF ab, abc

\* Where the shared objects are.
LEMMA SharedPlaces ==
  ASSUME NEW ns, NEW owner, NEW s, NEW microcks
  PROVE  LET a == envoyFilterInbound(ns, owner)
             b == envoyFilterOutbound(ns, owner)
             c == envoyFilterMicrocksRewrite(owner)
             d == destinationRule(ns, owner, <<"", "microcks-grpc">>, microcks.host, microcks.whole)
             shared == SharedObjects(ns, owner, s, microcks)
         IN  \/ Len(shared) = 4 /\ shared[1] = a /\ shared[2] = b /\ shared[3] = c /\ shared[4] = d
             \/ Len(shared) = 3 /\ shared[1] = a /\ shared[2] = b /\ shared[3] = d
<1> DEFINE a == envoyFilterInbound(ns, owner)
           b == envoyFilterOutbound(ns, owner)
           c == envoyFilterMicrocksRewrite(owner)
           d == destinationRule(ns, owner, <<"", "microcks-grpc">>, microcks.host, microcks.whole)
           shared == SharedObjects(ns, owner, s, microcks)
<1>1. shared = <<a, b>> \o <<c>> \o <<d>> \/ shared = <<a, b>> \o <<>> \o <<d>>
  BY DEF SharedObjects
<1> DEFINE x == <<a, b>> \o <<c>> \o <<d>>
           y == <<a, b>> \o <<>> \o <<d>>
<1>2. shared = x \/ shared = y
  BY <1>1
<1> HIDE DEF a, b, c, d, shared
<1>3. /\ Len(x) = 4 /\ x[1] = a /\ x[2] = b /\ x[3] = c /\ x[4] = d
      /\ Len(y) = 3 /\ y[1] = a /\ y[2] = b /\ y[3] = d
  BY SharedTuple
<1> HIDE DEF x, y
<1> QED  BY <1>2, <1>3 DEF a, b, c, d, shared

\* SharedCount is what its name says.
LEMMA SharedCountIs ==
  ASSUME NEW ns, NEW owner, NEW s, NEW microcks
  PROVE  SharedCount(s) = Len(SharedObjects(ns, owner, s, microcks))
<1> DEFINE a == envoyFilterInbound(ns, owner)
           b == envoyFilterOutbound(ns, owner)
           c == envoyFilterMicrocksRewrite(owner)
           d == destinationRule(ns, owner, <<"", "microcks-grpc">>, microcks.host, microcks.whole)
           x == <<a, b>> \o <<c>> \o <<d>>
           y == <<a, b>> \o <<>> \o <<d>>
<1>1. SharedObjects(ns, owner, s, microcks) =
        IF isMicrocksBackend(s.virtualBackend) THEN x ELSE y
  BY DEF SharedObjects
<1> HIDE DEF a, b, c, d
<1>2. Len(x) = 4 /\ Len(y) = 3
  BY SharedTuple
<1> HIDE DEF x, y
<1> QED  BY <1>1, <1>2 DEF SharedCount

\* The shared objects belong to no third party, and no two share a key.
LEMMA SharedKeys ==
  ASSUME NEW ns, NEW owner, NEW s, NEW microcks
  PROVE  LET shared == SharedObjects(ns, owner, s, microcks)
             n == Len(shared)
         IN  /\ n \in {3, 4}
             /\ \A i \in 1..n : shared[i].name[1] = ""
                                 /\ shared[i].kind \in {"EnvoyFilter", "DestinationRule"}
             /\ \A i, j \in 1..n : Key(shared[i]) = Key(shared[j]) => i = j
<1> DEFINE a == envoyFilterInbound(ns, owner)
           b == envoyFilterOutbound(ns, owner)
           c == envoyFilterMicrocksRewrite(owner)
           blank == ""
           inbound == "vf-inbound-capture"
           outbound == "vf-outbound-inject"
           rewrite == "vf-microcks-scenario-rewrite"
           service == "microcks-grpc"
           d == destinationRule(ns, owner, <<blank, service>>, microcks.host, microcks.whole)
           shared == SharedObjects(ns, owner, s, microcks)
<1>1. \/ Len(shared) = 4 /\ shared[1] = a /\ shared[2] = b /\ shared[3] = c /\ shared[4] = d
      \/ Len(shared) = 3 /\ shared[1] = a /\ shared[2] = b /\ shared[3] = d
  BY SharedPlaces
<1>2. /\ a.kind = "EnvoyFilter" /\ a.name = <<blank, inbound>>
      /\ b.kind = "EnvoyFilter" /\ b.name = <<blank, outbound>>
      /\ c.kind = "EnvoyFilter" /\ c.name = <<blank, rewrite>>
      /\ d.kind = "DestinationRule" /\ d.name = <<blank, service>>
  BY DEF envoyFilterInbound, envoyFilterOutbound, envoyFilterMicrocksRewrite,
         destinationRule, Object
<1>3. inbound # outbound /\ inbound # rewrite /\ outbound # rewrite
  OBVIOUS
<1> HIDE DEF a, b, c, d, shared, blank, inbound, outbound, rewrite, service
<1>4. /\ a.name[1] = blank /\ b.name[1] = blank /\ c.name[1] = blank /\ d.name[1] = blank
      /\ a.name[2] = inbound /\ b.name[2] = outbound /\ c.name[2] = rewrite
  BY <1>2, PairParts
<1>5. /\ Key(a) # Key(b) /\ Key(a) # Key(c) /\ Key(a) # Key(d)
      /\ Key(b) # Key(c) /\ Key(b) # Key(d) /\ Key(c) # Key(d)
  <2>1. \A x, y : Key(x) = Key(y) => x.kind = y.kind /\ x.name = y.name
    BY DEF Key
  <2> QED  BY <1>2, <1>4, <1>3, <2>1
<1>6. CASE Len(shared) = 4
  <2>1. shared[1] = a /\ shared[2] = b /\ shared[3] = c /\ shared[4] = d
    BY <1>1, <1>6
  <2>2. \A i \in 1..4 : i = 1 \/ i = 2 \/ i = 3 \/ i = 4
    OBVIOUS
  <2> QED  BY <1>2, <1>4, <1>5, <1>6, <2>1, <2>2 DEF shared, blank
<1>7. CASE Len(shared) = 3
  <2>1. shared[1] = a /\ shared[2] = b /\ shared[3] = d
    BY <1>1, <1>7
  <2>2. \A i \in 1..3 : i = 1 \/ i = 2 \/ i = 3
    OBVIOUS
  <2> QED  BY <1>2, <1>4, <1>5, <1>7, <2>1, <2>2 DEF shared, blank
<1> QED  BY <1>1, <1>6, <1>7

\* The three objects of a third party.
LEMMA PartyKeys ==
  ASSUME NEW ns, NEW owner, NEW tp, NEW microcks, NEW k \in 1..3
  PROVE  LET o == ThirdPartyObjects(ns, owner, tp, microcks)[k]
         IN  /\ o.name[1] = tp.name.v
             /\ k = 1 => o = serviceEntry(ns, owner, tp) /\ o.kind = "ServiceEntry"
             /\ k = 2 => o = virtualService(ns, owner, tp, microcks) /\ o.kind = "VirtualService"
             /\ k = 3 => o.kind = "DestinationRule"
<1> DEFINE se == serviceEntry(ns, owner, tp)
           vs == virtualService(ns, owner, tp, microcks)
           party == <<sanitizeName(tp.name), "-third-party">>
           dr == destinationRule(ns, owner, party, tp.host, FALSE)
<1>1. /\ se.kind = "ServiceEntry" /\ se.name = <<sanitizeName(tp.name), "-serviceentry">>
      /\ vs.kind = "VirtualService" /\ vs.name = <<sanitizeName(tp.name), "-simulation">>
      /\ dr.kind = "DestinationRule" /\ dr.name = <<sanitizeName(tp.name), "-third-party">>
  BY DEF serviceEntry, virtualService, destinationRule, Object
<1>2. ThirdPartyObjects(ns, owner, tp, microcks) = <<se, vs, dr>>
  BY DEF ThirdPartyObjects
<1> HIDE DEF se, vs, dr
<1>3. k = 1 \/ k = 2 \/ k = 3
  OBVIOUS
<1>4. /\ se.name[1] = tp.name.v /\ vs.name[1] = tp.name.v /\ dr.name[1] = tp.name.v
  BY <1>1 DEF sanitizeName
<1> QED  BY <1>1, <1>2, <1>3, <1>4 DEF se, vs

\* Where each object of the generated list comes from: the shared ones, then
\* three for each third party in turn.
LEMMA GenerateAt ==
  ASSUME NEW ns, NEW owner, NEW s, IsSpec(s)
  PROVE  LET G == Generate(ns, owner, s)
             shared == SharedObjects(ns, owner, s, Microcks(s))
             n == Len(shared)
             L == Len(s.thirdParties)
         IN  /\ n \in {3, 4} /\ L \in Nat
             /\ DOMAIN G = 1..(n + 3 * L)
             /\ \A i \in 1..n : i \in DOMAIN G /\ G[i] = shared[i]
             /\ \A i \in DOMAIN G : i > n =>
                  /\ PartyAt(i, n) \in 1..L /\ PartAt(i, n) \in 1..3
                  /\ i = n + 3 * (PartyAt(i, n) - 1) + PartAt(i, n)
                  /\ G[i] = ThirdPartyObjects(ns, owner, s.thirdParties[PartyAt(i, n)],
                                              Microcks(s))[PartAt(i, n)]
             /\ \A p \in 1..L, k \in 1..3 : \E i \in DOMAIN G :
                  G[i] = ThirdPartyObjects(ns, owner, s.thirdParties[p], Microcks(s))[k]
<1> DEFINE G == Generate(ns, owner, s)
           shared == SharedObjects(ns, owner, s, Microcks(s))
           n == Len(shared)
           L == Len(s.thirdParties)
           object(p, k) == ThirdPartyObjects(ns, owner, s.thirdParties[p], Microcks(s))[k]
<1>1. n \in {3, 4} /\ L \in Nat
  <2>1. n \in {3, 4}
    BY SharedKeys
  <2>2. L \in Nat
    BY DEF IsSpec
  <2> QED  BY <2>1, <2>2
<1>2. G = [ i \in 1..(n + 3 * L) |->
              IF i <= n THEN shared[i] ELSE object(PartyAt(i, n), PartAt(i, n)) ]
  <2>1. n = SharedCount(s)
    BY SharedCountIs
  <2> HIDE DEF n
  <2> QED  BY <2>1 DEF Generate, PartyAt, PartAt, Microcks
<1> HIDE DEF n, L, shared, object, G
<1>3. DOMAIN G = 1..(n + 3 * L)
  BY <1>2
<1>4. ASSUME NEW i \in 1..n PROVE i \in DOMAIN G /\ G[i] = shared[i]
  BY <1>1, <1>2
<1>5. ASSUME NEW i \in DOMAIN G, i > n
      PROVE  /\ PartyAt(i, n) \in 1..L /\ PartAt(i, n) \in 1..3
             /\ i = n + 3 * (PartyAt(i, n) - 1) + PartAt(i, n)
             /\ G[i] = object(PartyAt(i, n), PartAt(i, n))
  <2>1. n \in Nat /\ i \in Int /\ i <= n + 3 * L /\ ~(i <= n)
    BY <1>1, <1>3, <1>5
  <2>2. G[i] = object(PartyAt(i, n), PartAt(i, n))
    BY <1>2, <1>3, <2>1
  <2> QED  BY <1>1, <1>5, <2>1, <2>2, PlaceOfIndex
<1>6. ASSUME NEW p \in 1..L, NEW k \in 1..3
      PROVE  \E i \in DOMAIN G : G[i] = object(p, k)
  <2> DEFINE i == n + 3 * (p - 1) + k
  <2>1. n \in Nat
    BY <1>1
  <2>0. i = n + 3 * (p - 1) + k
    OBVIOUS
  <2> HIDE DEF i
  <2>2. i \in 1..(n + 3 * L) /\ i > n /\ PartyAt(i, n) = p /\ PartAt(i, n) = k
    BY <1>1, <2>0, <2>1 DEF PartyAt, PartAt
  <2>3. ~(i <= n)
    BY <2>1, <2>2
  <2>4. i \in DOMAIN G /\ G[i] = object(p, k)
    BY <1>2, <1>3, <2>2, <2>3
  <2> QED  BY <2>4
<1> QED  BY <1>1, <1>3, <1>4, <1>5, <1>6 DEF n, L, shared, object, G

\* Generate cannot fail on a well-formed spec.
LEMMA WellFormedGenerates ==
  ASSUME NEW s, WellFormed(s)
  PROVE  ~GenerateFails(s)
<1>1. "" \notin DnsLabels \cup Hostnames
  BY ConfigAssumption DEF ConfigAssumption
<1>2. 0 \notin Ports
  BY DEF Ports
<1>3. ASSUME NEW i \in DOMAIN s.thirdParties
      PROVE  LET tp == s.thirdParties[i]
             IN  ~(Empty(tp.name) \/ Empty(tp.host) \/ tp.port = 0)
  <2> DEFINE tp == s.thirdParties[i]
  <2>1. tp.name.v \in DnsLabels /\ tp.host.v \in Hostnames /\ tp.port \in Ports
    BY DEF WellFormed
  <2> HIDE DEF tp
  <2>2. ~(Empty(tp.name) \/ Empty(tp.host) \/ tp.port = 0)
    BY <1>1, <1>2, <2>1 DEF Empty
  <2> QED  BY <2>2 DEF tp
<1> QED  BY <1>3 DEF WellFormed, GenerateFails

\* The generated objects of a well-formed spec have different keys: applying
\* one never overwrites another.
LEMMA WellFormedKeys ==
  ASSUME NEW ns, NEW owner, NEW s, IsSpec(s), WellFormed(s)
  PROVE  LET G == Generate(ns, owner, s)
         IN  \A i, j \in DOMAIN G : Key(G[i]) = Key(G[j]) => i = j
<1> DEFINE G == Generate(ns, owner, s)
           shared == SharedObjects(ns, owner, s, Microcks(s))
           n == Len(shared)
           tps == s.thirdParties
           L == Len(tps)
<1>1. \A x, y : Key(x) = Key(y) => x.kind = y.kind /\ x.name = y.name
  BY DEF Key
<1>2. \A p, q \in 1..L : tps[p].name.v \in DnsLabels /\ (tps[p].name.v = tps[q].name.v => p = q)
  BY DEF WellFormed, IsSpec
<1>3. "" \notin DnsLabels
  BY ConfigAssumption DEF ConfigAssumption
<1>4. /\ \A i \in 1..n : shared[i].name[1] = ""
      /\ \A i, j \in 1..n : Key(shared[i]) = Key(shared[j]) => i = j
  BY SharedKeys
<1>5. n \in {3, 4} /\ L \in Nat /\ DOMAIN G = 1..(n + 3 * L)
  BY GenerateAt
<1>6. \A i \in 1..n : G[i] = shared[i]
  BY GenerateAt
<1>7. \A i \in DOMAIN G : i > n =>
        /\ PartyAt(i, n) \in 1..L /\ PartAt(i, n) \in 1..3
        /\ i = n + 3 * (PartyAt(i, n) - 1) + PartAt(i, n)
        /\ G[i] = ThirdPartyObjects(ns, owner, tps[PartyAt(i, n)], Microcks(s))[PartAt(i, n)]
  BY GenerateAt
<1> HIDE DEF G, shared, n, tps, L
<1>8. ASSUME NEW i \in DOMAIN G, i > n
      PROVE  /\ G[i].name[1] = tps[PartyAt(i, n)].name.v
             /\ PartAt(i, n) = 1 => G[i].kind = "ServiceEntry"
             /\ PartAt(i, n) = 2 => G[i].kind = "VirtualService"
             /\ PartAt(i, n) = 3 => G[i].kind = "DestinationRule"
  BY <1>7, <1>8, PartyKeys
<1>9. \A i \in 1..n : G[i].name[1] = ""
  BY <1>4, <1>6
<1>10. ASSUME NEW i \in DOMAIN G, i > n PROVE G[i].name[1] # ""
  <2>1. PartyAt(i, n) \in 1..L
    BY <1>7, <1>10
  <2>2. tps[PartyAt(i, n)].name.v \in DnsLabels
    BY <1>2, <2>1
  <2> QED  BY <1>3, <1>8, <1>10, <2>2
<1>11. ASSUME NEW i \in DOMAIN G, NEW j \in DOMAIN G, Key(G[i]) = Key(G[j]) PROVE i = j
  <2>1. G[i].kind = G[j].kind /\ G[i].name[1] = G[j].name[1]
    BY <1>1, <1>11
  <2>2. CASE i <= n /\ j <= n
    <3>1. i \in 1..n /\ j \in 1..n
      BY <1>5, <2>2
    <3> QED  BY <1>4, <1>6, <1>11, <3>1
  <2>3. CASE i <= n /\ j > n
    <3>1. i \in 1..n
      BY <1>5, <2>3
    <3> QED  BY <1>9, <1>10, <2>1, <2>3, <3>1
  <2>4. CASE i > n /\ j <= n
    <3>1. j \in 1..n
      BY <1>5, <2>4
    <3> QED  BY <1>9, <1>10, <2>1, <2>4, <3>1
  <2>5. CASE i > n /\ j > n
    <3>1. PartyAt(i, n) = PartyAt(j, n)
      BY <1>2, <1>7, <1>8, <2>1, <2>5
    <3>2. \A k \in 1..3 : k = 1 \/ k = 2 \/ k = 3
      OBVIOUS
    <3>3. PartAt(i, n) = PartAt(j, n)
      BY <1>7, <1>8, <2>1, <2>5, <3>2
    <3> QED  BY <1>7, <2>5, <3>1, <3>3
  <2>6. (i <= n \/ i > n) /\ (j <= n \/ j > n)
    BY <1>5
  <2> QED  BY <2>2, <2>3, <2>4, <2>5, <2>6
<1> QED  BY <1>11 DEF G

\* Which objects are VirtualServices, and which ServiceEntries: one of each for
\* every third party, and no other.
LEMMA RoutesAndEntries ==
  ASSUME NEW ns, NEW owner, NEW s, IsSpec(s)
  PROVE  LET G == Generate(ns, owner, s)
             tps == s.thirdParties
             vs(p) == virtualService(ns, owner, tps[p], Microcks(s))
             se(p) == serviceEntry(ns, owner, tps[p])
         IN  /\ \A i \in DOMAIN G : /\ G[i].kind = "VirtualService" =>
                                         \E p \in DOMAIN tps : G[i] = vs(p)
                                    /\ G[i].kind = "ServiceEntry" =>
                                         \E p \in DOMAIN tps : G[i] = se(p)
             /\ \A p \in DOMAIN tps : /\ \E i \in DOMAIN G : G[i] = vs(p)
                                      /\ \E i \in DOMAIN G : G[i] = se(p)
<1> DEFINE G == Generate(ns, owner, s)
           shared == SharedObjects(ns, owner, s, Microcks(s))
           n == Len(shared)
           tps == s.thirdParties
           L == Len(tps)
           vs(p) == virtualService(ns, owner, tps[p], Microcks(s))
           se(p) == serviceEntry(ns, owner, tps[p])
           object(p, k) == ThirdPartyObjects(ns, owner, tps[p], Microcks(s))[k]
<1>1. n \in {3, 4} /\ L \in Nat /\ DOMAIN G = 1..(n + 3 * L)
  BY GenerateAt
<1>2. \A i \in 1..n : G[i] = shared[i]
  BY GenerateAt
<1>3. \A i \in DOMAIN G : i > n =>
        /\ PartyAt(i, n) \in 1..L /\ PartAt(i, n) \in 1..3
        /\ G[i] = object(PartyAt(i, n), PartAt(i, n))
  BY GenerateAt
<1>4. \A p \in 1..L, k \in 1..3 : \E i \in DOMAIN G : G[i] = object(p, k)
  BY GenerateAt
<1>5. \A i \in 1..n : shared[i].kind \in {"EnvoyFilter", "DestinationRule"}
  BY SharedKeys
<1>6. DOMAIN tps = 1..L
  BY DEF IsSpec
<1>7. \A p : /\ object(p, 1) = se(p) /\ object(p, 1).kind = "ServiceEntry"
             /\ object(p, 2) = vs(p) /\ object(p, 2).kind = "VirtualService"
             /\ object(p, 3).kind = "DestinationRule"
  BY PartyKeys
<1> HIDE DEF G, shared, n, tps, L, vs, se, object
<1>8. ASSUME NEW i \in DOMAIN G
      PROVE  /\ G[i].kind = "VirtualService" => \E p \in DOMAIN tps : G[i] = vs(p)
             /\ G[i].kind = "ServiceEntry" => \E p \in DOMAIN tps : G[i] = se(p)
  <2>1. CASE i <= n
    <3>1. i \in 1..n
      BY <1>1, <2>1
    <3>2. G[i].kind \in {"EnvoyFilter", "DestinationRule"}
      BY <1>2, <1>5, <3>1
    <3> QED  BY <3>2
  <2>2. CASE i > n
    <3>1. PICK p \in 1..L, k \in 1..3 : G[i] = object(p, k)
      BY <1>3, <2>2
    <3>2. k = 1 \/ k = 2 \/ k = 3
      OBVIOUS
    <3> QED  BY <1>6, <1>7, <3>1, <3>2
  <2> QED  BY <1>1, <2>1, <2>2
<1>9. ASSUME NEW p \in DOMAIN tps
      PROVE  (\E i \in DOMAIN G : G[i] = vs(p)) /\ (\E i \in DOMAIN G : G[i] = se(p))
  BY <1>4, <1>6, <1>7
<1> QED  BY <1>8, <1>9 DEF G, tps, vs, se

\* The object of that kind and name is before place i.
Before(objects, i, ns, kind, name) ==
  \E h \in 1..(i - 1) : /\ h \in DOMAIN objects /\ objects[h].ns = ns
                        /\ objects[h].kind = kind /\ objects[h].name = name

\* A route comes after all it leads through: the ServiceEntry of its third
\* party, and the filters and the rule that all third parties share.
LEMMA RouteComesAfter ==
  ASSUME NEW ns, NEW owner, NEW s, IsSpec(s)
  PROVE  LET G == Generate(ns, owner, s)
         IN  \A i \in DOMAIN G : G[i].kind = "VirtualService" =>
               /\ G[i].ns = ns
               /\ Before(G, i, ns, "ServiceEntry", <<G[i].name[1], "-serviceentry">>)
               /\ Before(G, i, ns, "EnvoyFilter", <<"", "vf-inbound-capture">>)
               /\ Before(G, i, ns, "EnvoyFilter", <<"", "vf-outbound-inject">>)
               /\ Before(G, i, ns, "DestinationRule", <<"", "microcks-grpc">>)
<1> DEFINE G == Generate(ns, owner, s)
           microcks == Microcks(s)
           shared == SharedObjects(ns, owner, s, microcks)
           n == Len(shared)
           tps == s.thirdParties
           L == Len(tps)
           object(p, k) == ThirdPartyObjects(ns, owner, tps[p], microcks)[k]
           vs(p) == virtualService(ns, owner, tps[p], microcks)
           se(p) == serviceEntry(ns, owner, tps[p])
           a == envoyFilterInbound(ns, owner)
           b == envoyFilterOutbound(ns, owner)
           d == destinationRule(ns, owner, <<"", "microcks-grpc">>, microcks.host, microcks.whole)
<1>1. n \in {3, 4} /\ L \in Nat /\ DOMAIN G = 1..(n + 3 * L)
  BY GenerateAt
<1>2. \A i \in 1..n : G[i] = shared[i]
  BY GenerateAt
<1>3. \A i \in DOMAIN G : i > n =>
        /\ PartyAt(i, n) \in 1..L /\ PartAt(i, n) \in 1..3
        /\ i = n + 3 * (PartyAt(i, n) - 1) + PartAt(i, n)
        /\ G[i] = object(PartyAt(i, n), PartAt(i, n))
  BY GenerateAt
<1>4. \A i \in 1..n : shared[i].kind \in {"EnvoyFilter", "DestinationRule"}
  BY SharedKeys
<1>5. shared[1] = a /\ shared[2] = b /\ shared[n] = d
  <2> DEFINE c == envoyFilterMicrocksRewrite(owner)
  <2>1. \/ Len(shared) = 4 /\ shared[1] = a /\ shared[2] = b /\ shared[3] = c /\ shared[4] = d
        \/ Len(shared) = 3 /\ shared[1] = a /\ shared[2] = b /\ shared[3] = d
    BY ZenonT(30), SharedPlaces
  <2> HIDE DEF shared, a, b, c, d
  <2> QED  BY <2>1
<1>6. \A p : /\ object(p, 1) = se(p) /\ object(p, 1).kind = "ServiceEntry"
             /\ object(p, 2) = vs(p)
             /\ object(p, 3).kind = "DestinationRule"
  BY PartyKeys
<1>7. /\ a.kind = "EnvoyFilter" /\ a.name = <<"", "vf-inbound-capture">> /\ a.ns = ns
      /\ b.kind = "EnvoyFilter" /\ b.name = <<"", "vf-outbound-inject">> /\ b.ns = ns
      /\ d.kind = "DestinationRule" /\ d.name = <<"", "microcks-grpc">> /\ d.ns = ns
  <2>1. a.kind = "EnvoyFilter" /\ a.name = <<"", "vf-inbound-capture">> /\ a.ns = ns
    BY DEF envoyFilterInbound, Object
  <2>2. b.kind = "EnvoyFilter" /\ b.name = <<"", "vf-outbound-inject">> /\ b.ns = ns
    BY DEF envoyFilterOutbound, Object
  <2>3. d.kind = "DestinationRule" /\ d.name = <<"", "microcks-grpc">> /\ d.ns = ns
    BY DEF destinationRule, Object
  <2> QED  BY <2>1, <2>2, <2>3
<1>8. \A p : /\ se(p).kind = "ServiceEntry" /\ se(p).ns = ns
             /\ se(p).name = <<tps[p].name.v, "-serviceentry">>
             /\ vs(p).ns = ns /\ vs(p).name[1] = tps[p].name.v
  BY DEF serviceEntry, virtualService, Object, sanitizeName
<1> HIDE DEF G, microcks, shared, n, tps, L, object, vs, se, a, b, d
<1> SUFFICES ASSUME NEW i \in DOMAIN G, G[i].kind = "VirtualService"
             PROVE  /\ G[i].ns = ns
                    /\ Before(G, i, ns, "ServiceEntry", <<G[i].name[1], "-serviceentry">>)
                    /\ Before(G, i, ns, "EnvoyFilter", <<"", "vf-inbound-capture">>)
                    /\ Before(G, i, ns, "EnvoyFilter", <<"", "vf-outbound-inject">>)
                    /\ Before(G, i, ns, "DestinationRule", <<"", "microcks-grpc">>)
  BY DEF G
<1>9. i > n /\ i \in Int
  <2>1. i \in Int /\ i >= 1
    BY <1>1
  <2>2. i <= n => G[i].kind \in {"EnvoyFilter", "DestinationRule"}
    BY <1>1, <1>2, <1>4, <2>1
  <2> QED  BY <1>1, <2>1, <2>2
<1>10. PICK p \in 1..L : i = n + 3 * (p - 1) + 2 /\ G[i] = vs(p)
  <2>1. PICK p \in 1..L, k \in 1..3 : i = n + 3 * (p - 1) + k /\ G[i] = object(p, k)
    BY <1>3, <1>9
  <2>2. k = 1 \/ k = 2 \/ k = 3
    OBVIOUS
  <2>3. k = 2
    BY <1>6, <2>1, <2>2
  <2> QED  BY <1>6, <2>1, <2>3
<1>11. Before(G, i, ns, "ServiceEntry", <<G[i].name[1], "-serviceentry">>)
  <2>1. PICK h \in Int : h = i - 1
    BY <1>9
  <2>2. h = n + 3 * (p - 1) + 1 /\ h \in DOMAIN G /\ h > n /\ n \in Nat /\ p \in Nat
    BY <1>1, <1>10, <2>1
  <2>3. PartyAt(h, n) = p /\ PartAt(h, n) = 1
    BY <2>2 DEF PartyAt, PartAt
  <2>4. G[h] = se(p)
    BY <1>3, <1>6, <2>2, <2>3
  <2>5. G[i].name[1] = tps[p].name.v
    BY <1>8, <1>10
  <2>6. h \in 1..(i - 1)
    BY <1>1, <1>9, <2>1, <2>2
  <2> QED  BY <1>8, <2>2, <2>4, <2>5, <2>6 DEF Before
<1>12. \A h \in 1..n : h \in 1..(i - 1) /\ h \in DOMAIN G
  BY <1>1, <1>9
<1>13. 1 \in 1..n /\ 2 \in 1..n /\ n \in 1..n
  BY <1>1
<1>14. G[1] = a /\ G[2] = b /\ G[n] = d
  BY <1>2, <1>5, <1>13
<1>15. Before(G, i, ns, "EnvoyFilter", <<"", "vf-inbound-capture">>)
  BY <1>7, <1>12, <1>13, <1>14 DEF Before
<1>16. Before(G, i, ns, "EnvoyFilter", <<"", "vf-outbound-inject">>)
  BY <1>7, <1>12, <1>13, <1>14 DEF Before
<1>17. Before(G, i, ns, "DestinationRule", <<"", "microcks-grpc">>)
  BY <1>7, <1>12, <1>13, <1>14 DEF Before
<1>18. G[i].ns = ns
  BY <1>8, <1>10
<1> QED  BY <1>11, <1>15, <1>16, <1>17, <1>18

\* The webhook writes the defaults the generator falls back to, so that it
\* makes no difference to the objects.
LEMMA DefaultsGenerateAlike ==
  ASSUME NEW ns, NEW owner, NEW s, IsSpec(s)
  PROVE  Generate(ns, owner, ApplyDefaults(s)) = Generate(ns, owner, s)
<1> DEFINE d == ApplyDefaults(s)
<1>1. /\ d.thirdParties = s.thirdParties
      /\ d.microcksService = (IF s.microcksService = NoHostPort
                              THEN DefaultMicrocksHostPort ELSE s.microcksService)
      /\ d.virtualBackend = (IF Blank(s.virtualBackend) THEN Text(BackendTeachingMock)
                             ELSE s.virtualBackend)
  BY DEF ApplyDefaults, IsSpec
<1> HIDE DEF d
<1>2. firstHostPort(d.microcksService, DefaultMicrocksHostPort) =
      firstHostPort(s.microcksService, DefaultMicrocksHostPort)
  BY <1>1 DEF firstHostPort
<1>3. isMicrocksBackend(d.virtualBackend) <=> isMicrocksBackend(s.virtualBackend)
  <2>1. "" \notin MicrocksSpellings /\ BackendTeachingMock \notin MicrocksSpellings
    BY DEF MicrocksSpellings, BackendTeachingMock, BackendMicrocks
  <2>2. CASE Blank(s.virtualBackend)
    <3>1. s.virtualBackend.v = "" /\ d.virtualBackend.v = BackendTeachingMock
      <4>1. d.virtualBackend = Text(BackendTeachingMock)
        BY <1>1, <2>2, Zenon
      <4>2. Text(BackendTeachingMock).v = BackendTeachingMock
        BY DEF Text
      <4>3. s.virtualBackend.v = ""
        BY <2>2, Zenon DEF Blank
      <4> QED  BY <4>1, <4>2, <4>3
    <3>2. ~isMicrocksBackend(d.virtualBackend) /\ ~isMicrocksBackend(s.virtualBackend)
      BY <2>1, <3>1, Zenon DEF isMicrocksBackend
    <3> QED  BY <3>2
  <2>3. CASE ~Blank(s.virtualBackend)
    BY <1>1, <2>3, Zenon
  <2> QED  BY <2>2, <2>3
<1>4. \A m : SharedObjects(ns, owner, d, m) = SharedObjects(ns, owner, s, m)
  BY <1>3 DEF SharedObjects
<1>5. SharedCount(d) = SharedCount(s)
  BY <1>3 DEF SharedCount
<1> QED  BY <1>1, <1>2, <1>4, <1>5 DEF Generate, d

\* What the webhook makes of a spec is a spec.
LEMMA DefaultsAreSpecs ==
  ASSUME NEW s, IsSpec(s)
  PROVE  IsSpec(ApplyDefaults(s))
<1> DEFINE d == ApplyDefaults(s)
           service == IF s.microcksService = NoHostPort THEN DefaultMicrocksHostPort
                      ELSE s.microcksService
           backend == IF Blank(s.virtualBackend) THEN Text(BackendTeachingMock)
                      ELSE s.virtualBackend
           oldService == s.microcksService
           oldBackend == s.virtualBackend
           parties == s.thirdParties
           scenarios == s.scenarios
<1>1. s = [thirdParties |-> parties, scenarios |-> scenarios,
           microcksService |-> oldService, virtualBackend |-> oldBackend]
  BY DEF IsSpec
<1>2. d = [s EXCEPT !.microcksService = service, !.virtualBackend = backend]
  BY DEF ApplyDefaults
<1> HIDE DEF d, service, backend, oldService, oldBackend, parties, scenarios
<1>3. d = [thirdParties |-> parties, scenarios |-> scenarios,
           microcksService |-> service, virtualBackend |-> backend]
  BY <1>1, <1>2
<1>4. d.thirdParties = parties /\ d.scenarios = scenarios
  BY <1>3
<1>5. d = [thirdParties |-> d.thirdParties, scenarios |-> d.scenarios,
           microcksService |-> d.microcksService, virtualBackend |-> d.virtualBackend]
  BY <1>3
<1> QED  BY <1>4, <1>5 DEF IsSpec, d, parties, scenarios
=============================================================================
