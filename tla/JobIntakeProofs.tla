-------------------------- MODULE JobIntakeProofs ---------------------------
(***************************************************************************)
(* Proofs about what a job passes on its way to the hardware: the executor *)
(* that load_executor resolves, for every set of installed packages, every *)
(* kind of factory behind them and every device; and the translators of    *)
(* qasm.py, for every set of circuits and every text.                      *)
(***************************************************************************)
EXTENDS ExecutorLoading, OpenQASM, FiniteSetTheorems, SequenceTheorems, TLAPS

-----------------------------------------------------------------------------
(***************************************************************************)
(* The strengthening.                                                      *)
(***************************************************************************)
\* Where the node looks for its executor, and the types the arguments below need.  A
\* module is in sys.modules only if its import can fail and did not.
LoaderTypeOK ==
    /\ env \in {NoPath, EnvPath} /\ phase \in {"connect", "start"}
    /\ lpc \in {"settings", "connect", "scan", "vpn", "up", "failed"}
    /\ kind \in [Paths -> Kinds \cup PathKinds] /\ device \in [Paths -> Devices]
    /\ todo \subseteq Packages /\ discovered \subseteq Packages
    /\ \A p \in cached : kind[p] = "flaky"

\* The settings name the configured factory once they are resolved, and only a node
\* without one searches the packages.
FactoryInv ==
    /\ lpc # "settings" =>
          executor_factory = IF env # NoPath THEN env ELSE DeviceConfigFactory
    /\ lpc = "scan" => executor_factory = NoPath

\* A search has found, of the packages it has passed, exactly those that offer a
\* factory now: an import that failed leaves no module, one that succeeded is kept.
ScanInv == lpc = "scan" => discovered = Offering \ todo

\* What was announced at the handshake is the topology of the configured executor, or
\* of a package that still offers one; nothing is reported before the second load.
OfferInv ==
    /\ offered # NoTopology =>
          \E r \in Paths : /\ offered = <<r, device[r]>> /\ lpc # "settings"
                           /\ \/ executor_factory = r
                              \/ executor_factory = NoPath /\ r \in Offering
    /\ lpc # "up" => reported = NoTopology

LoaderInv ==
    LoaderTypeOK /\ FactoryInv /\ ScanInv /\ OfferInv /\ ResolutionOrder /\ TopologyAgrees

-----------------------------------------------------------------------------
(***************************************************************************)
(* How a load ends.                                                        *)
(***************************************************************************)
\* Of one candidate, and of no other number, the search knows which one it is.
LEMMA OnlyCandidate ==
    ASSUME NEW S \in SUBSET Packages, Cardinality(S) = 1, NEW p \in S
    PROVE  S = {p} /\ p = CHOOSE q \in S : TRUE
  <1>1. IsFiniteSet(S)
    BY LoaderAssumption, FS_Subset
  <1>2. \E x : S = {x}
    BY <1>1, FS_Singleton
  <1> QED BY <1>2

\* What a load leaves of offered, reported, runner and lpc when it comes to executor r.
Ended(r) ==
    \/ /\ lpc' = IF phase = "connect" THEN "vpn" ELSE "failed"
       /\ UNCHANGED <<offered, reported, runner>>
    \/ /\ phase = "connect" /\ lpc' = "vpn" /\ offered' = Topology(r)
       /\ UNCHANGED <<reported, runner>>
    \/ /\ phase = "start" /\ lpc' = "up" /\ reported' = Topology(r) /\ runner' = r
       /\ UNCHANGED offered

\* A load that returns r ends so, whichever caller it has, also when r's device raises ...
LEMMA ReturnEnds == ASSUME LoaderTypeOK, NEW r, LoadReturns(r) PROVE Ended(r)
  BY DEF LoadReturns, LoadRaises, Ended, LoaderTypeOK

\* ... and so does the one factory that is tried.
LEMMA FactoryEnds == ASSUME LoaderTypeOK, NEW p, InstantiateFactory(p) PROVE Ended(p)
  BY ReturnEnds DEF InstantiateFactory, LoadRaises, Ended, LoaderTypeOK

\* The topology of r is none, or r is a path and it is the pair of r and its device.
LEMMA TopologyOf ==
    ASSUME NEW r
    PROVE  Topology(r) = NoTopology \/ (r # Noop /\ Topology(r) = <<r, device[r]>>)
  BY DEF Topology, HasTopology

\* Whatever the load comes to, it is the executor that the sources name, and its topology
\* is the announced one: this is where both properties are decided.
LEMMA LoadEnds ==
    ASSUME LoaderInv, NEW r, Ended(r), lpc \in {"connect", "scan"},
           UNCHANGED <<envVars, executor_factory, cached>>,
           \/ executor_factory # NoPath /\ r = executor_factory
           \/ /\ executor_factory = NoPath
              /\ \/ r = Noop /\ Cardinality(Offering) # 1
                 \/ Cardinality(Offering) = 1 /\ r \in Offering
    PROVE  FactoryInv' /\ ScanInv' /\ OfferInv' /\ ResolutionOrder' /\ TopologyAgrees'
  <1>1. Offering' = Offering /\ lpc' \in {"vpn", "up", "failed"}
    BY DEF Offering, envVars, Ended
  <1>2. FactoryInv' /\ ScanInv'
    BY <1>1 DEF LoaderInv, FactoryInv, ScanInv, DeviceConfigFactory, envVars
  <1>3. reported = NoTopology
    BY DEF LoaderInv, OfferInv
  <1>4. OfferInv'
    <2>1. lpc' # "up" => reported' = NoTopology
      BY <1>3 DEF Ended
    <2>2. CASE offered' = offered
      BY <1>1, <2>1, <2>2 DEF LoaderInv, OfferInv, envVars
    <2>3. CASE offered' = Topology(r) /\ Topology(r) # NoTopology
      <3>1. r # Noop /\ offered' = <<r, device[r]>>
        BY <2>3, TopologyOf
      <3>2. r \in Paths
        BY <3>1 DEF LoaderInv, LoaderTypeOK, FactoryInv, DeviceConfigFactory, Paths, Offering
      <3> QED BY <1>1, <2>1, <3>1, <3>2 DEF OfferInv, envVars
    <2>4. CASE offered' = NoTopology
      BY <2>1, <2>4 DEF OfferInv
    <2> QED BY <2>2, <2>3, <2>4 DEF Ended
  <1>5. ResolutionOrder'
    <2> SUFFICES ASSUME lpc' = "up"
                 PROVE  runner' = IF env # NoPath THEN env
                                  ELSE IF deviceFile = "names" THEN DevicePath
                                  ELSE IF Cardinality(Offering) = 1
                                       THEN CHOOSE p \in Offering : TRUE ELSE Noop
      BY <1>1 DEF ResolutionOrder, envVars
    <2>1. runner' = r
      BY DEF Ended
    <2>2. executor_factory = IF env # NoPath THEN env ELSE DeviceConfigFactory
      BY DEF LoaderInv, FactoryInv
    <2>3. CASE executor_factory # NoPath
      BY <2>1, <2>2, <2>3 DEF DeviceConfigFactory
    <2>4. CASE executor_factory = NoPath
      <3>1. env = NoPath /\ deviceFile # "names"
        BY <2>2, <2>4, LoaderAssumption DEF DeviceConfigFactory, Paths
      <3>2. Cardinality(Offering) = 1 => r = CHOOSE p \in Offering : TRUE
        BY <2>4, OnlyCandidate DEF Offering
      <3> QED BY <2>1, <2>4, <3>1, <3>2
    <2> QED BY <2>3, <2>4
  <1>6. TopologyAgrees'
    <2>1. CASE reported' = NoTopology
      BY <2>1 DEF TopologyAgrees
    <2>2. CASE reported' = <<r, device[r]>> /\ r # Noop /\ offered' = offered
      <3>1. ASSUME offered # NoTopology PROVE offered = <<r, device[r]>>
        <4>1. PICK s \in Paths : /\ offered = <<s, device[s]>>
                                 /\ \/ executor_factory = s
                                    \/ executor_factory = NoPath /\ s \in Offering
          BY <3>1 DEF LoaderInv, OfferInv
        <4>2. s = r
          BY <2>2, <4>1, OnlyCandidate, LoaderAssumption DEF Offering
        <4> QED BY <4>1, <4>2
      <3> QED BY <2>2, <3>1 DEF TopologyAgrees
    <2> QED BY <1>3, <2>1, <2>2, TopologyOf DEF Ended
  <1> QED BY <1>2, <1>4, <1>5, <1>6

-----------------------------------------------------------------------------
(***************************************************************************)
(* The steps.                                                              *)
(***************************************************************************)
\* Every step keeps the types.
LEMMA LoaderTypeStep == ASSUME LoaderTypeOK, [LoaderNext]_lvars PROVE LoaderTypeOK'
  <1> USE DEF LoaderTypeOK, envVars, scanVars
  <1>1. CASE ResolveSettings
    BY <1>1 DEF ResolveSettings
  <1>2. CASE BeginLoad
    <2>1. lpc' \in {"scan", "vpn", "up", "failed"}
      BY <1>2, FactoryEnds DEF BeginLoad, Ended
    <2> QED BY <1>2, <2>1 DEF BeginLoad
  <1>3. CASE Decide
    <2>1. lpc' \in {"vpn", "up", "failed"}
      BY <1>3, FactoryEnds, ReturnEnds DEF Decide, Ended
    <2> QED BY <1>3, <2>1 DEF Decide
  <1>4. CASE NextLoad
    BY <1>4 DEF NextLoad
  <1>5. ASSUME NEW p \in Packages, ScanPackage(p) PROVE LoaderTypeOK'
    BY <1>5 DEF ScanPackage, ImportSucceeds, ImportFails, LoadRaises
  <1>6. CASE UNCHANGED lvars
    BY <1>6 DEF lvars
  <1> QED BY <1>1, <1>2, <1>3, <1>4, <1>5, <1>6 DEF LoaderNext

\* One package of the search: it is found exactly if it offers a factory from now on,
\* and no package stops offering one.
LEMMA ScanKeeps ==
    ASSUME LoaderInv, NEW p \in Packages, ScanPackage(p)
    PROVE  /\ FactoryInv' /\ ScanInv' /\ OfferInv' /\ ResolutionOrder' /\ TopologyAgrees'
  <1>1. /\ UNCHANGED <<envVars, executor_factory, phase, offered, reported, runner>>
        /\ lpc = "scan" /\ p \in todo /\ lpc' \in {"scan", "vpn", "failed"}
    BY DEF ScanPackage, LoadRaises
  <1>2. cached' = cached \/ (kind[p] = "flaky" /\ cached' = cached \cup {p})
    BY DEF ScanPackage, ImportSucceeds, ImportFails
  <1>3. Offering \subseteq Offering' /\ Offering' \subseteq Offering \cup {p}
    BY <1>1, <1>2 DEF Offering, envVars
  <1>4. lpc' = "scan" => todo' = todo \ {p}
                         /\ discovered' = IF p \in Offering' THEN discovered \cup {p}
                                                             ELSE discovered
    BY <1>1 DEF ScanPackage, ImportSucceeds, ImportFails, LoadRaises, Offering, envVars,
       LoaderInv, LoaderTypeOK
  <1>5. ScanInv'
    BY <1>1, <1>3, <1>4 DEF LoaderInv, ScanInv
  <1>6. OfferInv'
    BY <1>1, <1>3 DEF LoaderInv, OfferInv, envVars
  <1> QED BY <1>1, <1>5, <1>6
          DEF LoaderInv, FactoryInv, DeviceConfigFactory, ResolutionOrder, TopologyAgrees, envVars

\* Every step keeps the strengthening.
LEMMA LoaderStep == ASSUME LoaderInv, [LoaderNext]_lvars PROVE LoaderInv'
  <1>t. LoaderTypeOK /\ LoaderTypeOK'
    BY LoaderTypeStep DEF LoaderInv
  <1>1. CASE ResolveSettings
    <2>1. /\ lpc = "settings" /\ lpc' = "connect"
          /\ executor_factory' = IF env # NoPath THEN env ELSE DeviceConfigFactory
          /\ UNCHANGED <<envVars, offered, reported>>
      BY <1>1 DEF ResolveSettings
    <2> QED BY <1>t, <2>1 DEF LoaderInv, FactoryInv, ScanInv, OfferInv, ResolutionOrder,
               TopologyAgrees, DeviceConfigFactory, envVars
  <1>2. CASE BeginLoad
    <2>1. CASE executor_factory # NoPath /\ InstantiateFactory(executor_factory)
      BY <1>t, <1>2, <2>1, FactoryEnds, LoadEnds DEF BeginLoad, LoaderInv
    <2>2. CASE executor_factory = NoPath /\ lpc' = "scan" /\ todo' = Packages /\ discovered' = {}
      <3>1. UNCHANGED <<envVars, executor_factory, cached, offered, reported>> /\ lpc = "connect"
        BY <1>2, <2>2 DEF BeginLoad, InstantiateFactory
      <3>2. Offering' = Offering /\ Offering \ Packages = {}
        BY <3>1 DEF Offering, envVars
      <3> QED BY <1>t, <2>2, <3>1, <3>2 DEF LoaderInv, FactoryInv, ScanInv, OfferInv,
                 ResolutionOrder, TopologyAgrees, DeviceConfigFactory, envVars
    <2> QED BY <1>2, <2>1, <2>2 DEF BeginLoad
  <1>3. CASE Decide
    <2>1. executor_factory = NoPath /\ discovered = Offering
      BY <1>3 DEF Decide, LoaderInv, FactoryInv, ScanInv
    <2>2. PICK r : /\ Ended(r)
                   /\ \/ r = Noop /\ Cardinality(Offering) # 1
                      \/ Cardinality(Offering) = 1 /\ r \in Offering
      BY <1>t, <1>3, <2>1, FactoryEnds, ReturnEnds DEF Decide
    <2> QED BY <1>t, <1>3, <2>1, <2>2, LoadEnds DEF Decide, LoaderInv
  <1>4. CASE NextLoad
    <2>1. /\ UNCHANGED <<envVars, executor_factory, cached, offered, reported>>
          /\ lpc = "vpn" /\ lpc' = "connect"
      BY <1>4 DEF NextLoad
    <2>2. Offering' = Offering
      BY <2>1 DEF Offering, envVars
    <2> QED BY <1>t, <2>1, <2>2 DEF LoaderInv, FactoryInv, ScanInv, OfferInv, ResolutionOrder,
               TopologyAgrees, DeviceConfigFactory, envVars
  <1>5. ASSUME NEW p \in Packages, ScanPackage(p) PROVE LoaderInv'
    BY <1>t, <1>5, ScanKeeps DEF LoaderInv
  <1>6. CASE UNCHANGED lvars
    BY <1>6 DEF lvars, envVars, scanVars, LoaderInv, LoaderTypeOK, FactoryInv, ScanInv, OfferInv,
       ResolutionOrder, TopologyAgrees, DeviceConfigFactory, Offering
  <1> QED BY <1>1, <1>2, <1>3, <1>4, <1>5, <1>6 DEF LoaderNext

\* The strengthening holds in every reachable state.
LEMMA LoaderInvariance == LoaderSpec => []LoaderInv
  <1>1. LoaderInit => LoaderInv
    <2> SUFFICES ASSUME LoaderInit PROVE LoaderInv
      OBVIOUS
    <2>1. kind \in [Paths -> Kinds \cup PathKinds]
      BY DEF LoaderInit, Kinds, PathKinds
    <2>2. device \in [Paths -> Devices]
      BY DEF LoaderInit, Devices
    <2> QED BY <2>1, <2>2 DEF LoaderInit, LoaderInv, LoaderTypeOK, FactoryInv, ScanInv, OfferInv,
               ResolutionOrder, TopologyAgrees
  <1>2. LoaderInv /\ [LoaderNext]_lvars => LoaderInv'
    BY LoaderStep
  <1> QED BY <1>1, <1>2, PTL DEF LoaderSpec

-----------------------------------------------------------------------------
\* A node that serves runs the executor that executor.py:7-18 names, for any number of
\* packages and however their imports fail or succeed in the two loads.
THEOREM ResolutionIsDocumented == LoaderSpec => []ResolutionOrder
  <1>1. LoaderInv => ResolutionOrder
    BY DEF LoaderInv
  <1> QED BY <1>1, LoaderInvariance, PTL

\* The heartbeats never contradict the topology announced at the handshake.
THEOREM TopologyAlwaysAgrees == LoaderSpec => []TopologyAgrees
  <1>1. LoaderInv => TopologyAgrees
    BY DEF LoaderInv
  <1> QED BY <1>1, LoaderInvariance, PTL

-----------------------------------------------------------------------------
(***************************************************************************)
(* The translators: the strengthening of RoundTrip.                        *)
(***************************************************************************)
\* ir_to_openqasm has a mapping for every gate of the circuit.
Writable(c) == \A i \in DOMAIN c.gates : c.gates[i].gate \in DOMAIN QasmName(c.target)

\* lines before the first gate: version, include, register, and bits if any
Header(c) == IF c.measurements = <<>> THEN 3 ELSE 4

\* how much of a part of the text that begins after line b and has n lines has been
\* read when line p is the next one
Progress(p, b, n) == IF p - 1 - b <= 0 THEN 0 ELSE IF p - 1 - b >= n THEN n ELSE p - 1 - b

\* s is the part of t that has been copied: its first n elements
Copied(s, t, n) == Len(s) = n /\ \A i \in 1 .. n : s[i] = t[i]

\* The parser has rebuilt a circuit as far as it has read its text.
CopyInv ==
    /\ Writable(source) /\ text = TextOf(source) /\ target = source.target
    /\ at \in 1 .. Len(text) + 1
    /\ num_qubits = IF at > 3 THEN source.num_qubits ELSE NoRegister
    /\ gates \in Seq(GateOps) /\ measurements \in Seq(Int)
    /\ Copied(gates, Written(source).gates, Progress(at, Header(source), Len(source.gates)))
    /\ Copied(measurements, source.measurements,
              Progress(at, Header(source) + Len(source.gates), Len(source.measurements)))

\* What the parser has of a text that nobody wrote from a circuit: gates of the right
\* shape, all of which have a text.
ReadInv ==
    /\ ir = NoIR /\ text \in Seq(TextLines) /\ at \in Nat \ {0} /\ target \in STRING
    /\ num_qubits \in Int /\ measurements \in Seq(Int) /\ gates \in Seq(GateOps)
    /\ \A i \in DOMAIN gates : gates[i].gate \in DOMAIN QasmName(target)

QasmInv ==
    /\ qpc \in {"write", "serialize", "parse", "done", "refused", "rejected", "escaped"}
    /\ qpc = "write" => source = NoIR
    /\ qpc \in {"serialize", "done", "refused"} => source # NoIR
    /\ source # NoIR => source \in IRs /\ IRValid(source) /\ (ir # NoIR => Writable(source))
    /\ source = NoIR => ReadInv
    /\ source # NoIR /\ qpc = "parse" => CopyInv
    /\ RoundTrip

-----------------------------------------------------------------------------
(***************************************************************************)
(* One gate.                                                               *)
(***************************************************************************)
\* The gates that have a text, by target.
LEMMA TextGateNames ==
    /\ DOMAIN QasmName("cz") = {"rx", "ry", "rz", "cz", "id", "virtual_z"}
    /\ DOMAIN QasmName("cnot") = {"x90", "y_minus_90", "virtual_z", "cnot", "id"}
    /\ \A t : t \notin {"cz", "cnot"} => DOMAIN QasmName(t) = {}
  BY DEF QasmName

\* The texts that stand for a native gate, by target.
LEMMA NativeGateNames ==
    /\ DOMAIN NativeName("cz") = {"rx", "ry", "rz", "cz", "id"}
    /\ DOMAIN NativeName("cnot") = {"sx", "rz", "cx", "id", "ry"}
    /\ \A t : t \notin {"cz", "cnot"} => DOMAIN NativeName(t) = {}
  BY DEF NativeName

\* rounding to 15 digits once is enough
LEMMA FormatTwice ==
    ASSUME NEW p \in Int
    PROVE  FormatFloat(p) \in Int /\ FormatFloat(FormatFloat(p)) = FormatFloat(p)
  BY DEF FormatFloat

\* -pi/2 is still recognised after it has been rounded.
LEMMA MinusHalfPiComesBack == IsMinusHalfPi(FormatFloat(-HALF_PI))
  BY DEF IsMinusHalfPi, FormatFloat, HALF_PI

\* a list of parameters that is rewritten one by one
LEMMA MapSeq ==
    ASSUME NEW S, NEW s \in Seq(S), NEW T, NEW f, f = [k \in DOMAIN s |-> f[k]],
           \A k \in DOMAIN s : f[k] \in T
    PROVE  f \in Seq(T) /\ Len(f) = Len(s)
  <1>1. Len(s) \in Nat /\ DOMAIN s = 1 .. Len(s)
    BY LenProperties
  <1>2. f \in [1 .. Len(s) -> T]
    BY <1>1
  <1>3. f \in Seq(T)
    BY <1>1, <1>2, SeqDef
  <1>4. DOMAIN f = 1 .. Len(f) /\ Len(f) \in Nat
    BY <1>3, LenProperties
  <1> QED BY <1>1, <1>2, <1>3, <1>4

\* What is lost of a gate in its text leaves it a gate of the same shape.
LEMMA WrittenGateType ==
    ASSUME NEW op \in GateOps, GateShapeOK(op)
    PROVE  /\ WrittenGate(op) \in GateOps /\ GateShapeOK(WrittenGate(op))
           /\ WrittenGate(op).gate = op.gate /\ WrittenGate(op).qubits = op.qubits
  <1> DEFINE ps == [k \in DOMAIN op.params |-> IF op.gate = "id" THEN 0 ELSE FormatFloat(op.params[k])]
  <1>1. op.params \in Seq(Int)
    BY DEF GateOps
  <1>2. \A k \in DOMAIN op.params : op.params[k] \in Int
    BY <1>1, LenProperties
  <1>3. \A k \in DOMAIN op.params : ps[k] \in Int
    BY <1>2, FormatTwice
  <1>4. ps \in Seq(Int) /\ Len(ps) = Len(op.params)
    <2> HIDE DEF ps
    <2>1. ps = [k \in DOMAIN op.params |-> ps[k]]
      BY DEF ps
    <2> QED BY <1>1, <1>3, <2>1, MapSeq
  <1>5. WrittenGate(op) = [op EXCEPT !.params = ps]
    BY DEF WrittenGate
  <1> HIDE DEF ps
  <1> QED BY <1>4, <1>5 DEF GateOps, GateShapeOK

\* A native gate is read back from its text as itself, up to the digits of its angle
\* and the duration of id: -pi/2 is recognised although it has lost digits.
LEMMA GateComesBack ==
    ASSUME NEW op \in GateOps, NEW t \in DOMAIN LEGAL_GATES, GateShapeOK(op),
           op.gate \in LEGAL_GATES[t], op.gate \in DOMAIN QasmName(t)
    PROVE  /\ IrGateToQasm(op, t).kind = "gate"
           /\ ~NotSupported(IrGateToQasm(op, t), t)
           /\ QasmGateToIr(IrGateToQasm(op, t), t) = WrittenGate(op)
  <1> DEFINE l == IrGateToQasm(op, t)
             ps == [k \in DOMAIN op.params |-> FormatFloat(op.params[k])]
  <1>1. op.params \in Seq(Int) /\ DOMAIN op.params = 1 .. Len(op.params)
    BY LenProperties DEF GateOps
  <1>2. op = [gate |-> op.gate, qubits |-> op.qubits, params |-> op.params]
    BY DEF GateOps
  <1>3. t \in {"cz", "cnot"}
    BY TextGateNames
  <1>4. Len(op.params) = 0 => ps = <<>> /\ op.params = <<>>
    BY <1>1, EmptySeq
  <1>5. Len(op.params) = 1 => <<0>> = [k \in DOMAIN op.params |-> 0]
    BY <1>1
  <1>6. l = GateLine(QasmName(t)[op.gate], op.qubits, l.params) /\ l.kind = "gate"
        /\ l.name = QasmName(t)[op.gate] /\ l.qubits = op.qubits
    BY DEF IrGateToQasm, GateLine
  <1>7. CASE op.gate = "id"
    <2>1. l.params = <<>> /\ l.name = "id"
      BY <1>3, <1>7, <1>6 DEF IrGateToQasm, GateLine, QasmName
    <2>2. NativeName(t)["id"] = "id" /\ "id" \in DOMAIN NativeName(t)
      BY <1>3 DEF NativeName
    <2>3. Len(op.params) = 1
      BY <1>7 DEF GateShapeOK, GATE_SPECS
    <2> QED
      BY <1>2, <1>5, <1>6, <1>7, <2>1, <2>2, <2>3 DEF NotSupported, QasmGateToIr, Op, WrittenGate
  <1>8. CASE op.gate \in {"cz", "x90", "cnot", "y_minus_90"}
    <2>1. Len(op.params) = 0
      BY <1>8 DEF GateShapeOK, GATE_SPECS
    <2>2. WrittenGate(op) = Op(op.gate, op.qubits, <<>>)
      BY <1>2, <1>4, <1>8, <2>1 DEF WrittenGate, Op
    <2>3. l.name \in DOMAIN NativeName(t) /\ NativeName(t)[l.name] = op.gate
      BY <1>3, <1>6, <1>8, TextGateNames DEF NativeName, QasmName
    <2>4. t = "cnot" /\ l.name = "ry" => Len(l.params) = 1 /\ IsMinusHalfPi(l.params[1])
      <3>1. t = "cnot" /\ l.name = "ry" => op.gate = "y_minus_90"
        BY <1>6, <1>8 DEF QasmName
      <3>2. op.gate = "y_minus_90" => l.params = <<FormatFloat(-HALF_PI)>>
        BY DEF IrGateToQasm, GateLine
      <3> QED BY <3>1, <3>2, MinusHalfPiComesBack
    <2> QED BY <1>6, <1>8, <2>2, <2>3, <2>4 DEF NotSupported, QasmGateToIr
  <1>9. CASE op.gate \notin {"id", "cz", "x90", "cnot", "y_minus_90"}
    <2>1. l.params = ps
      BY <1>9 DEF IrGateToQasm, GateLine
    <2>2. WrittenGate(op) = Op(op.gate, op.qubits, ps)
      BY <1>2, <1>9 DEF WrittenGate, Op
    <2>3. (t = "cz" /\ op.gate \in {"rx", "ry", "rz"}) \/ (t = "cnot" /\ op.gate = "virtual_z")
      BY <1>3, <1>9, TextGateNames DEF LEGAL_GATES
    <2>4. /\ l.name \in DOMAIN NativeName(t) /\ NativeName(t)[l.name] = op.gate
          /\ ~(t = "cnot" /\ l.name = "ry")
      BY <1>6, <2>3 DEF NativeName, QasmName
    <2> QED BY <1>6, <1>9, <2>1, <2>2, <2>4 DEF NotSupported, QasmGateToIr
  <1> QED BY <1>7, <1>8, <1>9

\* Every gate that the parser returns has a text.
LEMMA ReadGateIsWritable ==
    ASSUME NEW l, NEW t, ~NotSupported(l, t)
    PROVE  QasmGateToIr(l, t).gate \in DOMAIN QasmName(t)
  <1>1. t \in {"cz", "cnot"} /\ l.name \in DOMAIN NativeName(t)
    BY NativeGateNames DEF NotSupported
  <1>2. QasmGateToIr(l, t).gate = NativeName(t)[l.name]
    BY DEF QasmGateToIr, Op
  <1> QED BY <1>1, <1>2, NativeGateNames, TextGateNames DEF NativeName
-----------------------------------------------------------------------------
(***************************************************************************)
(* The text of a circuit.                                                  *)
(***************************************************************************)
\* where the lines of the parts of a text are
LEMMA TwoParts ==
    ASSUME NEW S, NEW s \in Seq(S), NEW t \in Seq(S)
    PROVE  /\ Len(s \o t) = Len(s) + Len(t)
           /\ \A i \in 1 .. Len(s) : (s \o t)[i] = s[i]
           /\ \A i \in 1 .. Len(t) : (s \o t)[Len(s) + i] = t[i]
  <1>1. Len(s) \in Nat /\ Len(t) \in Nat
    BY LenProperties
  <1> QED BY <1>1, ConcatProperties

\* The same for the four parts of a circuit's text.
LEMMA FourParts ==
    ASSUME NEW S, NEW a \in Seq(S), NEW b \in Seq(S), NEW g \in Seq(S), NEW m \in Seq(S),
           NEW all, all = a \o b \o g \o m
    PROVE  /\ Len(all) = Len(a) + Len(b) + Len(g) + Len(m)
           /\ \A i \in 1 .. Len(a) : all[i] = a[i]
           /\ \A i \in 1 .. Len(b) : all[Len(a) + i] = b[i]
           /\ \A i \in 1 .. Len(g) : all[Len(a) + Len(b) + i] = g[i]
           /\ \A i \in 1 .. Len(m) : all[Len(a) + Len(b) + Len(g) + i] = m[i]
  <1>1. /\ Len(a) \in Nat /\ Len(b) \in Nat /\ Len(g) \in Nat /\ Len(m) \in Nat
    BY LenProperties
  <1>2. PICK ab \in Seq(S) : ab = a \o b
    BY ConcatProperties
  <1>3. PICK abg \in Seq(S) : abg = ab \o g
    BY ConcatProperties
  <1>4. all = abg \o m
    BY <1>2, <1>3
  <1>5. /\ Len(ab) = Len(a) + Len(b)
        /\ \A i \in 1 .. Len(a) : ab[i] = a[i]
        /\ \A i \in 1 .. Len(b) : ab[Len(a) + i] = b[i]
    BY <1>1, <1>2, TwoParts
  <1>6. /\ Len(abg) = Len(ab) + Len(g)
        /\ \A i \in 1 .. Len(ab) : abg[i] = ab[i]
        /\ \A i \in 1 .. Len(g) : abg[Len(ab) + i] = g[i]
    BY <1>3, TwoParts
  <1>7. /\ Len(all) = Len(abg) + Len(m)
        /\ \A i \in 1 .. Len(abg) : all[i] = abg[i]
        /\ \A i \in 1 .. Len(m) : all[Len(abg) + i] = m[i]
    BY <1>4, TwoParts
  <1>8. \A i \in 1 .. Len(a) : all[i] = a[i]
    BY <1>1, <1>5, <1>6, <1>7
  <1>9. \A i \in 1 .. Len(b) : all[Len(a) + i] = b[i]
    BY <1>1, <1>5, <1>6, <1>7
  <1>10. \A i \in 1 .. Len(g) : all[Len(a) + Len(b) + i] = g[i]
    BY <1>1, <1>5, <1>6, <1>7
  <1>11. Len(abg) = Len(a) + Len(b) + Len(g)
    BY <1>5, <1>6
  <1>12. \A i \in 1 .. Len(m) : all[Len(a) + Len(b) + Len(g) + i] = m[i]
    BY <1>7, <1>11
  <1>13. Len(all) = Len(a) + Len(b) + Len(g) + Len(m)
    BY <1>7, <1>11
  <1> QED BY <1>8, <1>9, <1>10, <1>12, <1>13

\* Line by line, what ir_to_openqasm writes.
LEMMA TextLayout ==
    ASSUME NEW c \in IRs
    PROVE  /\ Header(c) \in Nat /\ Header(c) >= 3 /\ Len(c.gates) \in Nat /\ Len(c.measurements) \in Nat
           /\ Len(TextOf(c)) = Header(c) + Len(c.gates) + Len(c.measurements)
           /\ \A i \in 1 .. Header(c) : i # 3 => TextOf(c)[i].kind = "skip"
           /\ TextOf(c)[3].kind = "qubit" /\ TextOf(c)[3].n = c.num_qubits
           /\ \A i \in 1 .. Len(c.gates) :
                 TextOf(c)[Header(c) + i] = IrGateToQasm(c.gates[i], c.target)
           /\ \A i \in 1 .. Len(c.measurements) :
                 /\ TextOf(c)[Header(c) + Len(c.gates) + i].kind = "measure"
                 /\ TextOf(c)[Header(c) + Len(c.gates) + i].q = c.measurements[i]
  <1> DEFINE skip == [kind |-> "skip"]
             qubit == [kind |-> "qubit", n |-> c.num_qubits]
             a == <<skip, skip, qubit>>
             b == IF c.measurements = <<>> THEN <<>> ELSE <<skip>>
             g == [i \in DOMAIN c.gates |-> IrGateToQasm(c.gates[i], c.target)]
             m == [i \in DOMAIN c.measurements |-> [kind |-> "measure", q |-> c.measurements[i]]]
             S == {skip, qubit} \cup {g[i] : i \in DOMAIN c.gates}
                  \cup {m[i] : i \in DOMAIN c.measurements}
  <1>1. c.gates \in Seq(GateOps) /\ c.measurements \in Seq(Int)
    BY DEF IRs
  <1>2. /\ Len(c.gates) \in Nat /\ DOMAIN c.gates = 1 .. Len(c.gates)
        /\ Len(c.measurements) \in Nat /\ DOMAIN c.measurements = 1 .. Len(c.measurements)
    BY <1>1, LenProperties
  <1>3. TextOf(c) = a \o b \o g \o m
    BY DEF TextOf
  <1>4. skip.kind = "skip" /\ qubit.kind = "qubit" /\ qubit.n = c.num_qubits
    OBVIOUS
  <1>5. \A i \in DOMAIN c.gates : g[i] = IrGateToQasm(c.gates[i], c.target)
    OBVIOUS
  <1>6. \A i \in DOMAIN c.measurements : m[i].kind = "measure" /\ m[i].q = c.measurements[i]
    OBVIOUS
  <1>7. g = [i \in DOMAIN c.gates |-> g[i]] /\ m = [i \in DOMAIN c.measurements |-> m[i]]
    OBVIOUS
  <1> HIDE DEF skip, qubit, g, m
  <1>8. /\ a \in Seq(S) /\ Len(a) = 3 /\ a[1] = skip /\ a[2] = skip /\ a[3] = qubit
    OBVIOUS
  <1>16. b \in Seq(S) /\ Len(b) = Header(c) - 3 /\ \A i \in 1 .. Len(b) : b[i] = skip
    <2>1. CASE c.measurements = <<>>
      <3>1. b = <<>> /\ Header(c) = 3
        BY <2>1 DEF Header
      <3> QED BY <3>1
    <2>2. CASE c.measurements # <<>>
      <3>1. b = <<skip>> /\ Header(c) = 4
        BY <2>2 DEF Header
      <3>2. skip \in S
        OBVIOUS
      <3> HIDE DEF S, b
      <3>3. <<skip>> \in Seq(S) /\ Len(<<skip>>) = 1 /\ <<skip>>[1] = skip
        BY <3>2
      <3> QED BY <3>1, <3>3
    <2> QED BY <2>1, <2>2
  <1>9. g \in Seq(S) /\ Len(g) = Len(c.gates)
    <2>1. \A i \in DOMAIN c.gates : g[i] \in S
      OBVIOUS
    <2> HIDE DEF S
    <2> QED BY <1>1, <1>7, <2>1, MapSeq
  <1>10. m \in Seq(S) /\ Len(m) = Len(c.measurements)
    <2>1. \A i \in DOMAIN c.measurements : m[i] \in S
      OBVIOUS
    <2> HIDE DEF S
    <2> QED BY <1>1, <1>7, <2>1, MapSeq
  <1> HIDE DEF S, a, b
  <1>11. /\ Len(TextOf(c)) = Len(a) + Len(b) + Len(g) + Len(m)
         /\ \A i \in 1 .. Len(a) : TextOf(c)[i] = a[i]
         /\ \A i \in 1 .. Len(b) : TextOf(c)[Len(a) + i] = b[i]
         /\ \A i \in 1 .. Len(g) : TextOf(c)[Len(a) + Len(b) + i] = g[i]
         /\ \A i \in 1 .. Len(m) : TextOf(c)[Len(a) + Len(b) + Len(g) + i] = m[i]
    <2>1. a \in Seq(S) /\ b \in Seq(S) /\ g \in Seq(S) /\ m \in Seq(S)
      BY <1>8, <1>16, <1>9, <1>10
    <2>2. PICK all : all = TextOf(c)
      OBVIOUS
    <2>3. all = a \o b \o g \o m
      BY <1>3, <2>2
    <2> HIDE DEF skip, qubit, a, b, g, m, S
    <2>4. /\ Len(all) = Len(a) + Len(b) + Len(g) + Len(m)
          /\ \A i \in 1 .. Len(a) : all[i] = a[i]
          /\ \A i \in 1 .. Len(b) : all[Len(a) + i] = b[i]
          /\ \A i \in 1 .. Len(g) : all[Len(a) + Len(b) + i] = g[i]
          /\ \A i \in 1 .. Len(m) : all[Len(a) + Len(b) + Len(g) + i] = m[i]
      BY <2>1, <2>3, FourParts
    <2> QED BY <2>2, <2>4
  <1>12. Header(c) \in {3, 4}
    BY DEF Header
  <1>13. Len(a) + Len(b) = Header(c)
    BY <1>8, <1>16, <1>12
  <1>14. \A i \in 1 .. Header(c) : i # 3 => TextOf(c)[i].kind = "skip"
    <2> SUFFICES ASSUME NEW i \in 1 .. Header(c), i # 3 PROVE TextOf(c)[i].kind = "skip"
      OBVIOUS
    <2>1. CASE i \in 1 .. 3
      BY <1>4, <1>8, <1>16, <1>11, <2>1
    <2>2. CASE i \notin 1 .. 3
      <3>1. i = 4 /\ Len(b) = 1
        BY <1>8, <1>16, <1>12, <2>2
      <3>2. TextOf(c)[Len(a) + 1] = skip
        <4>1. 1 \in 1 .. Len(b)
          BY <3>1
        <4> QED BY <1>16, <1>11, <4>1
      <3> QED BY <1>4, <1>8, <1>16, <3>1, <3>2
    <2> QED BY <2>1, <2>2
  <1>15. TextOf(c)[3] = qubit
    BY <1>8, <1>16, <1>11
  <1>17. Len(TextOf(c)) = Header(c) + Len(c.gates) + Len(c.measurements)
    BY <1>9, <1>10, <1>11, <1>13
  <1>18. \A i \in 1 .. Len(c.gates) : TextOf(c)[Header(c) + i] = IrGateToQasm(c.gates[i], c.target)
    BY <1>2, <1>5, <1>9, <1>11, <1>13
  <1>19. \A i \in 1 .. Len(c.measurements) :
            TextOf(c)[Header(c) + Len(c.gates) + i] = m[i]
    BY <1>2, <1>9, <1>10, <1>11, <1>13
  <1>20. \A i \in 1 .. Len(c.measurements) :
            /\ TextOf(c)[Header(c) + Len(c.gates) + i].kind = "measure"
            /\ TextOf(c)[Header(c) + Len(c.gates) + i].q = c.measurements[i]
    BY <1>2, <1>6, <1>19
  <1>21. Header(c) \in Nat /\ Header(c) >= 3
    BY <1>12
  <1> QED
    BY <1>2, <1>4, <1>14, <1>15, <1>17, <1>18, <1>20, <1>21
-----------------------------------------------------------------------------
(***************************************************************************)
(* A circuit that comes back from its text.                                *)
(***************************************************************************)
\* What is lost of a circuit in its text leaves it valid, gate by gate.
LEMMA WrittenParts ==
    ASSUME NEW c \in IRs, IRValid(c)
    PROVE  /\ Written(c) \in IRs /\ IRValid(Written(c))
           /\ Written(c).target = c.target /\ Written(c).num_qubits = c.num_qubits
           /\ Written(c).measurements = c.measurements
           /\ Len(Written(c).gates) = Len(c.gates)
           /\ \A i \in 1 .. Len(c.gates) :
                 /\ c.gates[i] \in GateOps /\ GateShapeOK(c.gates[i])
                 /\ c.gates[i].gate \in LEGAL_GATES[c.target]
                 /\ Written(c).gates[i] = WrittenGate(c.gates[i])
                 /\ Written(c).gates[i] \in GateOps
  <1> DEFINE gs == [i \in DOMAIN c.gates |-> WrittenGate(c.gates[i])]
  <1>1. c.gates \in Seq(GateOps)
    BY DEF IRs
  <1>2. Len(c.gates) \in Nat /\ DOMAIN c.gates = 1 .. Len(c.gates)
    BY <1>1, LenProperties
  <1>3. \A i \in 1 .. Len(c.gates) :
           /\ c.gates[i] \in GateOps /\ GateShapeOK(c.gates[i])
           /\ c.gates[i].gate \in LEGAL_GATES[c.target]
    BY <1>1, <1>2, ElementOfSeq DEF IRValid
  <1>4. \A i \in 1 .. Len(c.gates) :
           /\ gs[i] = WrittenGate(c.gates[i]) /\ gs[i] \in GateOps /\ GateShapeOK(gs[i])
           /\ gs[i].gate = c.gates[i].gate /\ gs[i].qubits = c.gates[i].qubits
    BY <1>2, <1>3, WrittenGateType
  <1>5. gs \in Seq(GateOps) /\ Len(gs) = Len(c.gates) /\ DOMAIN gs = 1 .. Len(c.gates)
    <2>1. gs = [i \in DOMAIN c.gates |-> gs[i]] /\ DOMAIN gs = DOMAIN c.gates
      OBVIOUS
    <2> HIDE DEF gs
    <2>2. \A i \in DOMAIN c.gates : gs[i] \in GateOps
      BY <1>2, <1>4
    <2>3. gs \in Seq(GateOps) /\ Len(gs) = Len(c.gates)
      BY <1>1, <2>1, <2>2, MapSeq
    <2> QED BY <1>2, <2>1, <2>3
  <1>6. Written(c) = [c EXCEPT !.gates = gs]
    BY DEF Written
  <1> HIDE DEF gs
  <1>7. /\ Written(c) \in IRs /\ Written(c).gates = gs
        /\ Written(c).target = c.target /\ Written(c).num_qubits = c.num_qubits
        /\ Written(c).measurements = c.measurements
    BY <1>5, <1>6 DEF IRs
  <1>8. IRValid(Written(c))
    BY <1>2, <1>3, <1>4, <1>5, <1>7 DEF IRValid
  <1> QED BY <1>3, <1>4, <1>5, <1>7, <1>8

\* one more element of t is copied
LEMMA CopyNext ==
    ASSUME NEW S, NEW s \in Seq(S), NEW t, NEW n \in Nat, Copied(s, t, n),
           NEW x \in S, x = t[n + 1]
    PROVE  Append(s, x) \in Seq(S) /\ Copied(Append(s, x), t, n + 1)
  <1>1. /\ Append(s, x) \in Seq(S) /\ Len(Append(s, x)) = n + 1
        /\ \A i \in 1 .. n : Append(s, x)[i] = s[i]
        /\ Append(s, x)[n + 1] = x
    BY AppendProperties DEF Copied
  <1> QED BY <1>1 DEF Copied

\* A line of a text that ir_to_openqasm wrote is never refused, and what the parser
\* takes from it is the next part of the circuit.
LEMMA ParseLineCopies ==
    ASSUME source \in IRs, IRValid(source), CopyInv, ParseLine
    PROVE  CopyInv' /\ qpc' = "parse"
  <1> DEFINE c == source
             h == Header(source)
             g == Len(source.gates)
             m == Len(source.measurements)
  <1>1. /\ h \in Nat /\ h >= 3 /\ g \in Nat /\ m \in Nat
        /\ Len(text) = h + g + m
        /\ \A i \in 1 .. h : i # 3 => text[i].kind = "skip"
        /\ text[3].kind = "qubit" /\ text[3].n = source.num_qubits
        /\ \A i \in 1 .. g : text[h + i] = IrGateToQasm(source.gates[i], source.target)
        /\ \A i \in 1 .. m : /\ text[h + g + i].kind = "measure"
                             /\ text[h + g + i].q = source.measurements[i]
    <2>1. text = TextOf(source)
      BY DEF CopyInv
    <2>2. /\ Header(source) \in Nat /\ Header(source) >= 3
          /\ Len(source.gates) \in Nat /\ Len(source.measurements) \in Nat
      BY TextLayout
    <2>3. Len(text) = h + g + m
      BY <2>1, TextLayout
    <2>4. \A i \in 1 .. h : i # 3 => text[i].kind = "skip"
      BY <2>1, TextLayout
    <2>5. text[3].kind = "qubit" /\ text[3].n = source.num_qubits
      BY <2>1, TextLayout
    <2>6. \A i \in 1 .. g : text[h + i] = IrGateToQasm(source.gates[i], source.target)
      BY <2>1, TextLayout
    <2>7. \A i \in 1 .. m : /\ text[h + g + i].kind = "measure"
                            /\ text[h + g + i].q = source.measurements[i]
      BY <2>1, TextLayout
    <2> QED BY <2>2, <2>3, <2>4, <2>5, <2>6, <2>7
  <1> HIDE DEF h, g, m
  <1>2. /\ at \in 1 .. h + g + m /\ at' = at + 1 /\ qpc = "parse"
        /\ SkipLine \/ QubitDecl \/ MeasureLine \/ GateTextLine \/ SymbolicLine \/ OtherLine
        /\ source' = source /\ text' = text /\ target' = target /\ target = source.target
    BY <1>1 DEF CopyInv, ParseLine
  <1>3. /\ num_qubits = IF at > 3 THEN source.num_qubits ELSE NoRegister
        /\ gates \in Seq(GateOps) /\ measurements \in Seq(Int)
        /\ Copied(gates, Written(source).gates, Progress(at, h, g))
        /\ Copied(measurements, source.measurements, Progress(at, h + g, m))
    BY DEF CopyInv, h, g, m
  <1>4. SUFFICES /\ qpc' = "parse"
                 /\ num_qubits' = IF at' > 3 THEN source.num_qubits ELSE NoRegister
                 /\ gates' \in Seq(GateOps) /\ measurements' \in Seq(Int)
                 /\ Copied(gates', Written(source).gates, Progress(at', h, g))
                 /\ Copied(measurements', source.measurements, Progress(at', h + g, m))
    <2>1. at' \in 1 .. Len(text') + 1
      BY <1>1, <1>2
    <2>2. h' = h /\ g' = g /\ m' = m
      BY <1>2 DEF h, g, m, Header
    <2> QED BY <1>2, <2>1, <2>2 DEF CopyInv, h, g, m, Progress, Copied
  <1>5. CASE at \in 1 .. h /\ at # 3
    <2>1. SkipLine
      BY <1>1, <1>2, <1>5 DEF QubitDecl, MeasureLine, GateTextLine, SymbolicLine, OtherLine
    <2>2. Progress(at', h, g) = Progress(at, h, g) /\ Progress(at', h + g, m) = Progress(at, h + g, m)
      BY <1>1, <1>2, <1>5 DEF Progress
    <2>3. at' > 3 <=> at > 3
      BY <1>1, <1>2, <1>5
    <2> QED BY <1>2, <1>3, <2>1, <2>2, <2>3 DEF SkipLine, parserVars
  <1>6. CASE at = 3
    <2>1. QubitDecl
      BY <1>1, <1>2, <1>6 DEF SkipLine, MeasureLine, GateTextLine, SymbolicLine, OtherLine
    <2>2. Progress(at', h, g) = Progress(at, h, g) /\ Progress(at', h + g, m) = Progress(at, h + g, m)
      BY <1>1, <1>2, <1>6 DEF Progress
    <2>3. num_qubits = NoRegister /\ at' > 3
      BY <1>2, <1>3, <1>6
    <2> QED BY <1>1, <1>2, <1>3, <1>6, <2>1, <2>2, <2>3 DEF QubitDecl
  <1>7. CASE at \in h + 1 .. h + g
    <2> DEFINE i == at - h
               op == source.gates[i]
    <2>1. /\ i \in 1 .. g /\ text[at] = IrGateToQasm(op, target)
          /\ Progress(at, h, g) = i - 1 /\ Progress(at', h, g) = i
          /\ Progress(at', h + g, m) = Progress(at, h + g, m) /\ at > 3 /\ at' > 3
      BY <1>1, <1>2, <1>7 DEF Progress
    <2>2. /\ op \in GateOps /\ GateShapeOK(op) /\ op.gate \in LEGAL_GATES[target]
          /\ Written(source).gates[i] = WrittenGate(op) /\ WrittenGate(op) \in GateOps
      BY <1>2, <2>1, WrittenParts DEF g
    <2>3. target \in DOMAIN LEGAL_GATES /\ op.gate \in DOMAIN QasmName(target)
      <3>1. DOMAIN source.gates = 1 .. g
        BY LenProperties DEF IRs, g
      <3> QED BY <1>2, <2>1, <3>1 DEF IRValid, CopyInv, Writable
    <2>4. /\ text[at].kind = "gate" /\ ~NotSupported(text[at], target)
          /\ QasmGateToIr(text[at], target) = WrittenGate(op)
      BY <2>1, <2>2, <2>3, GateComesBack
    <2>5. GateTextLine
      BY <1>2, <2>4 DEF SkipLine, MeasureLine, QubitDecl, SymbolicLine, OtherLine
    <2>6. GateShapeOK(WrittenGate(op))
      BY <2>2, WrittenGateType
    <2>7. gates' = Append(gates, WrittenGate(op)) /\ UNCHANGED <<qpc, num_qubits, measurements>>
      BY <2>4, <2>5, <2>6 DEF GateTextLine
    <2>8. gates' \in Seq(GateOps) /\ Copied(gates', Written(source).gates, i)
      <3>1. i - 1 \in Nat /\ (i - 1) + 1 = i
        BY <1>1, <2>1
      <3> HIDE DEF i, op
      <3>2. gates \in Seq(GateOps) /\ Copied(gates, Written(source).gates, i - 1)
        BY <1>3, <2>1
      <3>3. WrittenGate(op) = Written(source).gates[(i - 1) + 1]
        BY <2>2, <3>1
      <3>4. /\ Append(gates, WrittenGate(op)) \in Seq(GateOps)
            /\ Copied(Append(gates, WrittenGate(op)), Written(source).gates, (i - 1) + 1)
        BY <2>2, <3>1, <3>2, <3>3, CopyNext
      <3> QED BY <2>7, <3>1, <3>4
    <2> QED BY <1>2, <1>3, <2>1, <2>7, <2>8
  <1>8. CASE at \in h + g + 1 .. h + g + m
    <2> DEFINE i == at - (h + g)
               q == source.measurements[i]
    <2>1. /\ i \in 1 .. m /\ text[at].kind = "measure" /\ text[at].q = q
          /\ Progress(at, h + g, m) = i - 1 /\ Progress(at', h + g, m) = i
          /\ Progress(at', h, g) = Progress(at, h, g) /\ at > 3 /\ at' > 3
      <3>1. i \in 1 .. m /\ at = h + g + i
        BY <1>1, <1>8
      <3>2. text[at].kind = "measure" /\ text[at].q = q
        BY <1>1, <3>1
      <3> QED BY <1>1, <1>2, <3>1, <3>2 DEF Progress
    <2>2. MeasureLine
      BY <1>2, <2>1 DEF SkipLine, GateTextLine, QubitDecl, SymbolicLine, OtherLine
    <2>3. q \in Int
      BY <2>1, ElementOfSeq DEF IRs, m
    <2>4. measurements' = Append(measurements, q) /\ UNCHANGED <<qpc, num_qubits, gates>>
      BY <2>1, <2>2 DEF MeasureLine
    <2>5. measurements' \in Seq(Int) /\ Copied(measurements', source.measurements, i)
      <3>1. i - 1 \in Nat /\ (i - 1) + 1 = i
        BY <1>1, <2>1
      <3>2. q = source.measurements[(i - 1) + 1]
        BY <3>1
      <3> HIDE DEF i, q
      <3>3. measurements \in Seq(Int) /\ Copied(measurements, source.measurements, i - 1)
        BY <1>3, <2>1
      <3>4. /\ Append(measurements, q) \in Seq(Int)
            /\ Copied(Append(measurements, q), source.measurements, (i - 1) + 1)
        BY <2>3, <3>1, <3>2, <3>3, CopyNext
      <3> QED BY <2>4, <3>1, <3>4
    <2> QED BY <1>2, <1>3, <2>1, <2>4, <2>5
  <1> QED BY <1>1, <1>2, <1>5, <1>6, <1>7, <1>8

\* The parser starts with nothing copied.
LEMMA WritingStartsCopy ==
    ASSUME source \in IRs, IRValid(source), IrToOpenqasm, Writable(source)
    PROVE  CopyInv' /\ qpc' = "parse" /\ source' = source /\ ir' = ir
  <1>1. /\ text' = TextOf(source) /\ target' = source.target /\ qpc' = "parse"
        /\ source' = source /\ ir' = ir
        /\ num_qubits' = NoRegister /\ gates' = <<>> /\ measurements' = <<>> /\ at' = 1
    BY DEF IrToOpenqasm, Writable, ParserStart
  <1>2. /\ Header(source) \in Nat /\ Header(source) >= 3 /\ Len(source.gates) \in Nat
        /\ Len(source.measurements) \in Nat
        /\ Len(TextOf(source)) = Header(source) + Len(source.gates) + Len(source.measurements)
    BY TextLayout
  <1>3. /\ Progress(1, Header(source), Len(source.gates)) = 0
        /\ Progress(1, Header(source) + Len(source.gates), Len(source.measurements)) = 0
    BY <1>2 DEF Progress
  <1>4. Copied(<<>>, Written(source).gates, 0) /\ Copied(<<>>, source.measurements, 0)
    BY DEF Copied
  <1>5. gates' \in Seq(GateOps) /\ measurements' \in Seq(Int)
    BY <1>1
  <1>6. at' \in 1 .. Len(text') + 1 /\ ~(at' > 3)
    BY <1>1, <1>2
  <1>7. Writable(source)'
    BY <1>1 DEF Writable
  <1>8. /\ Copied(gates, Written(source).gates, Progress(at, Header(source), Len(source.gates)))'
        /\ Copied(measurements, source.measurements,
                  Progress(at, Header(source) + Len(source.gates), Len(source.measurements)))'
    BY <1>1, <1>3, <1>4
  <1> QED BY <1>1, <1>5, <1>6, <1>7, <1>8 DEF CopyInv

\* At the end of its text the circuit is there, and the validators accept it.
LEMMA EndOfCopy ==
    ASSUME source \in IRs, IRValid(source), CopyInv, at > Len(text)
    PROVE  Parsed = Written(source) /\ num_qubits # NoRegister /\ IRValid(Parsed)
  <1>1. /\ Header(source) \in Nat /\ Header(source) >= 3 /\ Len(source.gates) \in Nat
        /\ Len(source.measurements) \in Nat
        /\ at = Header(source) + Len(source.gates) + Len(source.measurements) + 1
    <2>1. /\ Header(source) \in Nat /\ Header(source) >= 3 /\ Len(source.gates) \in Nat
          /\ Len(source.measurements) \in Nat
          /\ Len(text) = Header(source) + Len(source.gates) + Len(source.measurements)
      BY TextLayout DEF CopyInv
    <2>2. at \in 1 .. Len(text) + 1
      BY DEF CopyInv
    <2>3. at = Len(text) + 1
      BY <2>1, <2>2
    <2> QED BY <2>1, <2>3
  <1>2. /\ Progress(at, Header(source), Len(source.gates)) = Len(source.gates)
        /\ Progress(at, Header(source) + Len(source.gates), Len(source.measurements))
              = Len(source.measurements)
    <2>1. PICK h \in Nat, g \in Nat, m \in Nat :
             h = Header(source) /\ g = Len(source.gates) /\ m = Len(source.measurements)
      BY <1>1
    <2>2. at = h + g + m + 1
      BY <1>1, <2>1
    <2>3. at - 1 - h = g + m /\ at - 1 - (h + g) = m
      BY <2>2
    <2>4. Progress(at, h, g) = g
      BY <2>3 DEF Progress
    <2>5. Progress(at, h + g, m) = m
      BY <2>3 DEF Progress
    <2> QED BY <2>1, <2>4, <2>5
  <1>3. /\ Written(source) \in IRs /\ IRValid(Written(source))
        /\ Written(source).target = source.target
        /\ Written(source).num_qubits = source.num_qubits
        /\ Written(source).measurements = source.measurements
        /\ Len(Written(source).gates) = Len(source.gates)
    BY WrittenParts
  <1>4. gates = Written(source).gates
    <2>1. gates \in Seq(GateOps) /\ Written(source).gates \in Seq(GateOps)
      BY <1>3 DEF CopyInv, IRs
    <2>2. Len(gates) = Len(Written(source).gates)
          /\ \A i \in 1 .. Len(gates) : gates[i] = Written(source).gates[i]
      BY <1>2, <1>3 DEF CopyInv, Copied
    <2> QED BY <2>1, <2>2, SeqEqual
  <1>5. measurements = source.measurements
    <2>1. measurements \in Seq(Int) /\ source.measurements \in Seq(Int)
      BY DEF CopyInv, IRs
    <2>2. Len(measurements) = Len(source.measurements)
          /\ \A i \in 1 .. Len(measurements) : measurements[i] = source.measurements[i]
      BY <1>2 DEF CopyInv, Copied
    <2> QED BY <2>1, <2>2, SeqEqual
  <1>6. num_qubits = source.num_qubits /\ target = source.target
    <2>1. at > 3
      BY <1>1
    <2>2. /\ num_qubits = IF at > 3 THEN source.num_qubits ELSE NoRegister
          /\ target = source.target
      BY DEF CopyInv
    <2> QED BY <2>1, <2>2
  <1>7. Written(source) = [target |-> Written(source).target,
                           num_qubits |-> Written(source).num_qubits,
                           gates |-> Written(source).gates,
                           measurements |-> Written(source).measurements]
    BY <1>3 DEF IRs
  <1>8. Parsed = Written(source)
    BY <1>3, <1>4, <1>5, <1>6, <1>7 DEF Parsed
  <1> QED BY <1>3, <1>6, <1>8 DEF NoRegister, IRValid

-----------------------------------------------------------------------------
(***************************************************************************)
(* A text that was not written from a circuit.                             *)
(***************************************************************************)
\* Whatever line it reads, the parser holds well-formed gates that have a text.
LEMMA ParseLineReads ==
    ASSUME ReadInv, ParseLine
    PROVE  ReadInv'
  <1>1. /\ text[at] \in TextLines /\ at' = at + 1 /\ at' \in Nat \ {0}
        /\ text' = text /\ target' = target /\ ir' = ir
        /\ SkipLine \/ QubitDecl \/ MeasureLine \/ GateTextLine \/ SymbolicLine \/ OtherLine
    <2>1. text \in Seq(TextLines) /\ at \in 1 .. Len(text)
      <3>1. Len(text) \in Nat
        BY LenProperties DEF ReadInv
      <3> QED BY <3>1 DEF ReadInv, ParseLine
    <2>2. text[at] \in TextLines
      BY <2>1, ElementOfSeq
    <2> QED BY <2>2 DEF ReadInv, ParseLine
  <1>2. SUFFICES /\ num_qubits' \in Int /\ measurements' \in Seq(Int) /\ gates' \in Seq(GateOps)
                 /\ \A i \in DOMAIN gates' : gates'[i].gate \in DOMAIN QasmName(target)
    BY <1>1 DEF ReadInv, QasmName
  <1>3. CASE UNCHANGED parserVars
    BY <1>3 DEF ReadInv, parserVars
  <1>4. CASE /\ text[at].kind = "qubit" /\ num_qubits' = text[at].n
             /\ UNCHANGED <<gates, measurements>>
    <2>1. text[at].n \in Int
      BY <1>1, <1>4 DEF TextLines
    <2> QED BY <1>4, <2>1 DEF ReadInv
  <1>5. CASE MeasureLine
    <2>1. text[at].q \in Int
      BY <1>1, <1>5 DEF TextLines, MeasureLine
    <2>2. Append(measurements, text[at].q) \in Seq(Int)
      BY <2>1, AppendProperties DEF ReadInv
    <2> QED BY <1>5, <2>2 DEF ReadInv, MeasureLine
  <1>6. CASE /\ text[at].kind = "gate" /\ ~NotSupported(text[at], target)
             /\ GateShapeOK(QasmGateToIr(text[at], target))
             /\ gates' = Append(gates, QasmGateToIr(text[at], target))
             /\ UNCHANGED <<num_qubits, measurements>>
    <2> DEFINE op == QasmGateToIr(text[at], target)
    <2>1. op.gate \in DOMAIN QasmName(target)
      BY <1>6, ReadGateIsWritable
    <2>2. op \in GateOps
      <3>1. text[at].qubits \in Seq(Int) /\ text[at].params \in Seq(Int)
        BY <1>1, <1>6 DEF TextLines
      <3>2. op = [gate |-> op.gate, qubits |-> text[at].qubits, params |-> op.params]
        BY DEF QasmGateToIr, Op
      <3>3. op.params \in {<<0>>, <<>>, text[at].params}
        BY DEF QasmGateToIr, Op
      <3>4. op.params \in Seq(Int)
        <4>1. <<0>> \in Seq(Int) /\ <<>> \in Seq(Int)
          OBVIOUS
        <4> HIDE DEF op
        <4> QED BY <3>1, <3>3, <4>1
      <3>5. op.gate \in DOMAIN GATE_SPECS
        BY <1>6 DEF GateShapeOK
      <3> HIDE DEF op
      <3> QED BY <3>1, <3>2, <3>4, <3>5 DEF GateOps
    <2> HIDE DEF op
    <2>3. gates \in Seq(GateOps) /\ gates' = Append(gates, op)
      BY <1>6 DEF ReadInv, op
    <2>4. /\ gates' \in Seq(GateOps) /\ Len(gates') = Len(gates) + 1 /\ Len(gates) \in Nat
          /\ \A i \in 1 .. Len(gates) : gates'[i] = gates[i]
          /\ gates'[Len(gates) + 1] = op
      BY <2>2, <2>3, AppendProperties, LenProperties
    <2>5. DOMAIN gates' = 1 .. Len(gates) + 1 /\ DOMAIN gates = 1 .. Len(gates)
      BY <2>3, <2>4, LenProperties
    <2>6. \A i \in DOMAIN gates' : gates'[i].gate \in DOMAIN QasmName(target)
      <3> SUFFICES ASSUME NEW i \in DOMAIN gates'
                   PROVE  gates'[i].gate \in DOMAIN QasmName(target)
        OBVIOUS
      <3>1. CASE i = Len(gates) + 1
        BY <2>1, <2>4, <3>1
      <3>2. CASE i \in 1 .. Len(gates)
        BY <2>4, <2>5, <3>2 DEF ReadInv
      <3> QED BY <2>4, <2>5, <3>1, <3>2
    <2> QED BY <1>6, <2>4, <2>6 DEF ReadInv
  <1> QED
    BY <1>1, <1>3, <1>4, <1>5, <1>6
    DEF SkipLine, QubitDecl, GateTextLine, SymbolicLine, OtherLine, Raise, parserVars

\* A circuit that has been read can be written.
LEMMA ReadCircuit ==
    ASSUME ReadInv
    PROVE  Parsed \in IRs /\ Writable(Parsed) /\ (num_qubits # NoRegister => Parsed # NoIR)
  <1>1. Parsed \in IRs
    BY DEF ReadInv, Parsed, IRs
  <1>2. Writable(Parsed)
    BY DEF ReadInv, Parsed, Writable
  <1> QED BY <1>1, <1>2 DEF Parsed, NoIR

-----------------------------------------------------------------------------
\* The strengthened invariant holds at first, and every step keeps it.
LEMMA QasmInvInit == QasmInit => QasmInv
  <1> SUFFICES ASSUME QasmInit PROVE QasmInv
    OBVIOUS
  <1>1. CASE qpc = "serialize" /\ source \in Circuits
    <2>1. source \in IRs /\ IRValid(source) /\ source # NoIR
      BY <1>1, QasmAssumption DEF IRValid, NoIR, NoRegister
    <2> QED BY <1>1, <2>1 DEF QasmInit, QasmInv, RoundTrip
  <1>2. CASE qpc = "write" /\ source = NoIR /\ target \in Targets
    <2>1. ReadInv
      BY <1>2, QasmAssumption DEF QasmInit, ReadInv, NoRegister
    <2> QED BY <1>2, <2>1 DEF QasmInit, QasmInv, RoundTrip
  <1> QED BY <1>1, <1>2 DEF QasmInit

\* Every step keeps it.
LEMMA QasmInvNext == QasmInv /\ [QasmNext]_qvars => QasmInv'
  <1> SUFFICES ASSUME QasmInv, [QasmNext]_qvars PROVE QasmInv'
    OBVIOUS
  <1>1. CASE WriteLine
    <2>1. source = NoIR /\ source' = NoIR /\ qpc' \in {"write", "parse"}
      BY <1>1 DEF WriteLine, QasmInv
    <2>2. text' \in Seq(TextLines)
      <3>1. text \in Seq(TextLines)
        BY <2>1 DEF QasmInv, ReadInv
      <3>2. CASE text' = text
        BY <3>1, <3>2
      <3>3. CASE \E l \in Lines : text' = Append(text, l)
        BY <3>1, <3>3, QasmAssumption, AppendProperties
      <3> QED BY <1>1, <3>2, <3>3 DEF WriteLine
    <2>3. ReadInv'
      BY <1>1, <2>1, <2>2 DEF WriteLine, QasmInv, ReadInv, parserVars, QasmName
    <2> QED BY <2>1, <2>3 DEF QasmInv, RoundTrip
  <1>2. CASE IrToOpenqasm
    <2>1. source \in IRs /\ IRValid(source) /\ source # NoIR /\ (ir # NoIR => Writable(source))
      BY <1>2 DEF IrToOpenqasm, QasmInv
    <2>2. CASE Writable(source)
      <3>1. CopyInv' /\ qpc' = "parse" /\ source' = source /\ ir' = ir
        BY <1>2, <2>1, <2>2, WritingStartsCopy
      <3>2. Writable(source)'
        BY <3>1 DEF CopyInv
      <3> QED BY <2>1, <3>1, <3>2 DEF QasmInv, RoundTrip
    <2>3. CASE ~Writable(source)
      <3>1. qpc' = "refused" /\ source' = source /\ ir' = ir /\ ir = NoIR
        BY <1>2, <2>1, <2>3 DEF IrToOpenqasm, Writable
      <3> QED BY <2>1, <3>1 DEF QasmInv, RoundTrip
    <2> QED BY <2>2, <2>3
  <1>3. CASE ParseLine
    <2>1. source' = source /\ ir' = ir /\ qpc = "parse"
      BY <1>3 DEF ParseLine
    <2>2. CASE source = NoIR
      <3>1. ReadInv'
        BY <1>3, <2>2, ParseLineReads DEF QasmInv
      <3>2. qpc' \in {"parse", "rejected", "escaped"}
        BY <1>3, <2>1 DEF ParseLine, SkipLine, QubitDecl, MeasureLine, GateTextLine,
                          SymbolicLine, OtherLine, Raise
      <3> QED BY <2>1, <2>2, <3>1, <3>2 DEF QasmInv, RoundTrip
    <2>3. CASE source # NoIR
      <3>1. CopyInv' /\ qpc' = "parse"
        BY <1>3, <2>1, <2>3, ParseLineCopies DEF QasmInv
      <3>2. Writable(source)'
        BY <3>1 DEF CopyInv
      <3> QED BY <2>1, <2>3, <3>1, <3>2 DEF QasmInv, RoundTrip
    <2> QED BY <2>2, <2>3
  <1>4. CASE EndOfText
    <2>1. qpc = "parse" /\ at > Len(text) /\ UNCHANGED <<text, at, target, parserVars>>
      BY <1>4 DEF EndOfText
    <2>2. CASE source = NoIR
      <3>1. Parsed \in IRs /\ Writable(Parsed) /\ (num_qubits # NoRegister => Parsed # NoIR)
        BY <2>2, ReadCircuit DEF QasmInv
      <3>2. CASE num_qubits # NoRegister /\ IRValid(Parsed)
        <4>1. ir' = Parsed /\ source' = Parsed /\ qpc' = "serialize"
          BY <1>4, <2>2, <3>2 DEF EndOfText
        <4>2. source' \in IRs /\ IRValid(source') /\ Writable(source') /\ source' # NoIR
          BY <3>1, <3>2, <4>1
        <4> QED BY <4>1, <4>2 DEF QasmInv, RoundTrip
      <3>3. CASE ~(num_qubits # NoRegister /\ IRValid(Parsed))
        <4>1. qpc' = "rejected" /\ source' = source /\ ir' = ir
          BY <1>4, <3>3 DEF EndOfText
        <4>2. ReadInv'
          BY <2>1, <2>2, <4>1 DEF QasmInv, ReadInv, parserVars, QasmName
        <4> QED BY <2>2, <4>1, <4>2 DEF QasmInv, RoundTrip
      <3> QED BY <3>2, <3>3
    <2>3. CASE source # NoIR
      <3>1. CopyInv /\ source \in IRs /\ IRValid(source)
        BY <2>1, <2>3 DEF QasmInv
      <3>2. Parsed = Written(source) /\ num_qubits # NoRegister /\ IRValid(Parsed)
        BY <2>1, <3>1, EndOfCopy
      <3>3. ir' = Written(source) /\ source' = source /\ qpc' = "done"
        BY <1>4, <2>3, <3>2 DEF EndOfText
      <3>4. Writable(source)
        BY <3>1 DEF CopyInv
      <3> QED BY <2>3, <3>1, <3>3, <3>4 DEF QasmInv, RoundTrip, Written, Writable
    <2> QED BY <2>2, <2>3
  <1>5. CASE UNCHANGED qvars
    <2>1. ReadInv' = ReadInv /\ CopyInv' = CopyInv /\ RoundTrip' = RoundTrip
      BY <1>5 DEF qvars, ReadInv, CopyInv, RoundTrip
    <2> QED BY <1>5, <2>1 DEF qvars, QasmInv
  <1> QED BY <1>1, <1>2, <1>3, <1>4, <1>5 DEF QasmNext

\* RoundTrip, for every set of circuits, of lines and of targets and every length of a
\* text: ir_to_openqasm and openqasm_to_ir agree on everything the first one writes.
THEOREM RoundTripHolds == QasmSpec => []RoundTrip
  <1>1. QasmInv => RoundTrip
    BY DEF QasmInv
  <1> QED BY <1>1, QasmInvInit, QasmInvNext, PTL DEF QasmSpec

\* What is lost on the way through a text is lost the first time: a circuit that has
\* been written and read once comes back from any further trip unchanged.
THEOREM SecondTripIsExact ==
    ASSUME NEW c \in IRs, IRValid(c)
    PROVE  Written(Written(c)) = Written(c)
  <1> DEFINE w == Written(c)
  <1>1. w \in IRs /\ IRValid(w)
    BY WrittenParts
  <1>2. \A op \in GateOps : WrittenGate(WrittenGate(op)) = WrittenGate(op)
    <2> SUFFICES ASSUME NEW op \in GateOps
                 PROVE  WrittenGate(WrittenGate(op)) = WrittenGate(op)
      OBVIOUS
    <2> DEFINE ps == [k \in DOMAIN op.params |-> IF op.gate = "id" THEN 0 ELSE FormatFloat(op.params[k])]
               v == WrittenGate(op)
    <2>1. v = [op EXCEPT !.params = ps]
      BY DEF WrittenGate
    <2>2. v.gate = op.gate /\ v.params = ps /\ DOMAIN ps = DOMAIN op.params
      BY <2>1 DEF GateOps
    <2>3. \A k \in DOMAIN op.params : op.params[k] \in Int
      BY ElementOfSeq, LenProperties DEF GateOps
    <2>4. [k \in DOMAIN ps |-> IF op.gate = "id" THEN 0 ELSE FormatFloat(ps[k])] = ps
      BY <2>3, FormatTwice
    <2>5. [v EXCEPT !.params = ps] = v
      BY <2>1 DEF GateOps
    <2> HIDE DEF ps, v
    <2>6. WrittenGate(v) = [v EXCEPT !.params = ps]
      BY <2>2, <2>4 DEF WrittenGate
    <2> QED BY <2>5, <2>6 DEF v
  <1>3. Len(w.gates) = Len(c.gates) /\ Len(Written(w).gates) = Len(w.gates)
    BY <1>1, WrittenParts
  <1>4. \A i \in 1 .. Len(w.gates) : Written(w).gates[i] = w.gates[i]
    <2>1. \A i \in 1 .. Len(w.gates) : /\ Written(w).gates[i] = WrittenGate(w.gates[i])
                                       /\ w.gates[i] = WrittenGate(c.gates[i])
                                       /\ c.gates[i] \in GateOps
      BY <1>1, <1>3, WrittenParts
    <2> QED BY <1>2, <2>1
  <1>5. w.gates \in Seq(GateOps) /\ Written(w).gates \in Seq(GateOps)
    BY <1>1, WrittenParts DEF IRs
  <1>6. Written(w).gates = w.gates
    BY <1>3, <1>4, <1>5, SeqEqual
  <1>7. /\ Written(w).target = w.target /\ Written(w).num_qubits = w.num_qubits
        /\ Written(w).measurements = w.measurements /\ Written(w) \in IRs
    BY <1>1, WrittenParts
  <1> HIDE DEF w
  <1>8. \A x \in IRs : x = [target |-> x.target, num_qubits |-> x.num_qubits,
                            gates |-> x.gates, measurements |-> x.measurements]
    BY DEF IRs
  <1>9. Written(w) = w
    <2>1. PICK u \in IRs : u = Written(w)
      BY <1>7
    <2> QED BY <1>1, <1>6, <1>7, <1>8, <2>1
  <1> QED BY <1>9 DEF w
=============================================================================
