---------------------------- MODULE MCJobIntake ----------------------------
(***************************************************************************)
(* The loading of the executor and the translation of circuits share no    *)
(* state: every behaviour of the run is a behaviour of one of them.        *)
(***************************************************************************)
EXTENDS ExecutorLoading, OpenQASM

mcAngles == {-HALF_PI, 0, 3}
mcOperands == {<<0>>, <<1>>, <<0, 1>>}

\* valid circuits of one or two qubits and up to two gates
mcCircuits ==
    LET Ops == {o \in [gate : DOMAIN GATE_SPECS, qubits : mcOperands,
                       params : {<<>>} \cup {<<p>> : p \in mcAngles}] : GateShapeOK(o)}
        Of(gs) == {c \in [target : DOMAIN LEGAL_GATES, num_qubits : {1, 2}, gates : {gs},
                          measurements : {<<>>, <<0>>, <<1, 0>>}] : IRValid(c)}
    IN  UNION {Of(gs) : gs \in {<<>>} \cup {<<a>> : a \in Ops} \cup {<<a, b>> : a, b \in Ops}}

\* lines of a text: declarations, measurements, supported gates with the right and the
\* wrong operands, an unknown gate, a symbolic parameter
mcLines ==
    {[kind |-> "skip"], [kind |-> "other"], [kind |-> "symbolic"]}
    \cup {[kind |-> "qubit", n |-> n] : n \in {0, 2}}
    \cup {[kind |-> "measure", q |-> q] : q \in {0, 2}}
    \cup {GateLine(n, <<0>>, <<p>>) : n \in {"rx", "ry", "rz", "id"}, p \in mcAngles \cup {-4}}
    \cup {GateLine(n, <<0, 1>>, <<>>) : n \in {"cz", "cx", "h", "rx"}}
    \cup {GateLine(n, <<1>>, <<>>) : n \in {"sx", "cz", "ry"}}
    \cup {GateLine("cz", <<0, 1>>, <<3>>)}

LoaderIdle == lpc = "idle" /\ kind = <<>> /\ device = <<>> /\ env = NoPath /\ deviceFile = "absent"
              /\ executor_factory = NoPath /\ cached = {} /\ phase = "connect" /\ todo = {}
              /\ discovered = {} /\ offered = NoTopology /\ reported = NoTopology /\ runner = Nobody

QasmIdle == qpc = "idle" /\ source = NoIR /\ text = <<>> /\ at = 1 /\ target = "none" /\ ir = NoIR
            /\ num_qubits = NoRegister /\ gates = <<>> /\ measurements = <<>>

IntakeInit == (LoaderInit /\ QasmIdle) \/ (LoaderIdle /\ QasmInit)
IntakeNext == (LoaderNext /\ UNCHANGED qvars) \/ (QasmNext /\ UNCHANGED lvars)
IntakeSpec == IntakeInit /\ [][IntakeNext]_<<lvars, qvars>>
=============================================================================
