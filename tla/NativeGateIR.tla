---------------------------- MODULE NativeGateIR ----------------------------
(***************************************************************************)
(* The circuit format of server/ir.py: which programs the validators of    *)
(* GateOp and NativeGateIR let through.  An angle is an integer, see       *)
(* OpenQASM.                                                               *)
(***************************************************************************)
EXTENDS Integers, Sequences

\* operands and parameters of every gate
GATE_SPECS ==
    LET Shape(q, p) == [qubits |-> q, params |-> p] IN
    [rx |-> Shape(1, 1), ry |-> Shape(1, 1), rz |-> Shape(1, 1), cz |-> Shape(2, 0),
     iswap |-> Shape(2, 0), cp |-> Shape(2, 1), id |-> Shape(1, 1), x90 |-> Shape(1, 0),
     y_minus_90 |-> Shape(1, 0), virtual_z |-> Shape(1, 1), cnot |-> Shape(2, 0)]

LEGAL_GATES ==
    LET Rotations == {"rx", "ry", "rz", "id"} IN
    [cz |-> Rotations \cup {"cz"}, iswap |-> Rotations \cup {"iswap"},
     pcz |-> Rotations \cup {"cp"},
     cnot |-> Rotations \cup {"x90", "y_minus_90", "virtual_z", "cnot"}]

MaxQubits == 50

\* GateOp and NativeGateIR as pydantic types their fields
GateOps == [gate : DOMAIN GATE_SPECS, qubits : Seq(Int), params : Seq(Int)]
IRs == [target : STRING, num_qubits : Int, gates : Seq(GateOps), measurements : Seq(Int)]

\* validate_gate_shape; the names are those of NativeGate
GateShapeOK(op) ==
    /\ op.gate \in DOMAIN GATE_SPECS
    /\ Len(op.qubits) = GATE_SPECS[op.gate].qubits
    /\ Len(op.params) = GATE_SPECS[op.gate].params

\* validate_target, the bounds of num_qubits, and validate_consistency
IRValid(ir) ==
    LET InRange(q) == q >= 0 /\ q < ir.num_qubits IN
    /\ ir.target \in DOMAIN LEGAL_GATES
    /\ ir.num_qubits >= 1 /\ ir.num_qubits <= MaxQubits
    /\ \A i \in DOMAIN ir.gates :
          /\ GateShapeOK(ir.gates[i])
          /\ ir.gates[i].gate \in LEGAL_GATES[ir.target]
          /\ \A k \in DOMAIN ir.gates[i].qubits : InRange(ir.gates[i].qubits[k])
    /\ \A i \in DOMAIN ir.measurements : InRange(ir.measurements[i])
=============================================================================
