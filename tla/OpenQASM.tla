------------------------------ MODULE OpenQASM ------------------------------
(***************************************************************************)
(* The translators of server/qasm.py.  A circuit (given as IR, or read from *)
(* a text) is written by ir_to_openqasm and read back by openqasm_to_ir.   *)
(*                                                                         *)
(* A line of text is a record of the kind its regular expression matches.  *)
(* An angle is an integer, one unit being half a step of the 15 digits     *)
(* that _format_float keeps; pi/2 is between two steps.                    *)
(***************************************************************************)
EXTENDS NativeGateIR

CONSTANTS
    Circuits,   \* IR programs given to ir_to_openqasm
    Lines,      \* lines a text may have
    Targets,    \* targets a text is read for
    MaxLines    \* bound on the lines of a text

\* a line as the regular expressions take it apart
TextLines ==
    [kind : {"skip", "symbolic", "other"}] \cup [kind : {"qubit"}, n : Nat]
    \cup [kind : {"measure"}, q : Nat]
    \cup [kind : {"gate"}, name : STRING, qubits : Seq(Nat), params : Seq(Int)]

\* ir_to_openqasm is given a NativeGateIR, which its validators have passed
ASSUME QasmAssumption ==
    /\ \A c \in Circuits : c \in IRs /\ IRValid(c)
    /\ Lines \subseteq TextLines /\ Targets \subseteq STRING /\ MaxLines \in Nat

VARIABLES
    qpc,            \* "write": the text is being written (external); "serialize";
                    \* "parse"; the ends "done", "refused", "rejected", "escaped"
    source,         \* the circuit that is serialized
    text, at,       \* the lines, and the next one to parse
    target,         \* of the text
    num_qubits, gates, measurements,    \* locals of openqasm_to_ir
    ir              \* what the last parse returned

qvars == <<qpc, source, text, at, target, num_qubits, gates, measurements, ir>>
parserVars == <<num_qubits, gates, measurements>>

NoRegister == -1    \* num_qubits is None
NoIR == [target |-> "none", num_qubits |-> NoRegister, gates |-> <<>>, measurements |-> <<>>]
HALF_PI == 5

-----------------------------------------------------------------------------
(***************************************************************************)
(* Gates and their text.                                                   *)
(***************************************************************************)
\* to the nearest angle with 15 digits
FormatFloat(p) == 2 * ((p + 1) \div 2)

\* Mutant of IsMinusHalfPi: the angle is compared exactly.
EqualsMinusHalfPi(p) == p = -HALF_PI

\* math.isclose: the tolerance is wider than a step of FormatFloat
IsMinusHalfPi(p) == p + HALF_PI \in -2 .. 2

Op(g, qs, ps) == [gate |-> g, qubits |-> qs, params |-> ps]
GateLine(n, qs, ps) == [kind |-> "gate", name |-> n, qubits |-> qs, params |-> ps]

\* the text of a native gate; the targets without a mapping have an empty table
QasmName(t) ==
    CASE t = "cz"   -> [rx |-> "rx", ry |-> "ry", rz |-> "rz", cz |-> "cz", id |-> "id",
                        virtual_z |-> "rz"]
      [] t = "cnot" -> [x90 |-> "sx", y_minus_90 |-> "ry", virtual_z |-> "rz",
                        cnot |-> "cx", id |-> "id"]
      [] OTHER      -> [g \in {} |-> ""]

\* _ir_gate_to_openqasm: the duration of id is dropped, y_minus_90 is ry(-pi/2)
IrGateToQasm(op, t) ==
    GateLine(QasmName(t)[op.gate], op.qubits,
             CASE op.gate = "id"         -> <<>>
               [] op.gate = "y_minus_90" -> <<FormatFloat(-HALF_PI)>>
               [] OTHER -> [k \in DOMAIN op.params |-> FormatFloat(op.params[k])])

\* the native gate of a gate's text
NativeName(t) ==
    CASE t = "cz"   -> [rx |-> "rx", ry |-> "ry", rz |-> "rz", cz |-> "cz", id |-> "id"]
      [] t = "cnot" -> [sx |-> "x90", rz |-> "virtual_z", cx |-> "cnot", id |-> "id",
                        ry |-> "y_minus_90"]
      [] OTHER      -> [g \in {} |-> ""]

\* QASMConversionError of _openqasm_gate_to_ir
NotSupported(l, t) ==
    \/ l.name \notin DOMAIN NativeName(t)
    \/ t = "cnot" /\ l.name = "ry" /\ ~(Len(l.params) = 1 /\ IsMinusHalfPi(l.params[1]))

\* _openqasm_gate_to_ir: parameters of gates that take none are ignored
QasmGateToIr(l, t) ==
    LET g == NativeName(t)[l.name] IN
    Op(g, l.qubits, CASE g = "id"                          -> <<0>>
                      [] g \in {"cz", "x90", "cnot", "y_minus_90"} -> <<>>
                      [] OTHER                             -> l.params)

-----------------------------------------------------------------------------
(***************************************************************************)
(* ir_to_openqasm.                                                         *)
(***************************************************************************)
TextOf(c) ==
    <<[kind |-> "skip"], [kind |-> "skip"], [kind |-> "qubit", n |-> c.num_qubits]>>
    \o (IF c.measurements = <<>> THEN <<>> ELSE <<[kind |-> "skip"]>>)
    \o [i \in DOMAIN c.gates |-> IrGateToQasm(c.gates[i], c.target)]
    \o [i \in DOMAIN c.measurements |-> [kind |-> "measure", q |-> c.measurements[i]]]

ParserStart == num_qubits' = NoRegister /\ gates' = <<>> /\ measurements' = <<>> /\ at' = 1

\* a gate without a mapping raises QASMConversionError
IrToOpenqasm ==
    /\ qpc = "serialize"
    /\ \/ /\ \A i \in DOMAIN source.gates : source.gates[i].gate \in DOMAIN QasmName(source.target)
          /\ text' = TextOf(source) /\ target' = source.target /\ qpc' = "parse" /\ ParserStart
       \/ /\ \E i \in DOMAIN source.gates : source.gates[i].gate \notin DOMAIN QasmName(source.target)
          /\ qpc' = "refused" /\ UNCHANGED <<text, at, target, parserVars>>
    /\ UNCHANGED <<source, ir>>

-----------------------------------------------------------------------------
(***************************************************************************)
(* openqasm_to_ir, one line at a time.                                     *)
(***************************************************************************)
Raise(how) == qpc' = how /\ UNCHANGED parserVars

\* blank lines, comments, header, include, bit declarations
SkipLine == text[at].kind = "skip" /\ UNCHANGED <<qpc, parserVars>>

QubitDecl ==
    /\ text[at].kind = "qubit"
    /\ \/ num_qubits = NoRegister /\ num_qubits' = text[at].n
          /\ UNCHANGED <<qpc, gates, measurements>>
       \/ num_qubits # NoRegister /\ Raise("rejected")

\* the classical bit a measurement goes to is not looked at
MeasureLine ==
    /\ text[at].kind = "measure" /\ measurements' = Append(measurements, text[at].q)
    /\ UNCHANGED <<qpc, num_qubits, gates>>

\* a gate that is not supported is rejected; a wrong number of operands is found by
\* GateOp, whose ValidationError nothing turns into a QASMConversionError
GateTextLine ==
    /\ text[at].kind = "gate"
    /\ \/ NotSupported(text[at], target) /\ Raise("rejected")
       \/ /\ ~NotSupported(text[at], target)
          /\ \/ /\ GateShapeOK(QasmGateToIr(text[at], target))
                /\ gates' = Append(gates, QasmGateToIr(text[at], target))
                /\ UNCHANGED <<qpc, num_qubits, measurements>>
             \/ ~GateShapeOK(QasmGateToIr(text[at], target)) /\ Raise("escaped")

\* a parameter that is no number (pi/2): float() raises ValueError
SymbolicLine == text[at].kind = "symbolic" /\ Raise("escaped")

OtherLine == text[at].kind = "other" /\ Raise("rejected")

ParseLine ==
    /\ qpc = "parse" /\ at <= Len(text) /\ at' = at + 1
    /\ SkipLine \/ QubitDecl \/ MeasureLine \/ GateTextLine \/ SymbolicLine \/ OtherLine
    /\ UNCHANGED <<source, text, target, ir>>

Parsed ==
    [target |-> target, num_qubits |-> num_qubits, gates |-> gates, measurements |-> measurements]

\* the end of the text: a register must be there and the IR valid; a circuit that
\* was read from a text is serialized next
EndOfText ==
    /\ qpc = "parse" /\ at > Len(text)
    /\ \/ /\ num_qubits # NoRegister /\ IRValid(Parsed)
          /\ ir' = Parsed
          /\ \/ source = NoIR /\ source' = Parsed /\ qpc' = "serialize"
             \/ source # NoIR /\ qpc' = "done" /\ UNCHANGED source
       \/ /\ num_qubits = NoRegister \/ ~IRValid(Parsed)
          /\ qpc' = "rejected" /\ UNCHANGED <<source, ir>>
    /\ UNCHANGED <<text, at, target, parserVars>>

-----------------------------------------------------------------------------
\* a text is written line by line (external)
WriteLine ==
    /\ qpc = "write"
    /\ \/ /\ Len(text) < MaxLines /\ \E l \in Lines : text' = Append(text, l)
          /\ UNCHANGED qpc
       \/ qpc' = "parse" /\ UNCHANGED text
    /\ UNCHANGED <<source, at, target, parserVars, ir>>

QasmInit ==
    /\ \/ qpc = "serialize" /\ target = "none" /\ source \in Circuits
       \/ qpc = "write" /\ target \in Targets /\ source = NoIR
    /\ text = <<>> /\ at = 1 /\ ir = NoIR
    /\ num_qubits = NoRegister /\ gates = <<>> /\ measurements = <<>>

QasmNext == WriteLine \/ IrToOpenqasm \/ ParseLine \/ EndOfText

QasmSpec == QasmInit /\ [][QasmNext]_qvars

-----------------------------------------------------------------------------
(***************************************************************************)
(* Properties.                                                             *)
(***************************************************************************)
\* what a gate's text stands for: angles with 15 digits, no id durations
WrittenGate(op) ==
    [op EXCEPT !.params = [k \in DOMAIN op.params |->
        IF op.gate = "id" THEN 0 ELSE FormatFloat(op.params[k])]]

\* the circuit that a text stands for
Written(c) == [c EXCEPT !.gates = [i \in DOMAIN c.gates |-> WrittenGate(c.gates[i])]]

\* Every circuit that ir_to_openqasm writes is read back as the same circuit up to
\* 15 digits and id durations, gate by gate and measurement by measurement, and is
\* never rejected; a circuit that openqasm_to_ir has read can always be written
\* (qasm.py:169-172).  y_minus_90 comes back although -pi/2 has lost digits.
RoundTrip ==
    /\ qpc = "done" => ir = Written(source)
    /\ source # NoIR => qpc \notin {"rejected", "escaped"}
    /\ qpc = "refused" => ir = NoIR
=============================================================================
