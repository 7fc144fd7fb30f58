\* Two packages of any kind, every source of configuration; circuits of two qubits and
\* two gates, texts of three lines.  Both procedures end.
CONSTANTS
    Packages = {"a", "b"}
    EnvPath = "env"
    DevicePath = "dev"
    Circuits <- mcCircuits
    Lines <- mcLines
    Targets = {"cz", "cnot", "pcz", "unknown"}
    MaxLines = 3
SPECIFICATION IntakeSpec
INVARIANTS
    RoundTrip
    ResolutionOrder
    TopologyAgrees
CHECK_DEADLOCK FALSE
