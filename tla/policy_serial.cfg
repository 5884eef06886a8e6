CONSTANTS
    A = A
    B = B
    NoSupplier = NoSupplier
    None = None
    Config = Config
    Production = Production
    Traces = {1, 2}
    Versions = {1, 2, 3, 4}
    Slots = {s1}
    Endpoints = {"run", "feedback", "learn", "promote", "force", "replay", "simulate", "restart"}
    Temps = {tmp1}
    Seeds <- NewFile
    Baseline = 1
    Neighbours <- Grid
    Safe <- Guardrail
    Choice <- ByWeights
    MinTraces = 1
    Margin = 0
SPECIFICATION Spec
INVARIANTS
    TypeOK
    StorageRestored
    AnswersPersist
PROPERTIES
    LearnIdempotent
    RegisterKept
