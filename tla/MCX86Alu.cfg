SPECIFICATION Spec
CONSTANT Operands <- Samples
INVARIANTS CompareRight WordsByBytesRight ShiftByCountRight DivisionsRight
