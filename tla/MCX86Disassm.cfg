SPECIFICATION Spec
CONSTANTS
  Binaries <- MCBinaries
  Heaps <- MCHeaps
INVARIANTS TypeOK BytesShownOnce AddressesTrue LabelsInPlace
PROPERTY SweepEnds
