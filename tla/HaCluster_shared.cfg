SPECIFICATION Spec

CONSTANTS
  StreamsA = {a1, a2}
  StreamsB = {b1}
  Keys = {k1}

PROPERTIES SharedAcrossInstances
