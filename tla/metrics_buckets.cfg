SPECIFICATION Spec
CONSTANTS
  Workers = {w1, w2}
  Durations = {1, 3}
  Bounds <- MCBounds
  Threshold = 3
  MaxServed = 2
SYMMETRY Alike
INVARIANT BucketsCumulative
