\* The histogram: recording, merging and clearing.
SPECIFICATION Spec
CONSTANTS
  Width = 6
  SUB_BUCKET_BITS = 2
  h1 = h1
  h2 = h2
  Histograms <- MCHistograms
  Highests <- MCHighests
  Values <- MCValues
  MaxSamples = 3
SYMMETRY Symmetry
INVARIANT QuantilesConservative
