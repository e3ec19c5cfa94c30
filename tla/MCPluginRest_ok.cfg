CONSTANTS
  Seg <- MCSeg
  Ext <- MCExt
  DevDir <- MCDevDir
  MaxDepth = 3
SPECIFICATION Spec


INVARIANT OkMeansApplied
