SPECIFICATION ParametersSpec
CONSTANTS
  Numbers <- MCNumbers
  Names   <- MCNames
  MaxRequests = 2
CHECK_DEADLOCK FALSE
INVARIANTS
  ParametersTypeOK
  LimitHoldsForFinite
  WhatMovesIsWalking
  MoveIsLongestReadablePrefix
  SelectIsReadAlike
PROPERTIES
  NoHalfAppliedRequest
