---------------------------- MODULE MCOrderDispatch ----------------------------
EXTENDS OrderDispatch

CONSTANTS o1, o3, v1, k1, k2, c1, c2, d1, d2, d3
=============================================================================
