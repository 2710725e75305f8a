---- MODULE MCSessions ----
EXTENDS Sessions

CONSTANTS m1, m2, l1, l2
====
