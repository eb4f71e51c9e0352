----------------------------- MODULE MCHaikuTick -----------------------------
EXTENDS HaikuTick, TLC

CONSTANTS i1, p1, p2, p3, v1, v2

MCInternal == {i1}
MCPublic == {p1, p2, p3}
MCVisitors == {v1, v2}
MCVisitorOf == [p \in MCPublic |-> IF p = p3 THEN v2 ELSE v1]
MCSymmetry == Permutations({p1, p2})
=============================================================================
