----------------------------- MODULE MCPipeline -----------------------------
EXTENDS Pipeline, TLC

CONSTANTS t1, c1, c2, m1, zero

MCThread == {t1}
MCClient == {c1, c2}
MCMeshId == {m1, zero}

\* Two readings of the clock: one an int holds, one it does not.
MCStamp == {2, 4}
MCByHand == {Plain(1), Plain(3)}
MCStem == {Plain(n) : n \in 1 .. 4} \cup {Ms(2), Ms(4)}

\* One reading of the clock, more than an int holds as the milliseconds since 1970 are.
OneStamp == {4}
OneByHand == {Plain(3)}
OneStem == {Plain(3), Plain(4), Ms(4)}

\* One upload of a mesh, and scenes that name it.
MCSent == {[route |-> "upload", type |-> "other", body |-> "text"],
           [route |-> "submit", type |-> "json", body |-> "scene"]}
=============================================================================
