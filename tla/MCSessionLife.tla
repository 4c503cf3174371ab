--------------------------- MODULE MCSessionLife ---------------------------
EXTENDS SessionLife

\* A bound of the two-file instance: the process exits while no request is
\* inside the driver, and none follows.
QuietExit == pr.pc = "alive" \/ \A e \in Resolvers : rs[e].pc = "idle"
=============================================================================
