----------------------------- MODULE MCChildRuns -----------------------------
EXTENDS ChildRuns

CONSTANTS c1, c2, c3

MCCalls == {c1, c2, c3}
MCMixes == {[c \in MCCalls |-> IF c = c1 THEN k[1] ELSE IF c = c2 THEN k[2] ELSE "cli"] :
             k \in {<<"ask", "run">>, <<"run", "cli">>}}
=============================================================================
