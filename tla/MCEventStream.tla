--------------------------- MODULE MCEventStream ---------------------------
EXTENDS EventStream

\* A small packet, a larger one, one too large for the receiver, one too
\* large for the sender, and two that are built wrongly.
MCShapes ==
    {[headers |-> 0, payload |-> 0, form |-> "good"],
     [headers |-> 1, payload |-> 2, form |-> "good"],
     [headers |-> 2, payload |-> 2, form |-> "good"],
     [headers |-> 2, payload |-> 3, form |-> "good"],
     [headers |-> 0, payload |-> 0, form |-> "bad_lengths"],
     [headers |-> 1, payload |-> 0, form |-> "bad_headers"]}
=============================================================================
