---------------------------- MODULE MCAssembly ----------------------------
(* Instances of FragmentAssembly for TLC. *)
EXTENDS FragmentAssembly

\* The events: an INIT message of one fragment, an event, a DQM event and an error
\* event of two, and an event of three.
MCParts(e) == <<1, 2, 2, 2, 3>>[e + 1]
CodeOf(e) == <<"INIT", "EVENT", "DQM_EVENT", "ERROR_EVENT", "EVENT">>[e + 1]

Fragment(e, part) ==
  [event |-> e, part |-> part, code |-> CodeOf(e), index |-> part, total |-> MCParts(e),
   intact |-> TRUE, copy |-> 0]
\* An event as one message, or as one for each fragment.
Together(e) == {[i \in 1 .. MCParts(e) |-> Fragment(e, i - 1)]}
Apart(e) == {<<Fragment(e, part)>> : part \in 0 .. MCParts(e) - 1}

MCTraffic ==
  {Together(0) \cup Apart(1), Apart(1) \cup Together(2), Apart(3) \cup Apart(2), Apart(4)}
=============================================================================
