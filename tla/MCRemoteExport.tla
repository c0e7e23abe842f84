--------------------------- MODULE MCRemoteExport ---------------------------
(* A small instance of RemoteExport: the network delivers each query once. *)
EXTENDS RemoteExport, TLC

CONSTANTS q1, q2, q3, q4

FourQueries == {q1, q2, q3, q4}
\* q2 repeats q1, q3 claims the same request with other bytes, q4 is another request.
SameIdent == [q \in Queries |-> IF q = q4 THEN 2 ELSE 1]
Conflicting == [q \in Queries |-> IF q = q3 THEN 2 ELSE 1]
Mixed == [q \in Queries |-> IF q = q3 THEN {"stop"} ELSE IF q = q4 THEN {"submission", "reply"} ELSE {"reply"}]
Declared == <<"stop", "submission", "reply">>
=============================================================================
