------------------------------- MODULE MCHttp1 -------------------------------
(* Http1 in scenarios of one kind of trouble, or two that meet. *)
EXTENDS Http1

All == {"headers", "payload", "write", "keepalive"}
Plain == [script |-> <<"get">>, end |-> "silent", control |-> FALSE, rejects |-> FALSE,
          fills |-> 0, busy |-> 0, pauses |-> 0, shutdown |-> FALSE, half |-> FALSE,
          limits |-> All, budget |-> 2, replies |-> {"empty"}]

MCScenarios ==
  {[Plain EXCEPT !.script = <<"part", "get", "get">>, !.replies = {"empty", "last", "body", "broken", "err"}],
   [Plain EXCEPT !.script = <<"post", "data", "end", "get">>, !.control = TRUE, !.replies = {"empty", "body"}],
   [Plain EXCEPT !.script = <<"post", "data", "end">>, !.fills = 1, !.replies = {"body"}],
   [Plain EXCEPT !.script = <<"expect", "end">>, !.control = TRUE, !.end = "gone", !.fills = 1],
   [Plain EXCEPT !.script = <<"upgrade", "data">>, !.control = TRUE, !.replies = {"empty", "body"}],
   [Plain EXCEPT !.script = <<"get", "both", "data">>, !.control = TRUE],
   [Plain EXCEPT !.script = <<"fixed", "end", "get">>, !.busy = 1],
   [Plain EXCEPT !.script = <<"get", "bye", "get">>, !.end = "eof", !.replies = {"body"}],
   [Plain EXCEPT !.script = <<"get", "get">>, !.end = "gone", !.fills = 1, !.pauses = 1, !.busy = 1],
   [Plain EXCEPT !.script = <<"post", "bad">>, !.shutdown = TRUE, !.control = TRUE, !.replies = {"body"}],
   [Plain EXCEPT !.script = <<"post", "data", "end">>, !.pauses = 1, !.fills = 1, !.replies = {"empty"}],
   [Plain EXCEPT !.script = <<"get", "part", "get">>, !.shutdown = TRUE, !.busy = 1],
   [Plain EXCEPT !.script = <<"get", "bad">>, !.fills = 1, !.busy = 1],
   [Plain EXCEPT !.script = <<"post", "data", "end", "get">>, !.end = "eof", !.pauses = 1, !.replies = {"empty", "body", "err"}]}

\* The control service rejects a request whose payload is still coming.
RejectScenarios ==
  {[Plain EXCEPT !.script = <<"post", "data", "end">>, !.control = TRUE, !.rejects = TRUE]}

=============================================================================
