------------------------------- MODULE MCServer -------------------------------
(* Server in scenarios of one kind of trouble, or two that meet.  Two workers  *)
(* are alike, so that faults hit one of them only.                             *)
EXTENDS Server
CONSTANTS w1, w2

Quiet == [workers |-> {w1, w2}, prone |-> {w1}, arrivals |-> 1, faults |-> 0, stalls |-> 0,
          blocks |-> 0, pauses |-> 0, stops |-> 0, errors |-> 0, stopOnPanic |-> FALSE]
Alone == [Quiet EXCEPT !.workers = {w1}]
MCScenarios ==
  {[Alone EXCEPT !.stalls = 1, !.arrivals = 2],
   [Quiet EXCEPT !.blocks = 1, !.arrivals = 2],
   [Quiet EXCEPT !.stops = 1, !.arrivals = 0],
   [Quiet EXCEPT !.faults = 1, !.stopOnPanic = TRUE, !.arrivals = 0],
   [Alone EXCEPT !.faults = 1, !.arrivals = 2],
   [Alone EXCEPT !.pauses = 1, !.arrivals = 2],
   [Alone EXCEPT !.pauses = 1, !.errors = 1],
   [Alone EXCEPT !.faults = 1, !.stops = 1],
   [Alone EXCEPT !.faults = 2, !.stops = 1, !.arrivals = 0]}

=============================================================================
