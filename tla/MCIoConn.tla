------------------------------ MODULE MCIoConn ------------------------------
(* IoConn with small watermarks: connections that are read, one of them with
   frames that outgrow the high watermark, and others that are written, with
   flushes or pauses of reads. *)
EXTENDS IoConn

Reader ==
  [cfg |-> [rdHigh |-> 1, wrHigh |-> 1, wrThreshold |-> 0, handshake |-> TRUE],
   ops |-> {"read", "notify", "shutdown"}, maxIn |-> 1, maxOut |-> 1]

Framer ==
  [cfg |-> [rdHigh |-> 2, wrHigh |-> 1, wrThreshold |-> 0, handshake |-> FALSE],
   ops |-> {"read"}, maxIn |-> 3, maxOut |-> 0]

Writer ==
  [cfg |-> [rdHigh |-> 2, wrHigh |-> 2, wrThreshold |-> 2, handshake |-> TRUE],
   ops |-> {"flush", "fullflush"}, maxIn |-> 0, maxOut |-> 3]

Pauser == [Writer EXCEPT !.ops = {"pause", "flush"}, !.maxOut = 2]

ReadAndWrite == {Reader, Framer, Writer, Pauser}
=============================================================================
