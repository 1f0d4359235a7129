------------------------------ MODULE MCTcpCacher ------------------------------
(* Instances of TcpCacher: frames of one byte, and of one that is misread. *)
EXTENDS TcpCacher

TestMessages ==
  {[sort |-> "frame", size |-> 5], [sort |-> "frame", size |-> 6],
   [sort |-> "request", size |-> 6], [sort |-> "json", size |-> 6],
   [sort |-> "junk", size |-> 1]}

=============================================================================
