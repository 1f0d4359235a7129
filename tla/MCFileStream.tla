----------------------------- MODULE MCFileStream ------------------------------
(* An instance of FileStream for TLC.                                        *)
EXTENDS FileStream

\* The beginning, all that is behind the first pictures, what is never reached.
TestRanges == {<<1, 2>>, <<2, 0>>, <<9, 0>>}

\* With packets of 20 bytes: units of one packet, of two fragments that are full, of
\* two and a rest, and of one byte.
Unit(c, n, t) == [at |-> 0, code |-> c, size |-> n, type |-> t]
Units == {Unit(c, n, "slice") : c \in {3, 4}, n \in {1, 13, 14}}
           \cup {Unit(4, 5, "other")}
Sets == <<Unit(4, 4, "sps"), Unit(4, 2, "pps")>>

Put(f, u) ==
  Append(f, [u EXCEPT !.at = IF f = <<>> THEN 0
                             ELSE Last(f).at + Last(f).code + Last(f).size])
Layout(units) == FoldLeft(Put, <<>>, units)

\* A cache holds 24 bytes, so that a start code comes to lie everywhere at its edge.
TestFiles ==
  {Layout(Sets \o <<u, v, w, Unit(3, 1, "slice")>>) :
     u, v \in Units, w \in {Unit(3, 7, "slice"), Unit(4, 14, "slice")}}
    \cup {Layout(<<Unit(3, 7, "slice")>> \o Sets), <<>>}
=============================================================================
