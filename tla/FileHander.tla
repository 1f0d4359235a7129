------------------------------ MODULE FileHander ------------------------------
(***************************************************************************)
(* A file and the position at which a handle that writes it works.  A cell *)
(* is what the programs that use a handle write or read at once, whatever  *)
(* its bytes.  Several handles may read what one writes, each call under a *)
(* lock of the file's name, so a call is one step of its user.             *)
(***************************************************************************)
EXTENDS Integers, Sequences

Larger(a, b)  == IF a > b THEN a ELSE b
Smaller(a, b) == IF a < b THEN a ELSE b

\* What is at a place, with the unit and the time that it speaks of.
Cell(k, n, t) == [is |-> k, unit |-> n, time |-> t]
Hole == Cell("hole", 0, 0)

\* A file that was just created.  If it cannot be opened openSuccessed says that
\* it could, and no write gets anything out.
Create(opens) == [data |-> <<>>, pos |-> 0, opens |-> opens]

\* seek of a writer: the origin is not looked at.
Seek(f, pos) == [f EXCEPT !.pos = pos]

\* writeFile, of which n cells get out.  It moves on only if all of them do.
WriteFile(f, cells, n) ==
  LET out == IF f.opens THEN Smaller(n, Len(cells)) ELSE 0
      end == f.pos + out
      At(i) == IF i \in (f.pos + 1)..end THEN cells[i - f.pos]
               ELSE IF i <= Len(f.data) THEN f.data[i] ELSE Hole
  IN [f EXCEPT !.data = IF out = 0 THEN @
                        ELSE [i \in 1..Larger(Len(@), end) |-> At(i)],
               !.pos = IF out = Len(cells) THEN end ELSE @]
=============================================================================
