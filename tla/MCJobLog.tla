------------------------------ MODULE MCJobLog ------------------------------
(* Finite instances of JobLog: two hosts, lines of one or three rows.      *)
EXTENDS JobLog

CONSTANTS h1, h2

Line(host, rows, hits) == [host |-> host, rows |-> rows, hits |-> hits]

MCLines == {Line(h1, 1, 0), Line(h1, 3, 2), Line(h2, 1, 1), Line(None, 1, 0)}

Up(lines, keys) == [lines |-> lines, keys |-> keys]
Narrow == << Line(h1, 1, 0), Line(None, 1, 0), Line(h1, 1, 0), Line(h1, 1, 0),
             Line(h2, 1, 1), Line(h1, 1, 0), Line(h1, 1, 0) >>
Wrapped == << Line(h1, 3, 2), Line(h1, 1, 0), Line(h2, 1, 1), Line(h1, 3, 2),
              Line(h1, 1, 0), Line(h1, 3, 2), Line(h1, 1, 0) >>

\* From nothing, and from a full buffer: of lines that fit, of lines that wrap,
\* or of one host only.
MCStarts ==
  {[log |-> << >>, budget |-> Up(2, 3)],
   [log |-> Narrow, budget |-> Up(1, 4)],
   [log |-> Wrapped, budget |-> Up(1, 3)],
   [log |-> [i \in 1..7 |-> Line(h1, 1, 0)], budget |-> Up(1, 4)]}
=============================================================================
