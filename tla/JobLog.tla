------------------------------- MODULE JobLog -------------------------------
(***************************************************************************)
(* The job log of the TUI (joblog.rs; app.rs 2348-2710 and the log keys of *)
(* handle_key_normal; ui.rs, the job-log pane): a capped buffer of lines    *)
(* of several hosts, the filter by the marked or selected hosts, and the   *)
(* three things that point into the filtered view by number: the scroll    *)
(* offset (from the tail), the visual selection (from the top) and the     *)
(* match the search is at.                                                 *)
(*                                                                         *)
(* Keys and reports are drawn at once.  Deploy output is drawn at most     *)
(* every few milliseconds, so that lines can arrive, and push old ones out, *)
(* between the frame the user looks at and the key they press.             *)
(*                                                                         *)
(* Abstractions.  A line is whose it is, how many rows of the pane it      *)
(* wraps into and how often the query occurs in it; columns are left out,  *)
(* so a selection is one of lines.  The window is not resized.             *)
(***************************************************************************)
EXTENDS Naturals, Sequences, FiniteSets, SequencesExt

CONSTANTS
  Hosts,    \* the hosts of the flake
  Lines,    \* lines that may be logged: [host, rows, hits]
  Height,   \* rows of the pane
  LogCap,   \* lines kept (2000)
  None,
  Starts    \* scenarios: what has been logged at first, and the bounds on what
            \* follows: lines logged, keys pressed

ASSUME JobLogAssumption ==
  /\ Lines \subseteq [host : Hosts \cup {None}, rows : Nat \ {0}, hits : Nat]
  /\ {Height, LogCap} \subseteq Nat \ {0} /\ None \notin Hosts
  /\ \A start \in Starts :
       /\ start.log \in Seq(Lines) /\ Len(start.log) <= LogCap
       /\ start.budget \in [lines : Nat, keys : Nat]

VARIABLES
  log,       \* the buffer, oldest line first
  marked,    \* the hosts marked with Space
  selected,  \* the host under the cursor
  onLog,     \* does the job log have the focus (or else the hosts)?
  scroll,    \* entries between the bottom of the pane and the tail
  top,       \* entries between the top of the pane and the tail, as last drawn
  visual,    \* the selection: numbers of the line it started from and of the
             \* one it has come to, or None
  search,    \* is a search committed?
  match,     \* the number of the match it is at, from 1
  panicked,  \* has an index out of range ended the program?
  left       \* what is left of the bounds

vars == << log, marked, selected, onLog, scroll, top, visual, search, match, panicked, left >>

----------------------------------------------------------------------------
(* What the pane shows *)

Minus(a, b) == IF a > b THEN a - b ELSE 0
Least(a, b) == IF a < b THEN a ELSE b
Most(a, b) == IF a > b THEN a ELSE b

\* One filter for painting, search, selection and yank (filtered_indices).
Active == IF marked = {} THEN {selected} ELSE marked
View(lines, hosts) ==
  LET f[i \in 0..Len(lines)] ==
        IF i = 0 THEN << >>
        ELSE IF lines[i].host \in hosts \cup {None} THEN Append(f[i - 1], lines[i])
        ELSE f[i - 1]
  IN  f[Len(lines)]
Filtered == View(log, Active)

\* The rows, and the matches, of the first i lines.
RowsTo(lines) ==
  LET f[i \in 0..Len(lines)] == IF i = 0 THEN 0 ELSE f[i - 1] + lines[i].rows IN f
HitsTo(lines) ==
  LET f[i \in 0..Len(lines)] == IF i = 0 THEN 0 ELSE f[i - 1] + lines[i].hits IN f
Hits(lines) == HitsTo(lines)[Len(lines)]
LastOf(lines, k) == SubSeq(lines, Len(lines) - k + 1, Len(lines))

\* compute_tail_scroll_offset: the offset it clamps to, the line on the first
\* row of the pane (from 0) and the rows from there to the tail.
Offsets(lines, offset) ==
  LET n == Len(lines)
      to == RowsTo(lines)
      rest == Minus(to[n], Height)
      cap == IF rest = 0 THEN 0
             ELSE CHOOSE k \in 1..n : /\ to[n] - to[n - k] >= rest
                                      /\ to[n] - to[n - k + 1] < rest
      at == Least(offset, cap)
      y == Minus(rest, to[n] - to[n - at])
      first == CHOOSE i \in 1..n : to[i] > y /\ to[i - 1] <= y
  IN  [scroll |-> at, first |-> first - 1, below |-> to[n] - y]

\* Mutant of WindowLen: as if the pane were at the tail.
WindowAtTail(offset) == Height + 2

\* The renderer builds only the entries that can be on screen, with some slack.
WindowLen(offset) == offset + Height + 2

\* A frame: the offset after clamping, the top line from the tail, and the rows
\* from the top of the pane to the tail.
Painted(lines, offset, length) ==
  LET n == Len(lines)
      start == Minus(n, length)
      o == Offsets(SubSeq(lines, start + 1, n), offset)
  IN  IF n = 0 THEN [scroll |-> 0, top |-> 0, below |-> 0]
      ELSE [scroll |-> o.scroll, top |-> n - 1 - (start + o.first),
            below |-> o.below]

Clamped(lines, offset) == IF offset >= Len(lines) THEN Minus(Len(lines), 1) ELSE offset

Frame(lines, offset) ==
  LET at == Clamped(lines, offset) IN Painted(lines, at, WindowLen(at))

\* The pane is drawn: the renderer writes back the offset and the top.
Draw(offset) ==
  \E frame \in {Frame(Filtered', offset)} : scroll' = frame.scroll /\ top' = frame.top

\* Is line i (from 0) on the pane, at least with its last or first row?
OnScreen(lines, offset, i) ==
  LET frame == Frame(lines, offset)
      to == RowsTo(lines)
      above == to[Len(lines)] - frame.below
  IN  /\ i \in 0..(Len(lines) - 1)
      /\ to[i] < above + Height /\ to[i + 1] > above

----------------------------------------------------------------------------
(* Lines *)

\* push_log_line: the oldest lines beyond the cap go.
Pushed(lines, line) ==
  LET all == Append(lines, line) IN LastOf(all, Least(Len(all), LogCap))

\* A line of a deploy, drawn or not; or of the app, drawn at once.
Log ==
  /\ ~panicked /\ left.lines > 0 /\ left' = [left EXCEPT !.lines = @ - 1]
  /\ \E line \in Lines :
       /\ log' = Pushed(log, line)
       /\ UNCHANGED << marked, selected, onLog, visual, search, match, panicked >>
       /\ \/ Draw(scroll)
          \/ line.host # None /\ UNCHANGED << scroll, top >>

----------------------------------------------------------------------------
(* Keys *)

Press == ~panicked /\ left.keys > 0 /\ left' = [left EXCEPT !.keys = @ - 1]

\* A tick paints what came in meanwhile.
Tick ==
  /\ ~panicked
  /\ UNCHANGED << log, marked, selected, onLog, visual, search, match, panicked, left >>
  /\ Draw(scroll)

\* Another host (j and k, or the wheel from any pane): what is shown changes.
SelectHost ==
  /\ Press
  /\ \E h \in Hosts \ {selected} : selected' = h
  /\ UNCHANGED << log, marked, onLog, visual, search, match, panicked >>
  /\ Draw(scroll)

\* Space marks the selected host and says so in its log.
Mark ==
  /\ ~onLog /\ Press
  /\ marked' = IF selected \in marked THEN marked \ {selected} ELSE marked \cup {selected}
  /\ log' = Pushed(log, [host |-> selected, rows |-> 1, hits |-> 0])
  /\ UNCHANGED << selected, onLog, visual, search, match, panicked >>
  /\ Draw(scroll)

\* Shift+A marks all, Shift+X none, from any pane.
MarkAll ==
  /\ Press
  /\ \/ marked' = Hosts
     \/ marked # {} /\ marked' = {}
  /\ log' = Pushed(log, [host |-> None, rows |-> 1, hits |-> 0])
  /\ UNCHANGED << selected, onLog, visual, search, match, panicked >>
  /\ Draw(scroll)

\* Tab, p and f move the focus and leave a selection alone.
Focus ==
  /\ Press
  /\ onLog' = ~onLog
  /\ UNCHANGED << log, marked, selected, visual, search, match, panicked >>
  /\ Draw(scroll)

\* Back and forth in history (scroll_job_log): k and j, or the wheel, from any
\* pane and in a selection too.
Scrolled(up, by) ==
  Least(IF up THEN scroll + by ELSE Minus(scroll, by), Minus(Len(Filtered), 1))

Scroll ==
  /\ Press
  /\ UNCHANGED << log, marked, selected, onLog, visual, search, match, panicked >>
  /\ \E up \in BOOLEAN :
       \/ onLog /\ visual = None /\ Draw(Scrolled(up, 1))
       \/ Draw(Scrolled(up, 3))

\* g and G (G not in a selection).
Jump ==
  /\ onLog /\ Press
  /\ UNCHANGED << log, marked, selected, onLog, visual, search, match, panicked >>
  /\ \/ Draw(Minus(Len(Filtered), 1))
     \/ visual = None /\ Draw(0)

\* The line a selection starts from: the one at the bottom of the pane.
BottomLine == Minus(Minus(Len(Filtered), 1), scroll)

\* v, from any pane.
Visual ==
  /\ Press
  /\ onLog' = TRUE
  /\ visual' = IF Filtered = << >> THEN visual
               ELSE [anchor |-> BottomLine, cursor |-> BottomLine]
  /\ UNCHANGED << log, marked, selected, search, match, panicked >>
  /\ Draw(scroll)

\* Mutant of Followed: the edge is counted in rows of the pane.
FollowedByRows(fromTail) ==
  LET edge == scroll + Height
  IN  IF fromTail > edge THEN scroll + (fromTail - edge) ELSE Least(scroll, fromTail)

\* The view follows the cursor over the edge that was last drawn.
Followed(fromTail) ==
  LET edge == Most(top, scroll)
  IN  IF fromTail > edge THEN scroll + (fromTail - edge) ELSE Least(scroll, fromTail)

Moved(up) ==
  Least(IF up THEN Minus(visual.cursor, 1) ELSE visual.cursor + 1, Len(Filtered) - 1)

MoveCursor ==
  /\ onLog /\ visual # None /\ Press
  /\ UNCHANGED << log, marked, selected, onLog, search, match, panicked >>
  /\ IF Filtered = << >> THEN UNCHANGED visual /\ Draw(scroll)
     ELSE \E up \in BOOLEAN :
            /\ visual' = [visual EXCEPT !.cursor = Moved(up)]
            /\ Draw(Followed(Len(Filtered) - 1 - Moved(up)))

\* y copies what is selected, as far as the view goes, and says so; of an empty
\* view it takes the first line all the same, and the program ends.
Yank ==
  /\ onLog /\ visual # None /\ Press
  /\ visual' = None
  /\ panicked' = (Filtered = << >>)
  /\ log' = Pushed(log, [host |-> None, rows |-> 1, hits |-> 0])
  /\ UNCHANGED << marked, selected, onLog, search, match >>
  /\ Draw(scroll)

\* Mutant of ScrollToMatch: the line is counted from the whole buffer.
ScrollToLogLine(number) ==
  LET hit == {i \in 1..Len(log) : log[i].hits > 0 /\ HitsTo(log)[i] >= number}
  IN  IF hit = {} THEN scroll
      ELSE Len(log) - (CHOOSE i \in hit : \A j \in hit : i <= j)

\* Where the match with that number is, with the bottom of the pane on it.
ScrollToMatch(number) ==
  LET hit == {i \in 1..Len(Filtered) : Filtered[i].hits > 0 /\ HitsTo(Filtered)[i] >= number}
  IN  IF hit = {} THEN scroll
      ELSE Len(Filtered) - (CHOOSE i \in hit : \A j \in hit : i <= j)

\* A query is committed, at the match nearest the tail, or given up.
Search ==
  /\ Press
  /\ UNCHANGED << log, marked, selected, onLog, visual, panicked >>
  /\ \/ /\ search' = TRUE /\ match' = Hits(Filtered)
        /\ Draw(IF Hits(Filtered) = 0 THEN 0 ELSE ScrollToMatch(match'))
     \/ search' = FALSE /\ UNCHANGED match /\ Draw(scroll)

\* n and N go round through all matches of what is shown by now.
Advanced(forth) ==
  LET total == Hits(Filtered)
      next == IF forth THEN match + 1 ELSE Minus(match, 1)
  IN  IF next < 1 THEN total ELSE IF next > total THEN 1 ELSE next

NextMatch ==
  /\ search /\ Press
  /\ UNCHANGED << log, marked, selected, onLog, visual, search, panicked >>
  /\ IF Hits(Filtered) = 0 THEN UNCHANGED match /\ Draw(scroll)
     ELSE \E forth \in BOOLEAN :
            /\ match' = Advanced(forth)
            /\ Draw(ScrollToMatch(match'))

\* Esc: first the selection, then the search.
Escape ==
  /\ Press
  /\ IF visual # None THEN visual' = None /\ UNCHANGED << search, match >>
     ELSE search' = FALSE /\ match' = 0 /\ UNCHANGED visual
  /\ UNCHANGED << log, marked, selected, onLog, panicked >>
  /\ Draw(scroll)

\* A confirmed deploy begins at the tail, without a selection.
Deploy ==
  /\ Press
  /\ visual' = None
  /\ LET seam == [host |-> None, rows |-> 1, hits |-> 0]
     IN  log' = Pushed(Pushed(log, seam), seam)
  /\ UNCHANGED << marked, selected, onLog, search, match, panicked >>
  /\ Draw(0)

----------------------------------------------------------------------------

Init ==
  /\ \E start \in Starts : log = start.log /\ left = start.budget
  /\ marked = {} /\ selected \in Hosts /\ onLog = FALSE
  /\ \E frame \in {Frame(Filtered, 0)} : scroll = frame.scroll /\ top = frame.top
  /\ visual = None /\ search = FALSE /\ match = 0
  /\ panicked = FALSE

Next ==
  \/ Log \/ Tick \/ SelectHost \/ Mark \/ MarkAll \/ Focus \/ Scroll \/ Jump \/ Visual \/ MoveCursor
  \/ Yank \/ Search \/ NextMatch \/ Escape \/ Deploy

Spec == Init /\ [][Next]_vars

----------------------------------------------------------------------------
(* Properties *)

\* "running it over the window yields the same offset it would over the full
\* list" (ui.rs 1726): wherever the pane is, the entries it is built from give
\* the same frame as all of them.
WindowSuffices ==
  \A offset \in 0..Minus(Len(Filtered), 1) :
    Painted(Filtered, offset, WindowLen(offset)) = Painted(Filtered, offset, Len(Filtered))

MatchLine(lines, number) ==
  CHOOSE i \in 1..Len(lines) : HitsTo(lines)[i] >= number /\ HitsTo(lines)[i - 1] < number

\* The search shows the match it goes to, however lines wrap and whatever came
\* and went since the last key.
MatchOnScreen ==
  [][match' # match /\ match' # 0 =>
       /\ match' \in 1..Hits(Filtered)
       /\ OnScreen(Filtered', scroll', MatchLine(Filtered, match') - 1)]_vars

\* A selection starts on a line that is on the pane, and, where no line wraps,
\* its cursor never leaves the pane: also when lines came in undrawn, another
\* host was selected or the wheel was turned since.
CursorOnScreen ==
  [][/\ visual' # None /\ visual' # visual
     /\ \A i \in 1..Len(log) : log[i].rows = 1
     => OnScreen(Filtered', scroll', visual'.cursor)]_vars
=============================================================================
