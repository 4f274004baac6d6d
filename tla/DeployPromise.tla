--------------------------- MODULE DeployPromise ---------------------------
(***************************************************************************)
(* What deploy::run promises whoever started it, without any process: the  *)
(* selected profiles are pushed in the flake's order, several at a time if *)
(* need be; a cancel may stop it anywhere; and it ends with one verdict,   *)
(* "ok" for an uncancelled deploy only if every profile was pushed.        *)
(***************************************************************************)
EXTENDS Sequences, SequencesExt

CONSTANT None

VARIABLES
  selection,  \* the profiles to push, in order
  pushed,     \* those pushed so far
  asked,      \* somebody asked for it to stop
  verdict     \* None while it goes on, "ok", "failed", or "unstarted"

promise == <<selection, pushed, asked, verdict>>

Init ==
  /\ pushed = << >>
  /\ asked = FALSE
  /\ verdict = None

Push ==
  /\ verdict = None
  /\ pushed' \in {p \in Prefixes(selection) : Len(p) > Len(pushed)}
  /\ UNCHANGED <<selection, asked, verdict>>

(* A caller may also give up on a deploy that has already ended. *)
Ask ==
  /\ asked' = TRUE
  /\ UNCHANGED <<selection, pushed, verdict>>

End ==
  /\ verdict = None
  /\ \/ verdict' = "ok" /\ (asked \/ pushed = selection)
     \/ verdict' = "failed"
     \/ verdict' = "unstarted" /\ asked /\ pushed = << >>
  /\ UNCHANGED <<selection, pushed, asked>>

Next == Push \/ Ask \/ End

Spec == Init /\ [][Next]_promise
=============================================================================
