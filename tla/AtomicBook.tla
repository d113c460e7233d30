----------------------------- MODULE AtomicBook -----------------------------
(***************************************************************************)
(* What the override store promises the callers of one running process:    *)
(* the roster it answers from changes only by a whole call of Roster.Set,  *)
(* Roster.Remove or a batch of corrections, applied to the roster of that  *)
(* moment.  No call is lost under another, and none is half applied.       *)
(* A restart may bring back any roster the files hold.                     *)
(***************************************************************************)
EXTENDS Roster

VARIABLES live,   \* whether a process is running
          book    \* the roster it answers from

bookVars == <<live, book>>

BookInit == live = FALSE /\ book = EmptyRoster

Open  == ~live /\ live' = TRUE /\ book' \in RosterValue
Close == live' = FALSE /\ book' = EmptyRoster

(* A call that changes nothing is a stuttering step.                       *)
Take ==
  /\ live /\ book' # book
  /\ \E c \in Call, today \in Day :
        ~Refused(book, c) /\ book' = Apply(book, c, today)
  /\ UNCHANGED live

BookSpec == BookInit /\ [][Open \/ Close \/ Take]_bookVars
=============================================================================
