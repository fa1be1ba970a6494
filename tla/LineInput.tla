----------------------------- MODULE LineInput -----------------------------
(***************************************************************************)
(* What the console promises to those who read from it: a line is edited   *)
(* until newline or control-D ends it or the buffer is full; then its      *)
(* characters reach the readers, once each and in order.                   *)
(***************************************************************************)
EXTENDS Naturals, Sequences

CONSTANTS Chars, Capacity, NoChar

VARIABLES
  ready,   \* characters of finished lines
  edit,    \* the line being typed
  got      \* the last character that a reader received

Init == ready = << >> /\ edit = << >> /\ got = NoChar

Ends(c, line) == c \in {"\n", "^D"} \/ Len(ready) + Len(line) = Capacity

Type(c) ==
  /\ Len(ready) + Len(edit) < Capacity
  /\ LET line == Append(edit, c) IN
     IF Ends(c, line) THEN ready' = ready \o line /\ edit' = << >>
                      ELSE edit' = line /\ UNCHANGED ready
  /\ UNCHANGED got

Backspace ==
  /\ edit # << >> /\ edit' = SubSeq(edit, 1, Len(edit) - 1)
  /\ UNCHANGED <<ready, got>>

KillLine == edit # << >> /\ edit' = << >> /\ UNCHANGED <<ready, got>>

Deliver ==
  /\ ready # << >> /\ Head(ready) # "^D"
  /\ ready' = Tail(ready) /\ got' = Head(ready)
  /\ UNCHANGED edit

\* End of file, or a character that its reader's buffer could not take.
Drop == ready # << >> /\ ready' = Tail(ready) /\ UNCHANGED <<edit, got>>

Next ==
  \/ \E c \in Chars : Type(c)
  \/ Backspace \/ KillLine \/ Drop \/ Deliver

Spec == Init /\ [][Next]_<<ready, edit, got>>
=============================================================================
