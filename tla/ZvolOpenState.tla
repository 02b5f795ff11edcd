----------------------------- MODULE ZvolOpenState -----------------------------
(***************************************************************************)
(* What a volume's open state promises its users (spec.md 4.1, 4.6, 8):   *)
(* a set of openers, one of which may hold the volume exclusively. An     *)
(* exclusive open succeeds only on a volume nobody has open, no open      *)
(* succeeds while an exclusive one is held, a close ends one open and     *)
(* with it any exclusivity, and a rename under the simple-device mode     *)
(* closes every open at once.                                              *)
(***************************************************************************)
CONSTANT Threads

VARIABLES holders,  \* the threads that have the volume open
          excl      \* the open is exclusive

vars == <<holders, excl>>

Init == holders = {} /\ excl = FALSE

(* t opens the volume, exclusively when x.                                 *)
Open(t, x) ==
  /\ t \notin holders /\ ~excl
  /\ x => holders = {}
  /\ holders' = holders \cup {t}
  /\ excl' = x

Close(t) ==
  /\ t \in holders
  /\ holders' = holders \ {t}
  /\ excl' = FALSE

(* A rename drops every open.                                              *)
Revoke ==
  /\ holders # {}
  /\ holders' = {}
  /\ excl' = FALSE

Next ==
  \/ \E t \in Threads, x \in BOOLEAN : Open(t, x)
  \/ \E t \in Threads : Close(t)
  \/ Revoke

Spec == Init /\ [][Next]_vars

=============================================================================
