------------------------------- MODULE KVWindow -------------------------------
(***************************************************************************)
(* What a Wan KV pool promises its forwards, whatever its addressing: a    *)
(* window over the most recent tokens, oldest first.  A forward first makes *)
(* room by dropping the oldest tokens, then attends over what is left plus *)
(* its own tokens.  A transient forward (uc = 0) leaves none of its own     *)
(* tokens behind, but the room it made stays made.  A provisional forward  *)
(* (uc = 1) leaves tokens that ClearPred takes away again; a committing    *)
(* one (uc = 2) leaves tokens only age removes.                            *)
(*                                                                         *)
(* A token is known by the stamp of the forward that produced it.          *)
(***************************************************************************)
EXTENDS Integers, Sequences, Ranking

CONSTANTS
  Size,        (* tokens the window can hold                               *)
  TokenCounts, (* tokens one forward may bring                             *)
  MaxForwards  (* bound on the stamps                                      *)

VARIABLES
  window,      (* live tokens, oldest first                                *)
  read,        (* stamps the last forward attended over, oldest first      *)
  clock        (* stamp of the last forward                                *)

windowVars == <<window, read, clock>>

Newest(seq, n) ==
  IF Len(seq) <= n THEN seq ELSE SubSeq(seq, Len(seq) - n + 1, Len(seq))

Tokens(n, uc, stamp) == [i \in 1 .. n |-> [stamp |-> stamp, pred |-> uc = 1]]

Stamps(seq) == [i \in DOMAIN seq |-> seq[i].stamp]

Init ==
  /\ window = <<>>
  /\ read = <<>>
  /\ clock = 0

Forward(n, uc) ==
  LET kept == Newest(window, Size - n)
      own == Tokens(n, uc, clock + 1)
  IN /\ n <= Size
     /\ read' = Stamps(kept \o own)
     /\ window' = IF uc = 0 THEN kept ELSE kept \o own
     /\ clock' = clock + 1

(* A forward too large for the window empties it and fails. *)
Overflow(n) ==
  /\ n > Size
  /\ window' = <<>>
  /\ UNCHANGED <<read, clock>>

ClearPred ==
  /\ LET stays == InOrder({i \in DOMAIN window : ~window[i].pred}, <)
     IN window' = [j \in DOMAIN stays |-> window[stays[j]]]
  /\ UNCHANGED <<read, clock>>

ClearCache ==
  /\ window' = <<>>
  /\ UNCHANGED <<read, clock>>

Next ==
  \/ \E n \in TokenCounts, uc \in 0 .. 2 : Forward(n, uc)
  \/ \E n \in TokenCounts : Overflow(n)
  \/ ClearPred
  \/ ClearCache

Spec == Init /\ [][Next]_windowVars
=============================================================================
