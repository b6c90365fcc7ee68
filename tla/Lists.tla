------------------------------- MODULE Lists -------------------------------
(***************************************************************************)
(* A list filtered in place (std::list::remove) and a loop, as             *)
(* recursive functions that proofs can unfold.                             *)
(***************************************************************************)
EXTENDS Naturals, Sequences

(* The elements of s that are in K, in their order. *)
Kept(s, K) ==
  LET kept[i \in 0..Len(s)] ==
        IF i = 0 THEN << >>
        ELSE IF s[i] \in K THEN Append(kept[i - 1], s[i]) ELSE kept[i - 1]
  IN  kept[Len(s)]

(* What a loop of n rounds makes of p, when round i takes q to body[i][q]. *)
Rounds(p, n, body) ==
  LET after[i \in 0..n] == IF i = 0 THEN p ELSE body[i][after[i - 1]]
  IN  after[n]
=============================================================================
