------------------------------- MODULE Filter -------------------------------
(***************************************************************************)
(* Sequences without some of their elements.  SelectSeq takes a predicate, *)
(* this takes a set, so that it can be reasoned about.                     *)
(***************************************************************************)
EXTENDS Naturals, Sequences

\* The first i elements of s that are in S, in order.
OnlyUpTo(s, S) ==
    LET f[i \in 0..Len(s)] ==
            IF i = 0 THEN << >>
            ELSE IF s[i] \in S THEN Append(f[i - 1], s[i]) ELSE f[i - 1]
    IN  f

Only(s, S) == OnlyUpTo(s, S)[Len(s)]
=============================================================================
