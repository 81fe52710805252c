----------------------------- MODULE CallNames -----------------------------
(***************************************************************************)
(* The calls and the turns of the call centre, numbered in the order in    *)
(* which they are started and sent.  (The code draws call ids at random;   *)
(* only that they differ matters.)                                         *)
(***************************************************************************)
EXTENDS Integers, Sequences

CONSTANTS
    MaxCalls,      \* bound: calls
    MaxPosts       \* bound: turns, of all calls together

ASSUME NamesAssumption == {MaxCalls, MaxPosts} \subseteq Nat

Calls == 1 .. MaxCalls
Turns == 1 .. MaxPosts
=============================================================================
