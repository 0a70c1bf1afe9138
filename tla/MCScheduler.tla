---------------------------- MODULE MCScheduler ----------------------------
(* Instances of Scheduler for TLC.                                         *)
EXTENDS Scheduler

CONSTANTS claude, codex

Both == {claude, codex}
Entry(provider, fallback, catchUp, next) ==
  [provider |-> provider, fallback |-> fallback, enabled |-> TRUE,
   catchUp |-> catchUp, next |-> next]
Setting(provider, fallback, catchUp) ==
  [provider |-> provider, fallback |-> fallback, catchUp |-> catchUp]

(* A nightly task whose fallback is the other provider; the editor swaps   *)
(* the two.                                                                *)
Nightly == Entry(claude, codex, TRUE, 1)
OneTask == {1}
OneTable == 1 :> Nightly
OneStart == {OneTable}
NoClicks == OneTable :> 0

(* It and a second task, due at the same time.                             *)
TwoTasks == {1, 2}
TwoTable == OneTable @@ (2 :> Entry(codex, None, FALSE, 1))
EitherStart == {OneTable, TwoTable}
EitherClicks == (OneTable :> 2) @@ (TwoTable :> 1)

Swapped == {Setting(codex, claude, FALSE)}
CodexNames == {codex}
=============================================================================
