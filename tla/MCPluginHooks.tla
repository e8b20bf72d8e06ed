--------------------------- MODULE MCPluginHooks ---------------------------
(* PluginHooks for TLC: another plugin that hooks a table of the physics *)
(* states, ours or the game's alone, and two threads.                        *)
EXTENDS PluginHooks, TLC

CONSTANT Save  \* an entry of the list of saves

\* No saves, and a null entry before one.
Lists == {<< >>, <<Null, Save>>}

\* No action and no property tells one thread from another.
ThreadSymmetry == Permutations(Threads)
=============================================================================
