----------------------------- MODULE MCAutonomy -----------------------------
EXTENDS Autonomy

\* The gate on two versions of a schedule with one occurrence each, claimed twice;
\* the installed processor on two occurrences of one version, with a crash.
MCWorlds ==
  {[processor |-> "gated", occurrences |-> {<<1, 1>>, <<2, 1>>}, fence |-> 3, crashes |-> 0],
   [processor |-> "unavailable", occurrences |-> {<<1, 1>>, <<1, 2>>}, fence |-> 4,
    crashes |-> 1]}
=============================================================================
