------------------------- MODULE MCBrowserAuthority -------------------------
EXTENDS BrowserAuthority, TLC

\* The whole way of one wallet, from staging to admitted calls; two wallets that
\* prove and sign in; and two users signed in by a verifier whose grants race.
MCWorlds ==
  {[signIn |-> "wallet", users |-> 1, bindings |-> 1, requests |-> 3, challenges |-> 2,
    sessions |-> 2, grants |-> 1, tokens |-> 2, time |-> 2],
   [signIn |-> "wallet", users |-> 1, bindings |-> 2, requests |-> 3, challenges |-> 3,
    sessions |-> 2, grants |-> 0, tokens |-> 0, time |-> 0],
   [signIn |-> "verifier", users |-> 2, bindings |-> 0, requests |-> 1, challenges |-> 0,
    sessions |-> 3, grants |-> 2, tokens |-> 1, time |-> 1]}

Symmetry == Permutations(Users)
=============================================================================
