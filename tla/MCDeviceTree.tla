---------------------------- MODULE MCDeviceTree ----------------------------
(* Model-checking instances of DeviceTree.                                 *)
EXTENDS DeviceTree

M == 1  \* module ident numbers
N == 2
X == 1  \* submodule ident numbers
Y == 2

Mod(m, subs) == [nbr |-> 1, ident |-> m, subs |-> subs]
S(n, ident)  == [nbr |-> n, ident |-> ident]

\* One submodule, a shared pair of which one may be of the wrong kind, the
\* other module, and a block that names a submodule twice.
MainExpectations ==
  { <<Mod(M, <<S(1, X)>>)>>,
    <<Mod(M, <<S(1, X), S(2, X)>>)>>,
    <<Mod(N, <<S(2, Y)>>)>>,
    <<Mod(M, <<S(2, X), S(2, X)>>)>> }
=============================================================================
