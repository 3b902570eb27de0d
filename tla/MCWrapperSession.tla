-------------------------- MODULE MCWrapperSession --------------------------
(* Instances of WrapperSession for TLC: sessions in one place, recovery    *)
(* run there, in another pid namespace of the host and on another host.    *)
EXTENDS WrapperSession

CONSTANTS h1, h2, n1, n2

Here == <<h1, n1>>
HereOnly == {Here}
Everywhere == {Here, <<h1, n2>>, <<h2, n1>>}
=============================================================================
