--------------------------- MODULE MCRuntimeControl ---------------------------
(***************************************************************************)
(* Instances of RuntimeControl for TLC: the request bodies clients send.   *)
(***************************************************************************)
EXTENDS RuntimeControl, TLC

Body(name, cfg, apps, ssh, force) ==
  [name |-> name, cfg |-> cfg, apps |-> apps, ssh |-> ssh, force |-> force]

App == <<8080>>
Web == <<8080, 9090>>

First == CHOOSE c \in Configs : TRUE
\* One port, no SSH.
Plain == {Body(NoName, c, App, FALSE, FALSE) : c \in Configs}
\* One port with SSH, in one configuration.
WithSsh == {Body(NoName, First, App, TRUE, FALSE)}
\* One port or two.
Growing == {Body(NoName, c, a, FALSE, FALSE) : c \in Configs, a \in {App, Web}}
\* One port or two, with SSH or without.
Varied == {Body(NoName, c, a, b, FALSE) : c \in Configs, a \in {App, Web}, b \in BOOLEAN}
\* Named or not; and, without a name, port 22 in the place of the other port, with
\* another configuration.
Named == {Body(n, First, App, FALSE, FALSE) : n \in NameOrNone}
         \cup {Body(NoName, c, <<SshPort>>, TRUE, FALSE) : c \in Configs \ {First}}

NoPatch == {}
\* An update that changes the configuration or nothing.
Reconfigure == {[name |-> NoName, cfg |-> c, apps |-> <<>>, force |-> FALSE] : c \in Configs \cup {Keep}}
\* One that changes the configuration and repeats the port.
Restated == {[name |-> NoName, cfg |-> c, apps |-> App, force |-> FALSE] : c \in Configs \ {First}}

AnySandbox == Permutations(Sids) \cup Permutations(Reqs)
Symmetry == Permutations(Reqs)
=============================================================================
