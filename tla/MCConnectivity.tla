--------------------------- MODULE MCConnectivity ---------------------------
(* Instance of Connectivity for model checking. *)
EXTENDS Connectivity

MCServers == {11, 12, 13}
MCRelays == {1, 2, 3}

Still == [peers |-> {}, staticServers |-> {}, staticRelays |-> {}, hosts |-> {},
          calm |-> FALSE, moves |-> 0, revokes |-> 0, claims |-> 0, losses |-> 0]

\* Three servers that say anything about one address.
Evidence == [Still EXCEPT !.peers = {11, 12, 13}, !.staticServers = {11, 12, 13},
                          !.hosts = {{"a"}}, !.moves = 1]
\* Servers that answer, a network that moves, a connection that is lost.
Calm == [Still EXCEPT !.peers = {11, 12}, !.staticServers = {11, 12}, !.calm = TRUE,
                      !.hosts = {{"a"}, {}}, !.moves = 3, !.losses = 1]
\* Claimed addresses beside a bound one, a server learned and revoked.
Claims == [Still EXCEPT !.peers = {11}, !.hosts = {{"a"}}, !.moves = 1, !.claims = 2, !.revokes = 1]
\* Relays that accept, fail, never answer and are revoked.
RelaysOnly == [Still EXCEPT !.peers = {1, 2, 3}, !.staticRelays = {1, 2}, !.revokes = 1]
\* Relays under a verdict that comes, and one under a verdict that comes and goes.
Both == [Calm EXCEPT !.peers = {1, 2, 11, 12}, !.staticRelays = {1, 2},
                     !.hosts = {{"a"}}, !.moves = 1, !.losses = 0]
Return == [Calm EXCEPT !.peers = {1, 11, 12}, !.staticRelays = {1}, !.moves = 2, !.losses = 0]
MCScenarios == {Evidence, Calm, Claims, RelaysOnly, Both, Return}
=============================================================================
