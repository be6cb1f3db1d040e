---- MODULE MCTimers ----
EXTENDS Timers

\* Peer ids of one to three bytes, of which the last two count; one list of peers
\* with two that agree in them.
SomePeers == {<<1, 0>>, <<0, 0>>, <<1>>}
SomePeersSettings == {<< <<1, 0>>, <<0, 1>>, <<0, 1, 0>> >>, << <<1>> >>, Absent, Unparsable}
====
