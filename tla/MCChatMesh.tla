----------------------------- MODULE MCChatMesh -----------------------------
(* Topologies and traffic for the runs of ChatMesh.                        *)
EXTENDS ChatMesh

CONSTANTS a, b, c, r, s

Both(L) == L \cup {<<l[2], l[1]>> : l \in L}

(* Two repeaters between a and b, hearing each other. *)
Diamond == Both({<<a, r>>, <<a, s>>, <<r, s>>, <<r, b>>, <<s, b>>})
(* The same, but a does not hear s: the ways there and back differ. *)
OneWay == Diamond \ {<<s, a>>}
(* a and c near one repeater, b behind a second one. *)
Tree == Both({<<a, r>>, <<c, r>>, <<r, s>>, <<s, b>>})
(* A chain of two repeaters. *)
Chain == Both({<<a, r>>, <<r, s>>, <<s, b>>})

TwoRepeaters == {r, s}

OwnHash  == [n \in Nodes |-> n]

Msg(from, to, text) == [from |-> from, to |-> to, text |-> text]
Post(from, text) == [from |-> from, text |-> text]
OneText   == {Msg(a, b, 1)}
TwoTexts  == {Msg(a, b, 1), Msg(a, b, 2)}
OnePost == {Post(a, 3)}
NoPost  == {}
=============================================================================
