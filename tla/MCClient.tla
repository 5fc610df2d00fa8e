------------------------------ MODULE MCClient ------------------------------
(***************************************************************************)
(* Values for model checking Client.  A hash is the sequence of the states   *)
(* it stands for.  Two links follow one another, one tells another story,    *)
(* one has another state under the first one's hash, one is unsigned.        *)
(***************************************************************************)
EXTENDS Client

CONSTANTS s0, s1, s2, s3, ann, bob, ann1, ann2, bob1

MCHash(state, prev) == IF prev = None THEN <<state>> ELSE Append(prev, state)

MCLink(state, prev, signed) ==
    [state |-> state, prev |-> prev, hash |-> MCHash(state, prev), signed |-> signed]

Genesis == MCLink(s0, None, TRUE)
First == MCLink(s1, <<s0>>, TRUE)
Second == MCLink(s2, First.hash, TRUE)
Other == MCLink(s3, <<s0>>, TRUE)
Unsigned == MCLink(s2, <<s0>>, FALSE)

MCLinks == {First, Second, Other, Unsigned, [First EXCEPT !.state = s3]}
MCStarts == {Genesis}
HonestLinks == {First, Second, MCLink(s3, Second.hash, TRUE)}

MCStates == {s0, s1, s2, s3}
MCHashes == {l.hash : l \in MCLinks \cup MCStarts \cup HonestLinks}

MCCommands ==
    [c \in Processes |->
        CASE c = ann1 -> {"order"}
          [] c = ann2 -> {"verify"}
          [] c = bob1 -> {"verify"}]

\* One line more than ann has commands, so that her log could hold a copy too many.
MCMaxLines == [p \in Players |-> IF p = ann THEN 3 ELSE 2]

MCOwner == [c \in Processes |-> IF c = bob1 THEN bob ELSE ann]
=============================================================================
