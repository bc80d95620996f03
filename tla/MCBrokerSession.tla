-------------------------- MODULE MCBrokerSession --------------------------
(***************************************************************************)
(* Instances of BrokerSession for TLC: one window, or one that starts runs *)
(* beside one that only watches.                                           *)
(***************************************************************************)
EXTENDS BrokerSession

CONSTANTS c1, c2

\* A chunk is in the inbox as a whole when its first message is read: whoever has read an
\* answer acts alone until its call goes on.
ChunksAreWhole == \A c \in Clients : Answered(c) => ReadEvent(c) \/ Continue(c)

WholeSpec == Init /\ [][Next /\ StartNotOvertaken /\ ChunksAreWhole]_vars
=============================================================================
