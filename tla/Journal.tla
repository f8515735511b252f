------------------------------ MODULE Journal -------------------------------
(***************************************************************************)
(* What a simulation may rely on when it hands its rows to the reporter:   *)
(* one journal per channel.  Rows are accepted in an order, and stored in  *)
(* that order, all that was accepted so far at a time; a journal that      *)
(* fails keeps a prefix of them and takes no more; and none is closed over *)
(* rows it has not stored, unless it failed.                               *)
(***************************************************************************)
EXTENDS Integers, Sequences

CONSTANT Channels

VARIABLES
    accepted,    \* the rows of each channel, in the order they came
    stored,      \* those that are in its file
    failed,      \* the channels that failed
    closed

vars == <<accepted, stored, failed, closed>>

Prefix(s, t) == Len(s) <= Len(t) /\ \A i \in 1..Len(s) : s[i] = t[i]

Init ==
    /\ accepted = [c \in Channels |-> <<>>]
    /\ stored = [c \in Channels |-> <<>>]
    /\ failed = {}
    /\ closed = FALSE

Usable(c) == ~closed /\ c \notin failed

Accept(c) ==
    /\ Usable(c)
    /\ Prefix(accepted[c], accepted'[c])
    /\ \A d \in Channels \ {c} : accepted'[d] = accepted[d]
    /\ UNCHANGED <<stored, failed, closed>>

Store(c) ==
    /\ Usable(c)
    /\ stored' = [stored EXCEPT ![c] = accepted[c]]
    /\ UNCHANGED <<accepted, failed, closed>>

Fail(c) ==
    /\ Usable(c)
    /\ failed' = failed \cup {c}
    /\ Prefix(stored[c], stored'[c])
    /\ Prefix(stored'[c], accepted[c])
    /\ \A d \in Channels \ {c} : stored'[d] = stored[d]
    /\ UNCHANGED <<accepted, closed>>

Close ==
    /\ ~closed
    /\ \A c \in Channels \ failed : stored[c] = accepted[c]
    /\ closed' = TRUE
    /\ UNCHANGED <<accepted, stored, failed>>

Next == Close \/ \E c \in Channels : Accept(c) \/ Store(c) \/ Fail(c)

Spec == Init /\ [][Next]_vars
=============================================================================
