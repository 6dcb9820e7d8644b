------------------------------- MODULE Handoff -------------------------------
(***************************************************************************)
(* What the master/worker server promises about connections, without its   *)
(* pipes, mutexes and recycled CONN objects: an accepted socket is handed  *)
(* to one worker, a worker takes the sockets handed to it in the order     *)
(* they were handed, and a socket is served by one worker only, which is   *)
(* also the one that closes it.  A descriptor may be handed out again only *)
(* when nobody holds it any more.                                          *)
(***************************************************************************)
EXTENDS Sequences

CONSTANTS Sfds, Workers

VARIABLES
    inbox,      \* per worker: sockets handed over and not yet served
    serving     \* per worker: sockets in its event loop

vars == <<inbox, serving>>

InInbox(s, w) == \E i \in DOMAIN inbox[w] : inbox[w][i] = s

Held(s) == \E w \in Workers : InInbox(s, w) \/ s \in serving[w]

Init ==
    /\ inbox = [w \in Workers |-> <<>>]
    /\ serving = [w \in Workers |-> {}]

Hand(w, s) ==
    /\ ~Held(s)
    /\ inbox' = [inbox EXCEPT ![w] = Append(@, s)]
    /\ UNCHANGED serving

Serve(w) ==
    /\ inbox[w] # <<>>
    /\ serving' = [serving EXCEPT ![w] = @ \cup {Head(inbox[w])}]
    /\ inbox' = [inbox EXCEPT ![w] = Tail(@)]

\* The oldest socket cannot be set up and is closed unserved.
Refuse(w) ==
    /\ inbox[w] # <<>>
    /\ inbox' = [inbox EXCEPT ![w] = Tail(@)]
    /\ UNCHANGED serving

Close(w, s) ==
    /\ s \in serving[w]
    /\ serving' = [serving EXCEPT ![w] = @ \ {s}]
    /\ UNCHANGED inbox

Next ==
    \E w \in Workers :
        \/ \E s \in Sfds : Hand(w, s) \/ Close(w, s)
        \/ Serve(w)
        \/ Refuse(w)

Spec == Init /\ [][Next]_vars

=============================================================================
