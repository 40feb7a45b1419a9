---------------------------- MODULE SoundService ----------------------------
(***************************************************************************)
(* What the sound link promises to the game's code, without ports and      *)
(* handshakes: a call places one request, the driver carries out the       *)
(* requests one at a time in the order of the calls, and the call returns  *)
(* once its request was carried out.  The requests in Late (play a song,   *)
(* start or stop an effect) may be carried out after the call returned,    *)
(* but never after a later request.                                        *)
(***************************************************************************)
EXTENDS Naturals, Sequences

CONSTANTS Calls, Late, None

VARIABLES
    call,        \* the call in progress, or None
    due,         \* the requests placed and not carried out, oldest first
    performed    \* the request carried out last

serviceVars == <<call, due, performed>>

Init == call = None /\ due = << >> /\ performed = None

Place(c) ==
    /\ call = None
    /\ call' = c /\ due' = Append(due, c)
    /\ UNCHANGED performed

Perform ==
    /\ due # << >>
    /\ performed' = Head(due) /\ due' = Tail(due)
    /\ UNCHANGED call

Return ==
    /\ call # None
    /\ due \in {<< >>} \cup {<<e>> : e \in {call} \cap Late}
    /\ call' = None
    /\ UNCHANGED <<due, performed>>

Next == (\E c \in Calls : Place(c)) \/ Perform \/ Return

Spec == Init /\ [][Next]_serviceVars /\ WF_serviceVars(Perform) /\ WF_serviceVars(Return)
=============================================================================
