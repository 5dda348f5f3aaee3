----------------------------- MODULE RemoteCall -----------------------------
(***************************************************************************)
(* What model_generate promises the code that calls it: a call is served   *)
(* at most once, and its caller gets the reply to its own request, or an   *)
(* error once the service is down.                                         *)
(***************************************************************************)
CONSTANTS Id,       \* the calls
          Reply,    \* what the service may answer
          Closed,   \* the error a caller gets when the service is down
          Unset     \* no value yet

VARIABLES called,    \* calls that were made
          reply,     \* what the service answered each call
          returned,  \* what each caller got
          up         \* the service is running

vars == <<called, reply, returned, up>>

Init == /\ called = {} /\ up = TRUE
        /\ reply = [i \in Id |-> Unset] /\ returned = [i \in Id |-> Unset]

Call(i)     == /\ called' = called \cup {i}
               /\ UNCHANGED <<reply, returned, up>>
Serve(i)    == /\ i \in called /\ up /\ reply[i] = Unset
               /\ \E v \in Reply : reply' = [reply EXCEPT ![i] = v]
               /\ UNCHANGED <<called, returned, up>>
Return(i)   == /\ returned[i] = Unset
               /\ \/ reply[i] # Unset /\ returned' = [returned EXCEPT ![i] = reply[i]]
                  \/ ~up /\ returned' = [returned EXCEPT ![i] = Closed]
               /\ UNCHANGED <<called, reply, up>>
Stop        == up' = FALSE /\ UNCHANGED <<called, reply, returned>>

Next == Stop \/ \E i \in Id : Call(i) \/ Serve(i) \/ Return(i)
Spec == Init /\ [][Next]_vars
=============================================================================
