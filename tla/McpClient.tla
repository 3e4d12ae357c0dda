----------------------------- MODULE McpClient -------------------------------
(***************************************************************************)
(* The client of the shop's server (core/mcp_client.py): the calls of        *)
(* DeliveryContexts, each with its retries.  `_rpc` sends a request again    *)
(* when it fails, times out or is answered with an error status; call_tool   *)
(* does the same around `_rpc`, and also when the tool reports an error.     *)
(* Both give up after Attempts.                                              *)
(*                                                                         *)
(* A request and the wait before the next one take at most Turn.             *)
(***************************************************************************)
EXTENDS DeliveryContexts

CONSTANTS
    Attempts,  \* stop_after_attempt
    Turn       \* bound: how long a request and the wait after it last

ASSUME AttemptsAssumption == {Attempts, Turn} \subseteq Nat \ {0}

\* All requests of a call, one after the other, take what a call can take.
ASSUME CallAssumption == MaxCall = Attempts * Attempts * Turn

VARIABLE attempt  \* where a client's call is in its retries

vars == <<now, cache, client, attempt>>
-----------------------------------------------------------------------------
Attempt == [outer : 1..Attempts,  \* of call_tool
            inner : 1..Attempts,  \* of _rpc
            since : Time]         \* when the request was sent

TypeOK == CtxTypeOK /\ attempt \in [Clients -> Attempt]

Init ==
    /\ CtxInit
    /\ attempt = [c \in Clients |-> [outer |-> 1, inner |-> 1, since |-> 0]]

InCall(c) == client[c].pc \in Calling

\* A call begins with its first request.  The two calls that connect are made
\* with _rpc alone, which is the last attempt of no call_tool.
First(pc) == [outer |-> IF pc \in Connecting THEN Attempts ELSE 1,
              inner |-> 1, since |-> now]

\* Client c sends a request, now, as this attempt of the two layers.
Send(c, outer, inner) ==
    attempt' = [attempt EXCEPT ![c] = [outer |-> outer, inner |-> inner, since |-> now]]
-----------------------------------------------------------------------------
\* A client goes on, because its call is answered or given up or because it
\* makes the first one: what it does next begins with a first request.
Go(c) ==
    /\ CtxStep(c)
    /\ attempt' = [attempt EXCEPT ![c] = First(client'[c].pc)]

\* Mistake: an attempt of call_tool that fails in _rpc does not count.
RequestFails_forgets(c) ==
    LET a == attempt[c] IN
    /\ InCall(c)
    /\ \/ a.inner < Attempts /\ Send(c, a.outer, a.inner + 1)
       \/ a.inner = Attempts /\ a.outer < Attempts /\ Send(c, a.outer, 1)
    /\ UNCHANGED <<now, cache, client>>

\* Mistake: one attempt more than there are.
RequestFails_once_more(c) ==
    LET a == attempt[c] IN
    /\ InCall(c)
    /\ \/ a.inner < Attempts /\ Send(c, a.outer, a.inner + 1)
       \/ a.inner = Attempts /\ a.outer <= Attempts /\ Send(c, a.outer + 1, 1)
    /\ UNCHANGED <<now, cache, client>>

\* A request fails: _rpc sends it again; when it has given up call_tool begins
\* anew.  After the last attempt of both nothing is left but an exception.
RequestFails(c) ==
    LET a == attempt[c] IN
    /\ InCall(c)
    /\ \/ a.inner < Attempts /\ Send(c, a.outer, a.inner + 1)
       \/ a.inner = Attempts /\ a.outer < Attempts /\ Send(c, a.outer + 1, 1)
    /\ UNCHANGED <<now, cache, client>>

\* The tool reports an error: call_tool begins anew.
ToolError(c) ==
    LET a == attempt[c] IN
    /\ InCall(c) /\ a.outer < Attempts /\ Send(c, a.outer + 1, 1)
    /\ UNCHANGED <<now, cache, client>>

\* Time passes.  No request takes longer than Turn.
Tick ==
    /\ now < MaxTime
    /\ \A c \in Clients : InCall(c) => now < attempt[c].since + Turn
    /\ now' = now + 1
    /\ UNCHANGED <<cache, client, attempt>>

Stop == Restart /\ UNCHANGED attempt

Next == \/ \E c \in Clients : Go(c) \/ RequestFails(c) \/ ToolError(c)
        \/ Tick \/ Stop

Spec == Init /\ [][Next]_vars

\* Every request is answered, or fails when its time is over.
FairSpec ==
    Spec /\ \A c \in Clients :
                WF_vars(InCall(c) /\ (Go(c) \/ RequestFails(c) \/ ToolError(c)))
-----------------------------------------------------------------------------
(* PROPERTIES                                                              *)

\* The retries are bounded, however the two layers of them combine: what other
\* modules see are calls that end within MaxCall (mcp_client.py:129-203).
CallsBounded == CtxSpec

\* Every client comes to the end of its call.
CallsEnd == \A c \in Clients : InCall(c) ~> ~InCall(c)
=============================================================================
