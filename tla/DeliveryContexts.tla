-------------------------- MODULE DeliveryContexts ---------------------------
(***************************************************************************)
(* How the bot comes by a delivery context, the branch and the time slot     *)
(* for which the shop is asked about goods (core/mcp_client.py,              *)
(* resolve_delivery_context), and how long it uses one.  A scan, or a press  *)
(* on the stock button, connects a client of its own; all clients of the     *)
(* process share a cache of contexts by address.                             *)
(*                                                                         *)
(* A call of the shop's server is one step here, and takes at most MaxCall;  *)
(* McpClient says how, with the retries it may need.                         *)
(***************************************************************************)
EXTENDS Integers

CONSTANTS
    Clients,    \* names for the clients that can be open at one time
    Addresses,  \* the addresses of the houses
    TTL,        \* _CTX_TTL_SECONDS
    MaxCall,    \* how long a call can take
    Lead,       \* how far ahead a time slot lies at least, when it is asked for
    MaxTime     \* bound: the time that passes

ASSUME TimesAssumption ==
    /\ {MaxCall, Lead, MaxTime} \subseteq Nat
    /\ TTL \in Nat \ {0}

ASSUME AddressesAssumption == Addresses # {}

\* A slot is asked for from "tomorrow" on, at the full hour: it is 23 hours
\* ahead.  A context is cached for ten minutes, a call takes some minutes.
ASSUME LeadAssumption == TTL + MaxCall + MaxCall + MaxCall <= Lead

VARIABLES
    now,     \* time.monotonic()
    cache,   \* _CTX_CACHE
    client   \* the state of a client

ctxVars == <<now, cache, client>>
-----------------------------------------------------------------------------
Time == Nat

\* A context: the address, and when its time slot was asked for.
DeliveryContext == [address : Addresses, asked : Time]

Entry == [stored : Time, ctx : DeliveryContext]

Connecting == {"initialize", "initialized"}
Resolving  == {"find_address", "delivery_types", "time_slots"}
Fetching   == {"first_page", "other_pages"}
Calling    == Connecting \cup Resolving \cup Fetching

Client == [pc      : {"closed", "open"} \cup Calling,
           address : Addresses,
           since   : Time,             \* when its call began
           ctx     : DeliveryContext]  \* what it asks for goods with

Closed == LET a == CHOOSE a \in Addresses : TRUE IN
          [pc |-> "closed", address |-> a, since |-> 0,
           ctx |-> [address |-> a, asked |-> 0]]

CtxTypeOK ==
    /\ now \in Time
    /\ DOMAIN cache \subseteq Addresses
    /\ cache \in [DOMAIN cache -> Entry]
    /\ client \in [Clients -> Client]

CtxInit ==
    /\ now = 0
    /\ cache = <<>>
    /\ client = [c \in Clients |-> Closed]

Fresh(a) == a \in DOMAIN cache /\ now - cache[a].stored < TTL

Put(a, entry) ==
    cache' = [b \in DOMAIN cache \cup {a} |-> IF b = a THEN entry ELSE cache[b]]

\* Client c has its answer and makes the call `pc`, now.
Call(c, pc) == client' = [client EXCEPT ![c].pc = pc, ![c].since = now]
-----------------------------------------------------------------------------
\* A scan begins, or the stock button is pressed: a client connects.
Connect(c) ==
    /\ client[c].pc = "closed"
    /\ Call(c, "initialize")
    /\ UNCHANGED <<now, cache>>

Initialized(c) ==
    /\ client[c].pc = "initialize"
    /\ Call(c, "initialized")
    /\ UNCHANGED <<now, cache>>

Connected(c) ==
    /\ client[c].pc = "initialized"
    /\ client' = [client EXCEPT ![c].pc = "open"]
    /\ UNCHANGED <<now, cache>>

\* Mistake: a context that is used counts as new.
Hit_renews(c, a) ==
    /\ client[c].pc = "open"
    /\ Fresh(a)
    /\ client' = [client EXCEPT ![c] = [pc |-> "first_page", address |-> a,
                                        since |-> now, ctx |-> cache[a].ctx]]
    /\ cache' = [cache EXCEPT ![a].stored = now]
    /\ UNCHANGED now

\* The next address of the scan has a context that is fresh: it is used.
Hit(c, a) ==
    /\ client[c].pc = "open"
    /\ Fresh(a)
    /\ client' = [client EXCEPT ![c] = [pc |-> "first_page", address |-> a,
                                        since |-> now, ctx |-> cache[a].ctx]]
    /\ UNCHANGED <<now, cache>>

\* It has none, or an old one: the address is looked up ...
Miss(c, a) ==
    /\ client[c].pc = "open"
    /\ ~Fresh(a)
    /\ client' = [client EXCEPT ![c].pc = "find_address", ![c].address = a,
                                ![c].since = now]
    /\ UNCHANGED <<now, cache>>

\* ... then the branches that deliver there ...
FoundAddress(c) ==
    /\ client[c].pc = "find_address"
    /\ Call(c, "delivery_types")
    /\ UNCHANGED <<now, cache>>

\* ... and the time slots of the branch.
FoundBranch(c) ==
    /\ client[c].pc = "delivery_types"
    /\ Call(c, "time_slots")
    /\ UNCHANGED <<now, cache>>

\* The context is complete: it is cached, whatever is cached already, and used.
FoundSlot(c) ==
    LET a == client[c].address
        ctx == [address |-> a, asked |-> client[c].since] IN
    /\ client[c].pc = "time_slots"
    /\ Put(a, [stored |-> now, ctx |-> ctx])
    /\ client' = [client EXCEPT ![c].pc = "first_page", ![c].since = now,
                                ![c].ctx = ctx]
    /\ UNCHANGED now

\* The first page says how many more there are; they are asked for together.
GotFirst(c) ==
    /\ client[c].pc = "first_page"
    /\ Call(c, "other_pages")
    /\ UNCHANGED <<now, cache>>

\* All that was asked for is there, or failed: on to the next address.
Done(c) ==
    /\ client[c].pc \in Fetching \cup Resolving
    /\ client' = [client EXCEPT ![c].pc = "open"]
    /\ UNCHANGED <<now, cache>>

\* The client is closed: nothing is left to ask, or an exception ends it.
Close(c) ==
    /\ client[c].pc # "closed"
    /\ client' = [client EXCEPT ![c] = Closed]
    /\ UNCHANGED <<now, cache>>

\* Time passes.  No call takes longer than MaxCall.
CtxTick ==
    /\ now < MaxTime
    /\ \A c \in Clients : client[c].pc \in Calling => now < client[c].since + MaxCall
    /\ now' = now + 1
    /\ UNCHANGED <<cache, client>>

\* The process stops and starts with an empty cache.
Restart ==
    /\ cache' = <<>>
    /\ client' = [c \in Clients |-> Closed]
    /\ UNCHANGED now

CtxStep(c) == \/ Connect(c) \/ Initialized(c) \/ Connected(c)
              \/ \E a \in Addresses : Hit(c, a) \/ Miss(c, a)
              \/ FoundAddress(c) \/ FoundBranch(c) \/ FoundSlot(c) \/ GotFirst(c)
              \/ Done(c) \/ Close(c)

CtxNext == (\E c \in Clients : CtxStep(c)) \/ CtxTick \/ Restart

CtxSpec == CtxInit /\ [][CtxNext]_ctxVars
-----------------------------------------------------------------------------
(* PROPERTIES                                                              *)

\* The shop is asked about goods for a time slot that still lies ahead, and for
\* the address that is served, though the context may be a cached one, another
\* client may have stored it, and the call may be retried (mcp_client.py:203-208).
SlotAhead ==
    \A c \in Clients : client[c].pc \in Fetching =>
        /\ client[c].ctx.address = client[c].address
        /\ now < client[c].ctx.asked + Lead
=============================================================================
