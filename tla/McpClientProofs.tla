--------------------------- MODULE McpClientProofs ---------------------------
(***************************************************************************)
(* For any number of clients, addresses and attempts, and whatever the      *)
(* times are: a request is sent while its time slot lies ahead, and the     *)
(* retries of McpClient end in the time DeliveryContexts allows a call.     *)
(*                                                                         *)
(* The first is proved of DeliveryContexts by following the age of a        *)
(* context: an entry of the cache was complete at most MaxCall after its    *)
(* slot was asked for, it is taken less than TTL later, and the pages take  *)
(* two calls more.                                                          *)
(*                                                                         *)
(* The invariant of the second: a request was sent after no more turns than *)
(* requests of the call went before it.  There are Attempts * Attempts of   *)
(* them, so the last one is over MaxCall after the call began.              *)
(***************************************************************************)
EXTENDS McpClient, TLAPS

(* THE AGE OF A CONTEXT                                                    *)

EntryFits(a) ==
    LET e == cache[a] IN
    /\ e.ctx.address = a
    /\ e.stored <= e.ctx.asked + MaxCall
    /\ e.stored <= now

\* The call of a client has begun and is not over its time ...
InTime(c) ==
    client[c].pc \in Calling =>
        client[c].since <= now /\ now <= client[c].since + MaxCall

\* ... and the context it uses was young enough when the call began.
Young(c) ==
    LET x == client[c] IN
    /\ x.pc \in Fetching => x.ctx.address = x.address
    /\ x.pc = "first_page" => x.since < x.ctx.asked + MaxCall + TTL
    /\ x.pc = "other_pages" => x.since < x.ctx.asked + MaxCall + TTL + MaxCall

CtxInv ==
    /\ CtxTypeOK
    /\ \A a \in DOMAIN cache : EntryFits(a)
    /\ \A c \in Clients : InTime(c) /\ Young(c)

LEMMA ClosedFits == Closed \in Client /\ Closed.pc = "closed"
BY AddressesAssumption DEF Closed, Client, DeliveryContext, Time

LEMMA InitFits == CtxInit => CtxInv
<1> SUFFICES ASSUME CtxInit PROVE CtxInv
    OBVIOUS
<1>1. DOMAIN cache = {}
    BY DEF CtxInit
<1>2. CtxTypeOK
    BY <1>1, ClosedFits DEF CtxInit, CtxTypeOK, Time
<1>3. ASSUME NEW c \in Clients PROVE InTime(c) /\ Young(c)
    BY ClosedFits DEF CtxInit, InTime, Young, Calling, Connecting, Resolving, Fetching
<1> QED BY <1>1, <1>2, <1>3 DEF CtxInv

\* A client that changes alone leaves the others as they fit.
LEMMA OneClient ==
    ASSUME CtxInv, NEW c \in Clients, NEW x \in Client,
           client' = [client EXCEPT ![c] = x], now' = now,
           x.pc \in Calling => x.since <= now /\ now <= x.since + MaxCall,
           x.pc \in Fetching => x.ctx.address = x.address,
           x.pc = "first_page" => x.since < x.ctx.asked + MaxCall + TTL,
           x.pc = "other_pages" => x.since < x.ctx.asked + MaxCall + TTL + MaxCall
    PROVE  /\ client' \in [Clients -> Client]
           /\ \A d \in Clients : InTime(d)' /\ Young(d)'
<1>1. client' \in [Clients -> Client]
    BY DEF CtxInv, CtxTypeOK
<1>2. ASSUME NEW d \in Clients PROVE InTime(d)' /\ Young(d)'
    <2>1. CASE d = c
        <3>1. client'[d] = x
            BY <2>1 DEF CtxInv, CtxTypeOK
        <3> QED BY <3>1 DEF InTime, Young
    <2>2. CASE d # c
        <3>1. client'[d] = client[d]
            BY <2>2 DEF CtxInv, CtxTypeOK
        <3> QED BY <3>1 DEF CtxInv, InTime, Young
    <2> QED BY <2>1, <2>2
<1> QED BY <1>1, <1>2

\* What the invariant says when the cache and the time stay as they are.
LEMMA CacheKept ==
    ASSUME CtxInv, UNCHANGED <<now, cache>>,
           client' \in [Clients -> Client],
           \A d \in Clients : InTime(d)' /\ Young(d)'
    PROVE  CtxInv'
BY DEF CtxInv, CtxTypeOK, EntryFits

\* A call that begins now, for no goods, fits whatever the context is.
LEMMA CallFits ==
    ASSUME CtxInv, NEW c \in Clients, NEW a \in Addresses,
           NEW pc \in Connecting \cup Resolving,
           client' = [client EXCEPT ![c] = [client[c] EXCEPT !.pc = pc, !.address = a,
                                                             !.since = now]],
           UNCHANGED <<now, cache>>
    PROVE  CtxInv'
<1> DEFINE x == [client[c] EXCEPT !.pc = pc, !.address = a, !.since = now]
<1>1. /\ x \in Client /\ x.pc = pc /\ x.since = now
      /\ now \in Nat /\ MaxCall \in Nat
    BY TimesAssumption DEF CtxInv, CtxTypeOK, Client, Calling, Time
<1>2. pc \notin Fetching /\ pc # "first_page" /\ pc # "other_pages"
    BY DEF Connecting, Resolving, Fetching
<1>3. client' = [client EXCEPT ![c] = x]
    OBVIOUS
<1> HIDE DEF x
<1>4. /\ x.pc \in Calling => x.since <= now /\ now <= x.since + MaxCall
      /\ x.pc \in Fetching => x.ctx.address = x.address
      /\ x.pc = "first_page" => x.since < x.ctx.asked + MaxCall + TTL
      /\ x.pc = "other_pages" => x.since < x.ctx.asked + MaxCall + TTL + MaxCall
    BY <1>1, <1>2
<1>5. /\ client' \in [Clients -> Client]
      /\ \A d \in Clients : InTime(d)' /\ Young(d)'
    BY <1>1, <1>3, <1>4, OneClient
<1> QED BY <1>5, CacheKept

\* A client that is not calling fits.
LEMMA IdleFits ==
    ASSUME CtxInv, NEW c \in Clients, NEW x \in Client,
           x.pc \in {"closed", "open"},
           client' = [client EXCEPT ![c] = x],
           UNCHANGED <<now, cache>>
    PROVE  CtxInv'
<1>1. x.pc \notin Calling /\ x.pc \notin Fetching
    BY DEF Calling, Connecting, Resolving, Fetching
<1>2. x.pc # "first_page" /\ x.pc # "other_pages"
    OBVIOUS
<1> QED BY <1>1, <1>2, OneClient, CacheKept

LEMMA HitFits ==
    ASSUME CtxInv, NEW c \in Clients, NEW a \in Addresses, Hit(c, a)
    PROVE  CtxInv'
<1> DEFINE x == [pc |-> "first_page", address |-> a, since |-> now, ctx |-> cache[a].ctx]
<1>1. a \in DOMAIN cache /\ now - cache[a].stored < TTL
    BY DEF Hit, Fresh
<1>2. /\ cache[a] \in Entry /\ cache[a].ctx \in DeliveryContext
      /\ cache[a].ctx.asked \in Nat /\ cache[a].stored \in Nat
      /\ now \in Nat /\ MaxCall \in Nat /\ TTL \in Nat
    BY <1>1, TimesAssumption DEF CtxInv, CtxTypeOK, Entry, DeliveryContext, Time
<1>3. x \in Client /\ x.pc = "first_page" /\ x.since = now /\ x.address = a /\ x.ctx = cache[a].ctx
    BY <1>2 DEF Client, Calling, Fetching, Time
<1>4. cache[a].ctx.address = a /\ cache[a].stored <= cache[a].ctx.asked + MaxCall
    BY <1>1 DEF CtxInv, EntryFits
<1>5. now < cache[a].ctx.asked + MaxCall + TTL /\ now <= now + MaxCall
    BY <1>1, <1>2, <1>4
<1>6. client' = [client EXCEPT ![c] = x] /\ UNCHANGED <<now, cache>>
    BY DEF Hit
<1> HIDE DEF x
<1>7. /\ x.pc \in Calling => x.since <= now /\ now <= x.since + MaxCall
      /\ x.pc \in Fetching => x.ctx.address = x.address
      /\ x.pc = "first_page" => x.since < x.ctx.asked + MaxCall + TTL
      /\ x.pc = "other_pages" => x.since < x.ctx.asked + MaxCall + TTL + MaxCall
    BY <1>2, <1>3, <1>4, <1>5
<1>8. /\ client' \in [Clients -> Client]
      /\ \A d \in Clients : InTime(d)' /\ Young(d)'
    BY <1>3, <1>6, <1>7, OneClient
<1> QED BY <1>6, <1>8, CacheKept

LEMMA FoundSlotFits ==
    ASSUME CtxInv, NEW c \in Clients, FoundSlot(c)
    PROVE  CtxInv'
<1> DEFINE a == client[c].address
           ctx == [address |-> a, asked |-> client[c].since]
           entry == [stored |-> now, ctx |-> ctx]
           x == [client[c] EXCEPT !.pc = "first_page", !.since = now, !.ctx = ctx]
<1>1. /\ client[c] \in Client /\ a \in Addresses /\ client[c].since \in Nat
      /\ now \in Nat /\ MaxCall \in Nat /\ TTL \in Nat \ {0}
    BY TimesAssumption DEF CtxInv, CtxTypeOK, Client, Time
<1>2. ctx \in DeliveryContext /\ entry \in Entry
    BY <1>1 DEF DeliveryContext, Entry, Time
<1>3. x \in Client /\ x.pc = "first_page" /\ x.since = now /\ x.ctx = ctx /\ x.address = a
    BY <1>1, <1>2 DEF Client, Calling, Fetching, Time
<1>4. client[c].since <= now /\ now <= client[c].since + MaxCall
    BY DEF FoundSlot, CtxInv, InTime, Calling, Resolving
<1>5. now < ctx.asked + MaxCall + TTL /\ now <= now + MaxCall
    BY <1>1, <1>4
<1>6. /\ client' = [client EXCEPT ![c] = x]
      /\ cache' = [b \in DOMAIN cache \cup {a} |-> IF b = a THEN entry ELSE cache[b]]
      /\ now' = now
    BY DEF FoundSlot, Put
<1>7. /\ client' \in [Clients -> Client]
      /\ \A d \in Clients : InTime(d)' /\ Young(d)'
    <2>1. ctx.address = a
        OBVIOUS
    <2> HIDE DEF x, ctx
    <2>2. /\ x.pc \in Calling => x.since <= now /\ now <= x.since + MaxCall
          /\ x.pc \in Fetching => x.ctx.address = x.address
          /\ x.pc = "first_page" => x.since < x.ctx.asked + MaxCall + TTL
          /\ x.pc = "other_pages" => x.since < x.ctx.asked + MaxCall + TTL + MaxCall
        BY <1>1, <1>2, <1>3, <1>5, <2>1 DEF DeliveryContext
    <2> QED BY <1>3, <1>6, <2>2, OneClient
<1>8. CtxTypeOK'
    BY <1>1, <1>2, <1>6, <1>7 DEF CtxInv, CtxTypeOK
<1>9. ASSUME NEW b \in DOMAIN cache' PROVE EntryFits(b)'
    <2>1. CASE b = a
        BY <2>1, <1>1, <1>4, <1>6 DEF EntryFits
    <2>2. CASE b # a
        BY <2>2, <1>6 DEF CtxInv, EntryFits
    <2> QED BY <2>1, <2>2
<1> QED BY <1>7, <1>8, <1>9 DEF CtxInv

\* The next page is one call later.
LEMMA GotFirstFits ==
    ASSUME CtxInv, NEW c \in Clients, GotFirst(c)
    PROVE  CtxInv'
<1> DEFINE x == [client[c] EXCEPT !.pc = "other_pages", !.since = now]
<1>1. /\ client[c] \in Client /\ client[c].since \in Nat /\ client[c].ctx.asked \in Nat
      /\ now \in Nat /\ MaxCall \in Nat /\ TTL \in Nat
    BY TimesAssumption DEF CtxInv, CtxTypeOK, Client, DeliveryContext, Time
<1>2. /\ x \in Client /\ x.pc = "other_pages" /\ x.since = now
      /\ x.ctx = client[c].ctx /\ x.address = client[c].address
    BY <1>1 DEF Client, Calling, Fetching, Time
<1>3. /\ now <= client[c].since + MaxCall
      /\ client[c].since < client[c].ctx.asked + MaxCall + TTL
      /\ client[c].ctx.address = client[c].address
    BY DEF GotFirst, CtxInv, InTime, Young, Calling, Fetching
<1>4. now < client[c].ctx.asked + MaxCall + TTL + MaxCall /\ now <= now + MaxCall
    BY <1>1, <1>3
<1>5. client' = [client EXCEPT ![c] = x] /\ UNCHANGED <<now, cache>>
    BY DEF GotFirst, Call
<1> HIDE DEF x
<1>6. /\ x.pc \in Calling => x.since <= now /\ now <= x.since + MaxCall
      /\ x.pc \in Fetching => x.ctx.address = x.address
      /\ x.pc = "first_page" => x.since < x.ctx.asked + MaxCall + TTL
      /\ x.pc = "other_pages" => x.since < x.ctx.asked + MaxCall + TTL + MaxCall
    BY <1>1, <1>2, <1>3, <1>4
<1>7. /\ client' \in [Clients -> Client]
      /\ \A d \in Clients : InTime(d)' /\ Young(d)'
    BY <1>2, <1>5, <1>6, OneClient
<1> QED BY <1>5, <1>7, CacheKept

LEMMA StepFits ==
    ASSUME CtxInv, NEW c \in Clients, CtxStep(c)
    PROVE  CtxInv'
<1>0. client[c] \in Client /\ client[c].address \in Addresses
    BY DEF CtxInv, CtxTypeOK, Client
<1>1. ASSUME NEW pc \in Connecting \cup Resolving, Call(c, pc), UNCHANGED <<now, cache>>
      PROVE  CtxInv'
    <2>1. client' = [client EXCEPT ![c] = [client[c] EXCEPT !.pc = pc,
                              !.address = client[c].address, !.since = now]]
        BY <1>0, <1>1 DEF Call, Client
    <2> QED BY <1>0, <1>1, <2>1, CallFits
<1>2. CASE Connect(c)
    BY <1>1, <1>2 DEF Connect, Connecting
<1>3. CASE Initialized(c)
    BY <1>1, <1>3 DEF Initialized, Connecting
<1>4. CASE FoundAddress(c)
    BY <1>1, <1>4 DEF FoundAddress, Resolving
<1>5. CASE FoundBranch(c)
    BY <1>1, <1>5 DEF FoundBranch, Resolving
<1>6. CASE Connected(c) \/ Done(c)
    <2>1. [client[c] EXCEPT !.pc = "open"] \in Client
        BY <1>0 DEF Client
    <2>2. [client[c] EXCEPT !.pc = "open"].pc \in {"closed", "open"}
        BY <1>0 DEF Client
    <2>3. client' = [client EXCEPT ![c] = [client[c] EXCEPT !.pc = "open"]]
        BY <1>6 DEF Connected, Done
    <2>4. UNCHANGED <<now, cache>>
        BY <1>6 DEF Connected, Done
    <2> QED BY <2>1, <2>2, <2>3, <2>4, IdleFits
<1>7. CASE Close(c)
    BY <1>7, ClosedFits, IdleFits DEF Close
<1>8. ASSUME NEW a \in Addresses, Miss(c, a) PROVE CtxInv'
    <2>1. client' = [client EXCEPT ![c] = [client[c] EXCEPT !.pc = "find_address",
                                                  !.address = a, !.since = now]]
        BY <1>8 DEF Miss
    <2> QED BY <1>8, <2>1, CallFits DEF Miss, Resolving
<1> QED BY <1>2, <1>3, <1>4, <1>5, <1>6, <1>7, <1>8, HitFits, FoundSlotFits, GotFirstFits
        DEF CtxStep

LEMMA TickFits == CtxInv /\ CtxTick => CtxInv'
<1> SUFFICES ASSUME CtxInv, CtxTick PROVE CtxInv'
    OBVIOUS
<1>1. now \in Nat /\ now' = now + 1 /\ cache' = cache /\ client' = client
    BY DEF CtxInv, CtxTypeOK, CtxTick, Time
<1>2. CtxTypeOK'
    BY <1>1 DEF CtxInv, CtxTypeOK, Time
<1>3. ASSUME NEW a \in DOMAIN cache' PROVE EntryFits(a)'
    <2>1. cache[a].stored \in Nat
        BY <1>1, <1>3 DEF CtxInv, CtxTypeOK, Entry, Time
    <2>2. EntryFits(a)
        BY <1>1, <1>3 DEF CtxInv
    <2> QED BY <1>1, <2>1, <2>2 DEF EntryFits
<1>4. ASSUME NEW c \in Clients PROVE InTime(c)' /\ Young(c)'
    <2>1. client[c].since \in Nat /\ MaxCall \in Nat
        BY TimesAssumption DEF CtxInv, CtxTypeOK, Client, Time
    <2>2. InTime(c) /\ Young(c)
        BY DEF CtxInv
    <2>3. client[c].pc \in Calling => now < client[c].since + MaxCall
        BY DEF CtxTick
    <2>4. InTime(c)'
        BY <1>1, <2>1, <2>2, <2>3 DEF InTime
    <2>5. Young(c)'
        BY <1>1, <2>2 DEF Young
    <2> QED BY <2>4, <2>5
<1> QED BY <1>2, <1>3, <1>4 DEF CtxInv

LEMMA RestartFits == CtxInv /\ Restart => CtxInv'
<1> SUFFICES ASSUME CtxInv, Restart PROVE CtxInv'
    OBVIOUS
<1>1. cache' = <<>> /\ DOMAIN cache' = {} /\ now' = now
    BY DEF Restart
<1>2. client' \in [Clients -> Client] /\ \A c \in Clients : client'[c].pc = "closed"
    BY ClosedFits DEF Restart
<1>3. CtxTypeOK'
    BY <1>1, <1>2 DEF CtxInv, CtxTypeOK
<1>4. ASSUME NEW c \in Clients PROVE InTime(c)' /\ Young(c)'
    BY <1>2 DEF InTime, Young, Calling, Connecting, Resolving, Fetching
<1> QED BY <1>1, <1>3, <1>4 DEF CtxInv

\* The invariant holds in every step, whoever takes it.
LEMMA Inductive == CtxInv /\ [CtxNext]_ctxVars => CtxInv'
<1> SUFFICES ASSUME CtxInv, [CtxNext]_ctxVars PROVE CtxInv'
    OBVIOUS
<1>1. CASE \E c \in Clients : CtxStep(c)
    BY <1>1, StepFits
<1>2. CASE UNCHANGED ctxVars
    BY <1>2 DEF ctxVars, CtxInv, CtxTypeOK, EntryFits, InTime, Young
<1> QED BY <1>1, <1>2, TickFits, RestartFits DEF CtxNext

LEMMA InvariantAhead == CtxInv => SlotAhead
<1> SUFFICES ASSUME CtxInv, NEW c \in Clients, client[c].pc \in Fetching
             PROVE  /\ client[c].ctx.address = client[c].address
                    /\ now < client[c].ctx.asked + Lead
    BY DEF SlotAhead
<1>1. /\ now \in Nat /\ client[c].since \in Nat /\ client[c].ctx.asked \in Nat
      /\ MaxCall \in Nat /\ Lead \in Nat /\ TTL \in Nat
    BY TimesAssumption DEF CtxInv, CtxTypeOK, Client, DeliveryContext, Time
<1>2. now <= client[c].since + MaxCall /\ Young(c)
    BY DEF CtxInv, InTime, Calling
<1>3. client[c].since < client[c].ctx.asked + MaxCall + TTL + MaxCall
    <2>1. CASE client[c].pc = "first_page"
        BY <2>1, <1>1, <1>2 DEF Young
    <2>2. CASE client[c].pc = "other_pages"
        BY <2>2, <1>2 DEF Young
    <2> QED BY <2>1, <2>2 DEF Fetching
<1>4. now < client[c].ctx.asked + Lead
    BY <1>1, <1>2, <1>3, LeadAssumption
<1> QED BY <1>2, <1>4 DEF Young

\* The goods are asked for with a time slot that still lies ahead, and for the
\* address that is served, whatever the cache holds (mcp_client.py:203-208).
THEOREM ContextsFit == CtxSpec => []SlotAhead
<1>1. CtxSpec => []CtxInv
    BY InitFits, Inductive, PTL DEF CtxSpec
<1> QED BY <1>1, InvariantAhead, PTL
-----------------------------------------------------------------------------
(* THE RETRIES                                                             *)

\* The requests of the call that went before.
Used(a) == (a.outer - 1) * Attempts + (a.inner - 1)

Counted(c) ==
    client[c].pc \in Calling =>
        /\ attempt[c].since <= now
        /\ now <= attempt[c].since + Turn
        /\ attempt[c].since <= client[c].since + Used(attempt[c]) * Turn

IInv == TypeOK /\ \A c \in Clients : Counted(c)
-----------------------------------------------------------------------------
LEMMA Monotone ==
    ASSUME NEW m \in Nat, NEW n \in Nat, NEW k \in Nat, m <= n
    PROVE  m * k <= n * k
<1>1. PICK d \in Nat : n = m + d
    <2>1. n - m \in Nat /\ n = m + (n - m)
        OBVIOUS
    <2> QED BY <2>1
<1>2. d * k \in Nat
    OBVIOUS
<1>3. n * k = m * k + d * k
    BY <1>1
<1>4. m * k \in Nat
    OBVIOUS
<1> QED BY <1>2, <1>3, <1>4

\* There is room for the request itself.
LEMMA UsedFits ==
    ASSUME NEW a \in Attempt
    PROVE  /\ Used(a) \in Nat
           /\ Used(a) + 1 <= Attempts * Attempts
           /\ Used(a) + 1 <= a.outer * Attempts
           /\ a.outer * Attempts \in Nat
<1>1. /\ a.outer \in 1..Attempts /\ a.inner \in 1..Attempts /\ Attempts \in Nat
    BY AttemptsAssumption DEF Attempt
<1>2. a.outer \in Nat /\ a.outer - 1 \in Nat /\ a.inner - 1 \in Nat
    BY <1>1
<1>3. (a.outer - 1) * Attempts \in Nat /\ a.outer * Attempts \in Nat
    BY <1>1, <1>2
<1>4. (a.outer - 1) * Attempts + Attempts = a.outer * Attempts
    BY <1>1, <1>2
<1>5. a.outer * Attempts <= Attempts * Attempts
    BY <1>1, <1>2, Monotone
<1>6. Attempts * Attempts \in Nat
    BY <1>1
<1>7. Used(a) \in Nat /\ Used(a) + 1 <= a.outer * Attempts
    BY <1>1, <1>2, <1>3, <1>4 DEF Used
<1> QED BY <1>3, <1>5, <1>6, <1>7

LEMMA FirstFits ==
    ASSUME NEW pc, now \in Nat
    PROVE  First(pc) \in Attempt /\ First(pc).since = now
BY AttemptsAssumption DEF First, Attempt, Time

LEMMA InitCounted == Init => IInv
<1> SUFFICES ASSUME Init PROVE IInv
    OBVIOUS
<1>1. CtxTypeOK
    BY InitFits DEF Init, CtxInv
<1>2. attempt \in [Clients -> Attempt]
    BY AttemptsAssumption DEF Init, Attempt, Time
<1>3. ASSUME NEW c \in Clients PROVE Counted(c)
    BY ClosedFits DEF Init, CtxInit, Counted, Calling, Connecting, Resolving, Fetching
<1> QED BY <1>1, <1>2, <1>3 DEF IInv, TypeOK

\* What a client does next begins now; the others are not touched.
LEMMA StepBegins ==
    ASSUME CtxTypeOK, NEW c \in Clients, CtxStep(c)
    PROVE  /\ now' = now
           /\ \A d \in Clients : d # c => client'[d] = client[d]
           /\ client'[c].pc \in Calling => client'[c].since = now
<1> USE DEF CtxTypeOK, Client
<1>1. ASSUME NEW pc, Call(c, pc)
      PROVE  /\ \A d \in Clients : d # c => client'[d] = client[d]
             /\ client'[c].since = now
    BY <1>1 DEF Call
<1>2. CASE Connect(c) \/ Initialized(c) \/ FoundAddress(c) \/ FoundBranch(c) \/ GotFirst(c)
    BY <1>1, <1>2 DEF Connect, Initialized, FoundAddress, FoundBranch, GotFirst
<1>3. CASE Connected(c) \/ Done(c)
    <2>1. client'[c].pc = "open"
        BY <1>3 DEF Connected, Done
    <2> QED BY <1>3, <2>1 DEF Connected, Done, Calling, Connecting, Resolving, Fetching
<1>4. CASE Close(c)
    BY <1>4, ClosedFits DEF Close, Calling, Connecting, Resolving, Fetching
<1>5. CASE \E a \in Addresses : Hit(c, a) \/ Miss(c, a)
    BY <1>5 DEF Hit, Miss
<1>6. CASE FoundSlot(c)
    BY <1>6 DEF FoundSlot
<1> QED BY <1>2, <1>3, <1>4, <1>5, <1>6 DEF CtxStep

LEMMA GoCounted ==
    ASSUME IInv, CtxTypeOK', NEW c \in Clients, Go(c)
    PROVE  IInv'
<1>1. now \in Nat /\ Turn \in Nat /\ attempt \in [Clients -> Attempt] /\ CtxTypeOK
    BY AttemptsAssumption DEF IInv, TypeOK, CtxTypeOK, Time
<1>2. /\ now' = now
      /\ \A d \in Clients : d # c => client'[d] = client[d]
      /\ client'[c].pc \in Calling => client'[c].since = now
    BY <1>1, StepBegins DEF Go
<1>3. First(client'[c].pc) \in Attempt /\ First(client'[c].pc).since = now
    BY <1>1, FirstFits
<1>4. attempt' = [attempt EXCEPT ![c] = First(client'[c].pc)]
    BY DEF Go
<1>5. attempt' \in [Clients -> Attempt]
    BY <1>1, <1>3, <1>4
<1>6. ASSUME NEW d \in Clients PROVE Counted(d)'
    <2>1. CASE d # c
        <3>1. attempt'[d] = attempt[d] /\ client'[d] = client[d]
            BY <1>1, <1>2, <1>4, <2>1
        <3>2. Counted(d)
            BY DEF IInv
        <3> QED BY <1>2, <3>1, <3>2 DEF Counted, Used
    <2>2. CASE d = c
        <3>1. attempt'[d] \in Attempt /\ attempt'[d].since = now
            BY <1>1, <1>3, <1>4, <2>2
        <3>2. Used(attempt'[d]) * Turn \in Nat
            BY <1>1, <3>1, UsedFits
        <3>3. SUFFICES ASSUME client'[d].pc \in Calling
                       PROVE  /\ attempt'[d].since <= now'
                              /\ now' <= attempt'[d].since + Turn
                              /\ attempt'[d].since <= client'[d].since + Used(attempt'[d]) * Turn
            BY DEF Counted, Used
        <3>4. client'[d].since = now
            BY <1>2, <2>2, <3>3
        <3> QED BY <1>1, <1>2, <3>1, <3>2, <3>4
    <2> QED BY <2>1, <2>2
<1> QED BY <1>5, <1>6 DEF IInv, TypeOK

\* One request more: it is sent within a turn of the one before.
LEMMA RetryCounted ==
    ASSUME IInv, NEW c \in Clients, NEW a \in Attempt,
           client[c].pc \in Calling,
           a.since = now, Used(attempt[c]) + 1 <= Used(a),
           attempt' = [attempt EXCEPT ![c] = a],
           UNCHANGED <<now, cache, client>>
    PROVE  IInv'
<1>1. /\ now \in Nat /\ Turn \in Nat
      /\ attempt \in [Clients -> Attempt] /\ attempt[c] \in Attempt
      /\ attempt[c].since \in Nat /\ client[c].since \in Nat
    BY AttemptsAssumption DEF IInv, TypeOK, CtxTypeOK, Attempt, Client, Time
<1>2. attempt' \in [Clients -> Attempt] /\ attempt'[c] = a
    BY <1>1
<1>3. CtxTypeOK'
    BY DEF IInv, TypeOK, CtxTypeOK
<1>4. ASSUME NEW d \in Clients, d # c PROVE Counted(d)'
    <2>1. attempt'[d] = attempt[d] /\ client'[d] = client[d] /\ now' = now
        BY <1>1, <1>4
    <2>2. Counted(d)
        BY DEF IInv
    <2> QED BY <2>1, <2>2 DEF Counted, Used
<1>5. Counted(c)'
    <2>1. /\ now <= attempt[c].since + Turn
          /\ attempt[c].since <= client[c].since + Used(attempt[c]) * Turn
        BY DEF IInv, Counted
    <2>2. Used(a) \in Nat /\ Used(attempt[c]) \in Nat
        BY <1>1, UsedFits
    <2>3. (Used(attempt[c]) + 1) * Turn <= Used(a) * Turn
        BY <1>1, <2>2, Monotone
    <2>4. /\ Used(attempt[c]) * Turn \in Nat /\ Used(a) * Turn \in Nat
          /\ (Used(attempt[c]) + 1) * Turn = Used(attempt[c]) * Turn + Turn
        BY <1>1, <2>2
    <2>5. now <= client[c].since + Used(a) * Turn
        BY <1>1, <2>1, <2>3, <2>4
    <2>6. SUFFICES /\ a.since <= now
                   /\ now <= a.since + Turn
                   /\ a.since <= client[c].since + Used(a) * Turn
        BY <1>2 DEF Counted, Used
    <2> QED BY <1>1, <2>5
<1> QED BY <1>2, <1>3, <1>4, <1>5 DEF IInv, TypeOK

LEMMA BeginsAnew ==
    ASSUME IInv, NEW c \in Clients, client[c].pc \in Calling,
           attempt[c].outer < Attempts,
           Send(c, attempt[c].outer + 1, 1),
           UNCHANGED <<now, cache, client>>
    PROVE  IInv'
<1> DEFINE a == [outer |-> attempt[c].outer + 1, inner |-> 1, since |-> now]
<1>1. attempt[c] \in Attempt /\ now \in Nat /\ Attempts \in Nat \ {0}
    BY AttemptsAssumption DEF IInv, TypeOK, CtxTypeOK, Time
<1>2. a \in Attempt
    BY <1>1 DEF Attempt, Time
<1>3. attempt[c].outer \in Nat /\ attempt[c].outer * Attempts \in Nat
    BY <1>1, UsedFits DEF Attempt
<1>4. Used(a) = attempt[c].outer * Attempts
    BY <1>1, <1>3 DEF Used
<1>5. Used(attempt[c]) + 1 <= Used(a)
    BY <1>1, <1>4, UsedFits
<1>6. a.since = now
    OBVIOUS
<1>7. attempt' = [attempt EXCEPT ![c] = a]
    BY DEF Send
<1> HIDE DEF a
<1> QED BY <1>2, <1>5, <1>6, <1>7, RetryCounted

\* A request is sent again by _rpc.
LEMMA SentAgain ==
    ASSUME IInv, NEW c \in Clients, client[c].pc \in Calling,
           attempt[c].inner < Attempts,
           Send(c, attempt[c].outer, attempt[c].inner + 1),
           UNCHANGED <<now, cache, client>>
    PROVE  IInv'
<1> DEFINE a == [outer |-> attempt[c].outer, inner |-> attempt[c].inner + 1, since |-> now]
<1>1. attempt[c] \in Attempt /\ now \in Nat /\ Attempts \in Nat \ {0}
    BY AttemptsAssumption DEF IInv, TypeOK, CtxTypeOK, Time
<1>2. a \in Attempt
    BY <1>1 DEF Attempt, Time
<1>3. attempt[c].inner \in Nat /\ (attempt[c].outer - 1) * Attempts \in Int
    BY <1>1 DEF Attempt
<1>4. Used(attempt[c]) + 1 <= Used(a)
    BY <1>3 DEF Used
<1>5. a.since = now
    OBVIOUS
<1>6. attempt' = [attempt EXCEPT ![c] = a]
    BY DEF Send
<1> HIDE DEF a
<1> QED BY <1>2, <1>4, <1>5, <1>6, RetryCounted

LEMMA RequestFailsCounted ==
    ASSUME IInv, NEW c \in Clients, RequestFails(c)
    PROVE  IInv'
<1>1. client[c].pc \in Calling /\ UNCHANGED <<now, cache, client>>
    BY DEF RequestFails, InCall
<1>2. \/ attempt[c].inner < Attempts /\ Send(c, attempt[c].outer, attempt[c].inner + 1)
      \/ attempt[c].outer < Attempts /\ Send(c, attempt[c].outer + 1, 1)
    BY DEF RequestFails
<1> QED BY <1>1, <1>2, SentAgain, BeginsAnew

\* A tick leaves a call within what the requests up to this one may take.
LEMMA TickCounted ==
    ASSUME IInv, Tick
    PROVE  CtxTick /\ IInv'
<1>1. /\ now \in Nat /\ now' = now + 1 /\ Turn \in Nat /\ now < MaxTime
      /\ UNCHANGED <<cache, client, attempt>>
    BY AttemptsAssumption DEF Tick, IInv, TypeOK, CtxTypeOK, Time
<1>2. ASSUME NEW c \in Clients, client[c].pc \in Calling
      PROVE  /\ now < attempt[c].since + Turn
             /\ now < client[c].since + MaxCall
    <2>1. /\ attempt[c] \in Attempt /\ attempt[c].since \in Nat /\ client[c].since \in Nat
        BY DEF IInv, TypeOK, CtxTypeOK, Attempt, Client, Time
    <2>2. /\ now < attempt[c].since + Turn
          /\ attempt[c].since <= client[c].since + Used(attempt[c]) * Turn
        BY <1>2 DEF Tick, InCall, IInv, Counted
    <2>3. /\ Used(attempt[c]) \in Nat /\ Used(attempt[c]) + 1 <= Attempts * Attempts
          /\ Attempts * Attempts \in Nat
        BY <2>1, UsedFits, AttemptsAssumption
    <2>4. (Used(attempt[c]) + 1) * Turn <= Attempts * Attempts * Turn
        BY <1>1, <2>3, Monotone
    <2>5. /\ Used(attempt[c]) * Turn \in Nat
          /\ (Used(attempt[c]) + 1) * Turn = Used(attempt[c]) * Turn + Turn
        BY <1>1, <2>3
    <2>6. MaxCall = Attempts * Attempts * Turn /\ MaxCall \in Nat
        BY CallAssumption, TimesAssumption
    <2> QED BY <1>1, <2>1, <2>2, <2>4, <2>5, <2>6
<1>3. CtxTick
    BY <1>1, <1>2 DEF CtxTick
<1>4. TypeOK'
    BY <1>1 DEF IInv, TypeOK, CtxTypeOK, Time
<1>5. ASSUME NEW c \in Clients PROVE Counted(c)'
    <2>1. Counted(c) /\ attempt[c].since \in Nat
        BY DEF IInv, TypeOK, Attempt, Time
    <2>2. client[c].pc \in Calling => now < attempt[c].since + Turn
        BY <1>2
    <2> QED BY <1>1, <2>1, <2>2 DEF Counted, Used
<1> QED BY <1>3, <1>4, <1>5 DEF IInv

LEMMA CtxTypePreserved == CtxInv /\ [CtxNext]_ctxVars => CtxTypeOK'
BY Inductive DEF CtxInv

\* A step keeps both invariants, and is one of DeliveryContexts or leaves its
\* variables alone.
LEMMA StepCounted ==
    ASSUME IInv, CtxInv, [Next]_vars
    PROVE  IInv' /\ [CtxNext]_ctxVars
<1>1. ASSUME NEW c \in Clients, Go(c) PROVE IInv' /\ CtxNext
    <2>1. CtxNext
        BY <1>1 DEF Go, CtxNext
    <2>2. CtxTypeOK'
        BY <2>1, CtxTypePreserved
    <2> QED BY <1>1, <2>1, <2>2, GoCounted
<1>2. ASSUME NEW c \in Clients, RequestFails(c) PROVE IInv' /\ UNCHANGED ctxVars
    <2>1. UNCHANGED ctxVars
        BY <1>2 DEF RequestFails, ctxVars
    <2> QED BY <1>2, <2>1, RequestFailsCounted
<1>3. ASSUME NEW c \in Clients, ToolError(c) PROVE IInv' /\ UNCHANGED ctxVars
    <2>1. UNCHANGED ctxVars
        BY <1>3 DEF ToolError, ctxVars
    <2> QED BY <1>3, <2>1, BeginsAnew DEF ToolError, InCall
<1>4. CASE Tick
    BY <1>4, TickCounted DEF CtxNext
<1>5. CASE Stop
    <2>1. Restart /\ attempt' = attempt
        BY <1>5 DEF Stop
    <2>2. CtxNext /\ CtxTypeOK'
        BY <2>1, CtxTypePreserved DEF CtxNext
    <2>3. ASSUME NEW c \in Clients PROVE Counted(c)'
        BY <2>1, ClosedFits
           DEF Restart, Counted, Calling, Connecting, Resolving, Fetching
    <2> QED BY <2>1, <2>2, <2>3 DEF IInv, TypeOK
<1>6. CASE UNCHANGED vars
    <2>1. UNCHANGED <<now, cache, client, attempt>>
        BY <1>6 DEF vars
    <2> QED BY <2>1 DEF ctxVars, IInv, TypeOK, CtxTypeOK, Counted, Used
<1> QED BY <1>1, <1>2, <1>3, <1>4, <1>5, <1>6 DEF Next

LEMMA BothInvariants == Spec => [](IInv /\ CtxInv)
<1>1. Init => IInv /\ CtxInv
    BY InitCounted, InitFits DEF Init
<1>2. IInv /\ CtxInv /\ [Next]_vars => (IInv /\ CtxInv)'
    BY StepCounted, Inductive
<1> QED BY <1>1, <1>2, PTL DEF Spec

\* The attempts of both layers stay within their numbers (mcp_client.py:135, 178).
THEOREM TypeCorrect == Spec => []TypeOK
<1>1. IInv => TypeOK
    BY DEF IInv
<1> QED BY <1>1, BothInvariants, PTL

\* Two layers of retries, one around the other, still end a call in MaxCall: what
\* is seen of them is DeliveryContexts (mcp_client.py:135-200).
THEOREM RetriesBounded == Spec => CallsBounded
<1>1. Init => CtxInit
    BY DEF Init
<1>2. IInv /\ CtxInv /\ [Next]_vars => [CtxNext]_ctxVars
    BY StepCounted
<1> QED BY <1>1, <1>2, BothInvariants, PTL DEF Spec, CallsBounded, CtxSpec

\* With the retries, too, goods are asked for with a slot that lies ahead.
THEOREM SlotsAhead == Spec => []SlotAhead
<1>1. Spec => CtxSpec
    BY RetriesBounded DEF CallsBounded
<1> QED BY <1>1, ContextsFit, PTL
=============================================================================
