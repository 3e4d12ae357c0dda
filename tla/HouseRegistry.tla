---------------------------- MODULE HouseRegistry ----------------------------
(***************************************************************************)
(* Which houses the bot serves, and in which city (main.py): Telegram tells *)
(* the bot when it is added to or removed from a chat, a resident may call  *)
(* /register, an administrator picks the city.  Every handler is a task     *)
(* with a session of its own: it loads the row of the chat, then writes the *)
(* attributes whose value differs from the one it loaded.  (The title of    *)
(* the house is left out.)                                                  *)
(***************************************************************************)
CONSTANTS
    Cities,   \* SUPPORTED_CITIES
    Tasks,    \* names for the handlers that can run at one time
    Restarts  \* whether the process is ever restarted

ASSUME RestartsAssumption == Restarts \in BOOLEAN

VARIABLES
    member,  \* whether the bot is in the chat
    row,     \* the committed row of the chat in `groups`
    task     \* the state of a handler

vars == <<member, row, task>>
-----------------------------------------------------------------------------
NoCity == "no city"

Group == [stored : BOOLEAN, is_active : BOOLEAN,
          delivery_address : Cities \cup {NoCity}]

Task == [pc   : {"idle", "asked", "loaded"},
         op   : {"added", "removed", "register", "pick"},
         seen : Group,   \* the row it loaded
         city : Cities \cup {NoCity}]

NoRow == [stored |-> FALSE, is_active |-> FALSE, delivery_address |-> NoCity]
NewRow == [NoRow EXCEPT !.stored = TRUE, !.is_active = TRUE]

NoTask == [pc |-> "idle", op |-> "added", seen |-> NoRow, city |-> NoCity]

\* A chat that is not registered has neither a city nor an active house.
TypeOK ==
    /\ member \in BOOLEAN
    /\ row \in Group /\ (row.stored \/ row = NoRow)
    /\ task \in [Tasks -> Task]

Init ==
    /\ member = FALSE
    /\ row = NoRow
    /\ task = [t \in Tasks |-> NoTask]

Begin(t, op, city) ==
    /\ task[t].pc = "idle"
    /\ task' = [task EXCEPT ![t] = [NoTask EXCEPT !.pc = "asked", !.op = op,
                                                  !.city = city]]
    /\ UNCHANGED row

End(t) == task' = [task EXCEPT ![t] = NoTask]

\* The value a commit leaves: `new` where the handler changed what it loaded.
Put(now, loaded, new) == IF new # loaded THEN new ELSE now

\* A handler that saw no row inserts one; the chat id is unique, so that a
\* second insert fails and changes nothing.
Insert == IF row.stored THEN row ELSE NewRow
-----------------------------------------------------------------------------
\* The bot is added to the chat (or made an administrator of it), or removed.
BotAdded(t) == member' = TRUE /\ Begin(t, "added", NoCity)
BotRemoved(t) == member /\ member' = FALSE /\ Begin(t, "removed", NoCity)

\* A resident's /register, an administrator's press on a city.
PressRegister(t) == member /\ Begin(t, "register", NoCity) /\ UNCHANGED member
PressCity(t, c) == member /\ Begin(t, "pick", c) /\ UNCHANGED member

\* The handler loads the row.
Load(t) ==
    /\ task[t].pc = "asked"
    /\ task' = [task EXCEPT ![t].pc = "loaded", ![t].seen = row]
    /\ UNCHANGED <<member, row>>

\* The handler ends without a change: whoever pressed is no administrator.
Refuse(t) ==
    /\ task[t].pc = "asked" /\ task[t].op = "pick"
    /\ End(t)
    /\ UNCHANGED <<member, row>>

Loaded(t, op) == task[t].pc = "loaded" /\ task[t].op = op

Activate(t) ==
    /\ Loaded(t, "added")
    /\ row' = IF ~task[t].seen.stored THEN Insert
              ELSE [row EXCEPT !.is_active = Put(@, task[t].seen.is_active, TRUE)]
    /\ End(t)
    /\ UNCHANGED member

Deactivate(t) ==
    /\ Loaded(t, "removed")
    /\ row' = IF ~task[t].seen.stored THEN row
              ELSE [row EXCEPT !.is_active = Put(@, task[t].seen.is_active, FALSE)]
    /\ End(t)
    /\ UNCHANGED member

\* Mistake: the house is registered anew.
Register_anew(t) ==
    /\ Loaded(t, "register")
    /\ row' = NewRow
    /\ End(t)
    /\ UNCHANGED member

Register(t) ==
    /\ Loaded(t, "register")
    /\ row' = IF ~task[t].seen.stored THEN Insert
              ELSE [row EXCEPT !.is_active = Put(@, task[t].seen.is_active, TRUE)]
    /\ End(t)
    /\ UNCHANGED member

\* Mistake: nobody checks that the chat is registered.
PickCity_unchecked(t) ==
    /\ Loaded(t, "pick")
    /\ row' = [row EXCEPT !.delivery_address =
                  Put(@, task[t].seen.delivery_address, task[t].city)]
    /\ End(t)
    /\ UNCHANGED member

PickCity(t) ==
    /\ Loaded(t, "pick")
    /\ row' = IF ~task[t].seen.stored THEN row
              ELSE [row EXCEPT !.delivery_address =
                       Put(@, task[t].seen.delivery_address, task[t].city)]
    /\ End(t)
    /\ UNCHANGED member

\* The process stops; when it starts again it drops the updates it missed.
Restart ==
    /\ Restarts
    /\ member' \in BOOLEAN
    /\ task' = [t \in Tasks |-> NoTask]
    /\ UNCHANGED row

Next == \/ \E t \in Tasks :
              \/ BotAdded(t) \/ BotRemoved(t) \/ PressRegister(t)
              \/ \E c \in Cities : PressCity(t, c)
              \/ Load(t) \/ Refuse(t)
              \/ Activate(t) \/ Deactivate(t) \/ Register(t) \/ PickCity(t)
        \/ Restart

Spec == Init /\ [][Next]_vars
-----------------------------------------------------------------------------
(* PROPERTIES                                                              *)

\* A house is never forgotten, and its city is that of the last pick that was
\* stored: neither leaving nor coming back nor /register changes it
\* (main.py:303-310, 362-364).
HouseKept ==
    [][/\ row.stored => row'.stored
       /\ row'.delivery_address # row.delivery_address =>
             \E t \in Tasks : PickCity(t) /\ row'.delivery_address = task[t].city]_vars
-----------------------------------------------------------------------------
(* DISAGREEMENTS: what the documents say and the code does not do.  No run  *)
(* checks these; README.md says in which instance TLC shows each to fail.   *)

\* Registration is "automatic when the bot is added" (README.md:69): once all
\* that happened is handled, the house is active exactly when the bot is in it.
ActiveFollowsMember ==
    (\A t \in Tasks : task[t].pc = "idle") => row.is_active = member

\* "The city of the group: ..." (main.py:765): when a pick is answered so, the
\* city is the one that was picked.
PickHolds ==
    [][\A t \in Tasks : PickCity(t) /\ task[t].seen.stored =>
          row'.delivery_address = task[t].city]_vars
=============================================================================
