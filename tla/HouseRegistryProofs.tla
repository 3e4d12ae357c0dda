------------------------ MODULE HouseRegistryProofs -------------------------
(***************************************************************************)
(* Proofs about HouseRegistry, for every set of cities and any number of    *)
(* handlers.                                                                *)
(*                                                                         *)
(* The argument: a row is only ever seen stored when it is, because it is   *)
(* never taken away again (SeenStored); so a handler that changes an        *)
(* attribute changes it in a row that is there, and one that saw no row     *)
(* inserts one only where there still is none.                              *)
(***************************************************************************)
EXTENDS HouseRegistry, TLAPS

\* A row that a handler saw stored is stored.
SeenStored == \A t \in Tasks : task[t].seen.stored => row.stored

\* A city is picked with a city; what a handler is not about, it does not hold.
PickedCity == \A t \in Tasks : task[t].op = "pick" => task[t].city \in Cities

IInv == TypeOK /\ SeenStored /\ PickedCity
-----------------------------------------------------------------------------
LEMMA Records == NoRow \in Group /\ NewRow \in Group /\ NoTask \in Task
BY DEF NoRow, NewRow, Group, NoTask, Task

LEMMA InitHolds == Init => IInv
<1> SUFFICES ASSUME Init PROVE IInv
  OBVIOUS
<1>1. TypeOK
  BY Records DEF Init, TypeOK
<1>2. SeenStored /\ PickedCity
  BY DEF Init, SeenStored, PickedCity, NoTask, NoRow
<1> QED BY <1>1, <1>2 DEF IInv

\* A handler begins: it has seen nothing.
LEMMA BeginKeeps ==
    ASSUME IInv, NEW t \in Tasks, NEW city \in Cities \cup {NoCity},
           NEW op \in {"added", "removed", "register", "pick"},
           op = "pick" => city \in Cities,
           Begin(t, op, city), member' \in BOOLEAN
    PROVE  IInv'
<1>1. [NoTask EXCEPT !.pc = "asked", !.op = op, !.city = city] \in Task
  BY Records DEF NoTask, Task
<1>2. TypeOK'
  BY <1>1 DEF IInv, TypeOK, Begin
<1>3. SeenStored' /\ PickedCity'
  BY DEF IInv, TypeOK, Begin, SeenStored, PickedCity, NoTask, NoRow
<1> QED BY <1>2, <1>3 DEF IInv

\* A handler ends: all that is left to show is what it did to the row.
LEMMA EndKeeps ==
    ASSUME IInv, NEW t \in Tasks, End(t), member' = member, row' \in Group,
           row'.stored \/ row' = NoRow, row.stored => row'.stored
    PROVE  IInv'
<1>1. TypeOK'
  BY Records DEF IInv, TypeOK, End
<1>2. SeenStored' /\ PickedCity'
  BY DEF IInv, TypeOK, End, SeenStored, PickedCity, NoTask, NoRow
<1> QED BY <1>1, <1>2 DEF IInv

LEMMA LoadKeeps ==
    ASSUME IInv, NEW t \in Tasks, Load(t)
    PROVE  IInv'
<1>1. [task[t] EXCEPT !.pc = "loaded", !.seen = row] \in Task
  BY DEF IInv, TypeOK, Task
<1>2. TypeOK'
  BY <1>1 DEF IInv, TypeOK, Load
<1>3. SeenStored' /\ PickedCity'
  BY DEF IInv, TypeOK, Task, Load, SeenStored, PickedCity
<1> QED BY <1>2, <1>3 DEF IInv

\* What the commit of a handler leaves of the row.
LEMMA InsertRow ==
    ASSUME IInv
    PROVE  /\ Insert \in Group /\ Insert.stored
           /\ Insert.delivery_address = row.delivery_address
BY Records DEF IInv, TypeOK, Insert, NewRow, NoRow

LEMMA ActiveRow ==
    ASSUME row \in Group, NEW b \in BOOLEAN, NEW loaded
    PROVE  LET new == [row EXCEPT !.is_active = Put(row.is_active, loaded, b)]
           IN  /\ new \in Group /\ new.stored = row.stored
               /\ new.delivery_address = row.delivery_address
BY DEF Group, Put

LEMMA CityRow ==
    ASSUME row \in Group, NEW c \in Cities, NEW loaded
    PROVE  LET new == [row EXCEPT !.delivery_address =
                          Put(row.delivery_address, loaded, c)]
           IN  /\ new \in Group /\ new.stored = row.stored
               /\ new.delivery_address \in {row.delivery_address, c}
BY DEF Group, Put

\* What each kind of handler may do to the row when it ends.
LEMMA Effects ==
    ASSUME IInv, NEW t \in Tasks,
           Activate(t) \/ Deactivate(t) \/ Register(t) \/ PickCity(t)
    PROVE  /\ row' \in Group
           /\ row'.stored \/ row' = NoRow
           /\ row.stored => row'.stored
           /\ \/ row'.delivery_address = row.delivery_address
              \/ PickCity(t) /\ row'.delivery_address = task[t].city
<1>1. /\ row \in Group /\ (row.stored \/ row = NoRow)
      /\ task[t].seen.stored => row.stored
  BY DEF IInv, TypeOK, SeenStored
<1>2. CASE Activate(t)
  BY <1>1, <1>2, InsertRow, ActiveRow DEF Activate
<1>3. CASE Deactivate(t)
  BY <1>1, <1>3, ActiveRow DEF Deactivate
<1>4. CASE Register(t)
  BY <1>1, <1>4, InsertRow, ActiveRow DEF Register
<1>5. CASE PickCity(t)
  <2>1. task[t].city \in Cities
    BY <1>5 DEF IInv, PickedCity, PickCity, Loaded
  <2> QED BY <1>1, <1>5, <2>1, CityRow DEF PickCity
<1> QED BY <1>2, <1>3, <1>4, <1>5

LEMMA StepHolds == IInv /\ [Next]_vars => IInv'
<1> SUFFICES ASSUME IInv, [Next]_vars PROVE IInv'
  OBVIOUS
<1>1. ASSUME NEW t \in Tasks, BotAdded(t) \/ BotRemoved(t) \/ PressRegister(t)
      PROVE  IInv'
  BY <1>1, BeginKeeps DEF BotAdded, BotRemoved, PressRegister, IInv, TypeOK
<1>2. ASSUME NEW t \in Tasks, NEW c \in Cities, PressCity(t, c) PROVE IInv'
  BY <1>2, BeginKeeps DEF PressCity, IInv, TypeOK
<1>3. ASSUME NEW t \in Tasks, Load(t) PROVE IInv'
  BY <1>3, LoadKeeps
<1>4. ASSUME NEW t \in Tasks, Refuse(t) PROVE IInv'
  BY <1>4, EndKeeps DEF Refuse, IInv, TypeOK
<1>5. ASSUME NEW t \in Tasks,
             Activate(t) \/ Deactivate(t) \/ Register(t) \/ PickCity(t)
      PROVE  IInv'
  <2>1. End(t) /\ member' = member
    BY <1>5 DEF Activate, Deactivate, Register, PickCity
  <2> QED BY <1>5, <2>1, Effects, EndKeeps
<1>6. CASE Restart
  BY <1>6, Records DEF Restart, IInv, TypeOK, SeenStored, PickedCity, NoTask, NoRow
<1>7. CASE UNCHANGED vars
  BY <1>7 DEF vars, IInv, TypeOK, SeenStored, PickedCity
<1> QED BY <1>1, <1>2, <1>3, <1>4, <1>5, <1>6, <1>7 DEF Next

LEMMA Invariance == Spec => []IInv
BY InitHolds, StepHolds, PTL DEF Spec

\* The variables keep their types, and a chat that is not registered has neither
\* a city nor an active house, whatever handlers overlap (main.py:281-373).
THEOREM TypeCorrect == Spec => []TypeOK
<1>1. IInv => TypeOK
  BY DEF IInv
<1> QED BY <1>1, Invariance, PTL

\* No handler of any number that overlap forgets a house or gives it a city that
\* was not picked (main.py:295-310, 362-371, 751-771).
THEOREM HouseIsKept == Spec => HouseKept
<1> DEFINE A == /\ row.stored => row'.stored
                /\ row'.delivery_address # row.delivery_address =>
                      \E t \in Tasks :
                          PickCity(t) /\ row'.delivery_address = task[t].city
<1>1. IInv /\ [Next]_vars => [A]_vars
  <2> SUFFICES ASSUME IInv, Next PROVE A
    OBVIOUS
  <2>1. ASSUME NEW t \in Tasks,
               Activate(t) \/ Deactivate(t) \/ Register(t) \/ PickCity(t)
        PROVE  A
    BY <2>1, Effects
  <2>2. ASSUME NEW t \in Tasks,
               \/ BotAdded(t) \/ BotRemoved(t) \/ PressRegister(t)
               \/ \E c \in Cities : PressCity(t, c)
               \/ Load(t) \/ Refuse(t)
        PROVE  A
    BY <2>2 DEF BotAdded, BotRemoved, PressRegister, PressCity, Begin, Load, Refuse
  <2>3. CASE Restart
    BY <2>3 DEF Restart
  <2> QED BY <2>1, <2>2, <2>3 DEF Next
<1> QED BY <1>1, Invariance, PTL DEF Spec, HouseKept-----------------------------------------------------------------------------
(* HANDLERS THAT DO NOT OVERLAP: what the documents say of the house is true. *)

Apart == \A t, t2 \in Tasks :
            task[t].pc # "idle" /\ task[t2].pc # "idle" => t = t2

\* The row a handler has loaded is the row as it is.
SeenNow == \A t \in Tasks : task[t].pc = "loaded" => task[t].seen = row

\* A handler that has begun will make the house what the bot's coming, staying
\* or going makes it.
OnTheWay ==
    \A t \in Tasks : task[t].pc # "idle" =>
        /\ task[t].op \in {"added", "register"} => member
        /\ task[t].op = "removed" => ~member
        /\ task[t].op = "pick" => row.is_active = member

\* The steps by which a handler ends.
Ends(t) == Refuse(t) \/ Activate(t) \/ Deactivate(t) \/ Register(t) \/ PickCity(t)

LEMMA Ending ==
    ASSUME IInv, Apart, NEW t \in Tasks, Ends(t)
    PROVE  /\ task[t].pc # "idle" /\ member' = member
           /\ \A t2 \in Tasks : task'[t2].pc = "idle"
<1>1. End(t) /\ task[t].pc # "idle" /\ member' = member
  BY DEF Ends, Refuse, Activate, Deactivate, Register, PickCity, Loaded
<1>2. \A t2 \in Tasks \ {t} : task[t2].pc = "idle"
  BY <1>1 DEF Apart
<1> QED BY <1>1, <1>2 DEF End, NoTask, IInv, TypeOK

LEMMA SeenNowKept ==
    ASSUME IInv, Apart, SeenNow, [Next]_vars
    PROVE  SeenNow'
<1>1. ASSUME NEW t \in Tasks, NEW op, NEW city, Begin(t, op, city) PROVE SeenNow'
  BY <1>1 DEF Begin, SeenNow, NoTask, IInv, TypeOK
<1>2. ASSUME NEW t \in Tasks, Load(t) PROVE SeenNow'
  BY <1>2 DEF Load, SeenNow, IInv, TypeOK
<1>3. ASSUME NEW t \in Tasks, Ends(t) PROVE SeenNow'
  BY <1>3, Ending DEF SeenNow
<1>4. CASE Restart
  BY <1>4 DEF Restart, SeenNow, NoTask
<1>5. CASE UNCHANGED vars
  BY <1>5 DEF vars, SeenNow
<1> QED BY <1>1, <1>2, <1>3, <1>4, <1>5
        DEF Next, Ends, BotAdded, BotRemoved, PressRegister, PressCity

\* A handler ends with what it was on the way to.
LEMMA Arrives ==
    ASSUME IInv, SeenNow, OnTheWay, NEW t \in Tasks, Ends(t)
    PROVE  row'.is_active = member
<1>1. /\ task[t].seen = row \/ Refuse(t)
      /\ task[t].pc # "idle"
  BY DEF Ends, Refuse, Activate, Deactivate, Register, PickCity, Loaded, SeenNow
<1>2. row \in Group /\ (row.stored \/ row = NoRow)
  BY DEF IInv, TypeOK
<1>3. CASE Activate(t) \/ Register(t)
  <2>1. member
    BY <1>1, <1>3 DEF OnTheWay, Activate, Register, Loaded
  <2>2. task[t].seen = row
    BY <1>3 DEF SeenNow, Activate, Register, Loaded
  <2>3. CASE row.stored
    <3>1. row' = [row EXCEPT !.is_active = Put(row.is_active, row.is_active, TRUE)]
      BY <1>3, <2>2, <2>3 DEF Activate, Register
    <3> QED BY <1>2, <2>1, <3>1 DEF Put, Group, IInv, TypeOK
  <2>4. CASE ~row.stored
    <3>1. row' = NewRow
      BY <1>3, <2>2, <2>4 DEF Activate, Register, Insert
    <3> QED BY <2>1, <3>1 DEF NewRow, NoRow, IInv, TypeOK
  <2> QED BY <2>3, <2>4
<1>4. CASE Deactivate(t)
  <2>1. ~member
    BY <1>1, <1>4 DEF OnTheWay, Deactivate, Loaded
  <2>2. task[t].seen = row
    BY <1>4 DEF SeenNow, Deactivate, Loaded
  <2>3. CASE row.stored
    <3>1. row' = [row EXCEPT !.is_active = Put(row.is_active, row.is_active, FALSE)]
      BY <1>4, <2>2, <2>3 DEF Deactivate
    <3> QED BY <1>2, <2>1, <3>1 DEF Put, Group, IInv, TypeOK
  <2>4. CASE ~row.stored
    <3>1. row' = row /\ row = NoRow
      BY <1>2, <1>4, <2>2, <2>4 DEF Deactivate
    <3>2. row'.is_active = FALSE
      BY <3>1 DEF NoRow
    <3>3. member = FALSE
      BY <2>1 DEF IInv, TypeOK
    <3> QED BY <3>2, <3>3
  <2> QED BY <2>3, <2>4
<1>5. CASE Refuse(t) \/ PickCity(t)
  <2>1. row.is_active = member
    BY <1>1, <1>5 DEF OnTheWay, Refuse, PickCity, Loaded
  <2>2. row'.is_active = row.is_active
    BY <1>2, <1>5 DEF Refuse, PickCity, Group
  <2> QED BY <2>1, <2>2
<1> QED BY <1>3, <1>4, <1>5 DEF Ends

LEMMA OnTheWayKept ==
    ASSUME ~Restarts, IInv, Apart, Apart', SeenNow, OnTheWay, ActiveFollowsMember,
           [Next]_vars
    PROVE  OnTheWay' /\ ActiveFollowsMember'
<1>1. ASSUME NEW t \in Tasks, NEW op, NEW city, Begin(t, op, city),
             op \in {"added", "register"} => member',
             op = "removed" => ~member',
             op = "pick" => member' = member
      PROVE  OnTheWay' /\ ActiveFollowsMember'
  <2>1. /\ task[t].pc = "idle" /\ row' = row
        /\ task' = [task EXCEPT ![t] = [NoTask EXCEPT !.pc = "asked", !.op = op,
                                                      !.city = city]]
        /\ t \in DOMAIN task
    BY <1>1 DEF Begin, IInv, TypeOK
  <2>2. task'[t].pc = "asked" /\ task'[t].op = op
    BY <2>1 DEF NoTask
  <2>3. \A t2 \in Tasks \ {t} : task'[t2] = task[t2] /\ task'[t2].pc = "idle"
    BY <2>1, <2>2 DEF Apart, IInv, TypeOK
  <2>4. row.is_active = member
    BY <2>1, <2>3 DEF ActiveFollowsMember
  <2>5. OnTheWay'
    BY <1>1, <2>1, <2>2, <2>3, <2>4 DEF OnTheWay
  <2> QED BY <2>2, <2>5 DEF ActiveFollowsMember
<1>2. ASSUME NEW t \in Tasks, Load(t) PROVE OnTheWay' /\ ActiveFollowsMember'
  <2>1. /\ UNCHANGED <<member, row>> /\ task[t].pc = "asked"
        /\ task' = [task EXCEPT ![t].pc = "loaded", ![t].seen = row]
        /\ task \in [Tasks -> Task]
    BY <1>2 DEF Load, IInv, TypeOK
  <2>2. /\ task'[t].pc = "loaded" /\ task'[t].op = task[t].op
        /\ \A t2 \in Tasks \ {t} : task'[t2] = task[t2]
    BY <2>1 DEF Task
  <2> QED BY <2>1, <2>2 DEF OnTheWay, ActiveFollowsMember
<1>3. ASSUME NEW t \in Tasks, Ends(t) PROVE OnTheWay' /\ ActiveFollowsMember'
  BY <1>3, Ending, Arrives DEF OnTheWay, ActiveFollowsMember
<1>4. CASE UNCHANGED vars
  BY <1>4 DEF vars, OnTheWay, ActiveFollowsMember
<1>5. ~Restart
  BY DEF Restart
<1>6. ASSUME NEW t \in Tasks, BotAdded(t) \/ BotRemoved(t) \/ PressRegister(t)
      PROVE  OnTheWay' /\ ActiveFollowsMember'
  BY <1>1, <1>6 DEF BotAdded, BotRemoved, PressRegister
<1>7. ASSUME NEW t \in Tasks, NEW c \in Cities, PressCity(t, c)
      PROVE  OnTheWay' /\ ActiveFollowsMember'
  BY <1>1, <1>7 DEF PressCity
<1> QED BY <1>2, <1>3, <1>4, <1>5, <1>6, <1>7 DEF Next, Ends

LEMMA SeenNowInvariance == Spec /\ []Apart => []SeenNow
<1>1. Init => SeenNow
  BY DEF Init, SeenNow, NoTask
<1>2. IInv /\ Apart /\ SeenNow /\ [Next]_vars => SeenNow'
  BY SeenNowKept
<1> QED BY <1>1, <1>2, Invariance, PTL DEF Spec

\* As long as handlers do not overlap and no update is dropped by a restart, a
\* house is active exactly when the bot is in its chat (main.py:281-310).
THEOREM ActiveWhenMember ==
    ASSUME ~Restarts
    PROVE  Spec /\ []Apart => []ActiveFollowsMember
<1>1. Init => OnTheWay /\ ActiveFollowsMember
  <2> SUFFICES ASSUME Init PROVE OnTheWay /\ ActiveFollowsMember
    OBVIOUS
  <2>1. \A t \in Tasks : task[t].pc = "idle"
    BY DEF Init, NoTask
  <2>2. row.is_active = FALSE /\ member = FALSE
    BY DEF Init, NoRow
  <2> QED BY <2>1, <2>2 DEF OnTheWay, ActiveFollowsMember
<1>2. /\ IInv /\ Apart /\ Apart' /\ SeenNow
      /\ OnTheWay /\ ActiveFollowsMember /\ [Next]_vars
      => (OnTheWay /\ ActiveFollowsMember)'
  BY OnTheWayKept
<1> QED BY <1>1, <1>2, Invariance, SeenNowInvariance, PTL DEF Spec
=============================================================================
