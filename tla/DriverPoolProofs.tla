-------------------------- MODULE DriverPoolProofs --------------------------
(***************************************************************************)
(* What holds of DriverPool for every set of databases, drivers and        *)
(* callers: its types, that every database has at most one open pool, and  *)
(* that it implements PoolRegistry.  That GetDriver returns is left to the *)
(* runs.                                                                   *)
(***************************************************************************)
EXTENDS DriverPool, TLAPS

\* The local state of a caller that is done is a call (GetDriver's returns).
LEMMA IdleType == Idle \in Call
BY DriverPoolAssumption DEF Idle, Call, Pcs, Ops, Names

\* The process starts with no driver and no caller.
LEMMA InitTypes == Init => TypeOK
BY IdleType DEF Init, TypeOK, Names, Pool

\* A caller that moves on with another driver in hand is still a caller.
LEMMA MovesTypes ==
  ASSUME TypeOK, NEW c \in Callers, NEW pc \in Pcs, NEW d \in Drivers \cup {None},
         call' = [call EXCEPT ![c].pc = pc, ![c].drv = d]
  PROVE  /\ call' \in [Callers -> Call]
         /\ call'[c].pc = pc /\ call'[c].drv = d /\ call'[c].want = call[c].want
         /\ \A b \in Callers \ {c} : call'[b] = call[b]
<1> DEFINE f == [call EXCEPT ![c].pc = pc]
<1>1. f \in [Callers -> Call] /\ f[c].pc = pc /\ f[c].want = call[c].want
  BY DEF TypeOK, Call
<1>2. \A b \in Callers \ {c} : f[b] = call[b]
  BY DEF TypeOK
<1>3. call' = [f EXCEPT ![c].drv = d]
  BY DEF TypeOK, Call
<1> HIDE DEF f
<1>4. call' \in [Callers -> Call]
  <2> DEFINE q == f[c]
             x == [q EXCEPT !.drv = d]
  <2>1. q \in Call
    BY <1>1
  <2>2. call' = [f EXCEPT ![c] = x]
    BY <1>3
  <2> HIDE DEF q
  <2>3. x \in Call
    BY <2>1 DEF Call
  <2> HIDE DEF x
  <2> QED BY <1>1, <2>2, <2>3
<1>5. call'[c].pc = pc /\ call'[c].drv = d /\ call'[c].want = call[c].want
  BY <1>1, <1>3 DEF Call
<1> QED BY <1>1, <1>2, <1>3, <1>4, <1>5

\* The helpers every step is made of keep the types of what they assign.
LEMMA HelperTypes ==
  ASSUME TypeOK, NEW c \in Callers
  PROVE  /\ \A pc \in Pcs : Goto(c, pc) => call' \in [Callers -> Call]
         /\ \A d \in Drivers : Return(c, d) => call' \in [Callers -> Call]
         /\ End(c) => call' \in [Callers -> Call]
         /\ \A d \in Drivers : Shut(d) => pool' \in [Drivers -> Pool]
         /\ \A n \in Names : Drop(n) => drivers' \in [Names -> Drivers \cup {None}]
<1>1. \A pc \in Pcs : Goto(c, pc) => call' \in [Callers -> Call]
  BY DEF TypeOK, Goto, Call
<1>2. \A d \in Drivers : Return(c, d) => call' \in [Callers -> Call]
  BY MovesTypes DEF Return, Pcs
<1>3. End(c) => call' \in [Callers -> Call]
  BY IdleType DEF TypeOK, End
<1>4. \A d \in Drivers : Shut(d) => pool' \in [Drivers -> Pool]
  BY DEF TypeOK, Shut, Pool
<1>5. \A n \in Names : Drop(n) => drivers' \in [Names -> Drivers \cup {None}]
  BY DEF TypeOK, Drop
<1> QED BY <1>1, <1>2, <1>3, <1>4, <1>5

\* Every step of GetDriver, of its callers, of DropDatabase and of Close keeps
\* the types.
LEMMA NextTypes == TypeOK /\ [Next]_vars => TypeOK'
<1> SUFFICES ASSUME TypeOK, [Next]_vars PROVE TypeOK'
  OBVIOUS
<1>1. CASE UNCHANGED vars
  BY <1>1 DEF TypeOK, vars
<1>2. ASSUME NEW c \in Callers, NEW op \in Ops, NEW n \in Names, Begin(c, op, n)
      PROVE  TypeOK'
  <2>1. [Idle EXCEPT !.pc = IF op = "drop" THEN "evict" ELSE "peek", !.op = op,
                     !.name = n, !.want = IF op = "use" THEN n ELSE Admin] \in Call
    BY DEF Idle, Call, Pcs, Names
  <2> QED BY <1>2, <2>1 DEF Begin, TypeOK
<1>3. ASSUME NEW c \in Callers, Peek(c) PROVE TypeOK'
  <2>1. drivers[Want(c)] \in Drivers \cup {None}
    BY DEF TypeOK, Want, Call
  <2>2. PICK pc \in {"lock", "ping"} :
          call' = [call EXCEPT ![c].pc = pc, ![c].drv = drivers[Want(c)]]
    BY <1>3 DEF Peek
  <2>3. call' \in [Callers -> Call]
    BY <2>1, <2>2, MovesTypes DEF Pcs
  <2> QED BY <1>3, <2>3 DEF Peek, TypeOK
<1>4. ASSUME NEW c \in Callers, Ping(c) PROVE TypeOK'
  <2>1. call' \in [Callers -> Call]
    BY <1>4, HelperTypes DEF Ping, Pcs
  <2> QED BY <1>4, <2>1 DEF Ping, TypeOK
<1>5. ASSUME NEW c \in Callers, Lock(c) PROVE TypeOK'
  <2>1. call' \in [Callers -> Call]
    BY <1>5, HelperTypes DEF Lock, Pcs
  <2> QED BY <1>5, <2>1 DEF Lock, TypeOK
<1>6. ASSUME NEW c \in Callers, Recheck(c) PROVE TypeOK'
  <2>1. Want(c) \in Names /\ drivers[Want(c)] \in Drivers \cup {None}
    BY DEF TypeOK, Want, Call
  <2>2. call' \in [Callers -> Call]
    BY <1>6, <2>1, HelperTypes DEF Recheck, Pcs
  <2>3. /\ pool' \in [Drivers -> Pool]
        /\ drivers' \in [Names -> Drivers \cup {None}]
        /\ mu' \in Callers \cup {None}
    BY <1>6, <2>1, HelperTypes DEF Recheck, TypeOK
  <2> QED BY <1>6, <2>2, <2>3 DEF Recheck, TypeOK
<1>7. ASSUME NEW c \in Callers, Connect(c) PROVE TypeOK'
  <2>1. PICK d \in Drivers :
          /\ pool' = [pool EXCEPT ![d] = [open |-> TRUE, db |-> Want(c)]]
          /\ call' = [call EXCEPT ![c].pc = "pingnew", ![c].drv = d]
    BY <1>7 DEF Connect
  <2>2. [open |-> TRUE, db |-> Want(c)] \in Pool
    BY DEF Pool, TypeOK, Want, Call
  <2>3. pool' \in [Drivers -> Pool] /\ call' \in [Callers -> Call]
    BY <2>1, <2>2, MovesTypes DEF TypeOK, Pcs
  <2> QED BY <1>7, <2>3 DEF Connect, TypeOK
<1>8. ASSUME NEW c \in Callers, PingNew(c), call[c].drv \in Drivers PROVE TypeOK'
  <2>1. Want(c) \in Names
    BY DEF TypeOK, Want, Call
  <2>2. call' \in [Callers -> Call] /\ pool' \in [Drivers -> Pool]
    BY <1>8, HelperTypes DEF PingNew, Pcs, TypeOK
  <2>3. drivers' \in [Names -> Drivers \cup {None}]
    BY <1>8, <2>1 DEF PingNew, TypeOK
  <2> QED BY <1>8, <2>2, <2>3 DEF PingNew, TypeOK
<1>9. ASSUME NEW c \in Callers, PingNew(c), call[c].drv = None PROVE TypeOK'
  <2>1. Want(c) \in Names
    BY DEF TypeOK, Want, Call
  <2>2. pool' \in [Drivers -> Pool]
    BY <1>9, DriverPoolAssumption DEF PingNew, Shut, TypeOK
  <2>3. call' \in [Callers -> Call]
    BY <1>9, HelperTypes DEF PingNew, Pcs
  <2>4. drivers' \in [Names -> Drivers \cup {None}]
    BY <1>9, <2>1 DEF PingNew, TypeOK
  <2> QED BY <1>9, <2>2, <2>3, <2>4 DEF PingNew, TypeOK
<1>10. ASSUME NEW c \in Callers, Evict(c) PROVE TypeOK'
  <2>1. call[c].name \in Names /\ drivers[call[c].name] \in Drivers \cup {None}
    BY DEF TypeOK, Call
  <2>2. call' \in [Callers -> Call]
    BY <1>10, HelperTypes DEF Evict, Pcs
  <2>3. pool' \in [Drivers -> Pool] /\ drivers' \in [Names -> Drivers \cup {None}]
    BY <1>10, <2>1, HelperTypes DEF Evict, TypeOK
  <2> QED BY <1>10, <2>2, <2>3 DEF Evict, TypeOK
<1>11. ASSUME NEW c \in Callers, Execute(c) PROVE TypeOK'
  <2>1. call' \in [Callers -> Call]
    BY <1>11, HelperTypes DEF Execute
  <2>2. exists' \subseteq Names
    BY <1>11 DEF Execute, TypeOK, Call
  <2> QED BY <1>11, <2>1, <2>2 DEF Execute, TypeOK
<1>12. ASSUME NEW c \in Callers, Release(c) PROVE TypeOK'
  <2>1. call' \in [Callers -> Call]
    BY <1>12, HelperTypes DEF Release
  <2> QED BY <1>12, <2>1 DEF Release, TypeOK
<1>13. ASSUME NEW c \in Callers, ContextEnds(c) PROVE TypeOK'
  <2>1. call' \in [Callers -> Call]
    BY <1>13 DEF ContextEnds, TypeOK, Call
  <2> QED BY <1>13, <2>1 DEF ContextEnds, TypeOK
<1>14. CASE Close
  <2>1. \A d \in Drivers : [pool[d] EXCEPT !.open = FALSE] \in Pool
    BY DEF TypeOK, Pool
  <2>2. pool' \in [Drivers -> Pool]
    BY <1>14, <2>1 DEF Close, TypeOK
  <2> QED BY <1>14, <2>2 DEF Close, TypeOK
<1>15. \A c \in Callers : call[c].drv \in Drivers \/ call[c].drv = None
  BY DEF TypeOK, Call
<1> QED
  BY <1>1, <1>2, <1>3, <1>4, <1>5, <1>6, <1>7, <1>8, <1>9, <1>10, <1>11,
     <1>12, <1>13, <1>14, <1>15 DEF Next, Get

\* The map, the pools, the mutex and the callers always have the shape the
\* code gives them.
THEOREM Typing == Spec => []TypeOK
BY InitTypes, NextTypes, PTL DEF Spec

----------------------------------------------------------------------------
\* The strengthening of OnePoolPerDatabase: who holds the mutex, what the map
\* holds, and where a driver can be that is open and not in the map.
Holding == {"recheck", "connect", "pingnew"}

Holder == \A c \in Callers : call[c].pc \in Holding <=> mu = c

Mapped ==
  \A n \in Names : drivers[n] # None =>
    pool[drivers[n]].open /\ pool[drivers[n]].db = n

InHand(c, d) == call[c].pc = "pingnew" /\ call[c].drv = d

Found ==
  \A d \in Drivers : pool[d].open =>
    drivers[pool[d].db] = d \/ \E c \in Callers : InHand(c, d)

\* The holder of the mutex has found the map empty, and its new driver is open.
Fresh(c) ==
  /\ call[c].pc \in {"connect", "pingnew"} => drivers[call[c].want] = None
  /\ call[c].pc = "pingnew" =>
       /\ call[c].drv \in Drivers
       /\ pool[call[c].drv].open /\ pool[call[c].drv].db = call[c].want

PoolInv == TypeOK /\ Holder /\ Mapped /\ Found /\ \A c \in Callers : Fresh(c)

\* The invariant is enough: two open drivers of one database would both be in
\* the map, or both in the hand of the one holder of the mutex, or one of them
\* in the map the holder has found empty.
LEMMA PoolInvSuffices == PoolInv => OnePoolPerDatabase
<1> SUFFICES ASSUME PoolInv PROVE OnePoolPerDatabase
  OBVIOUS
<1>1. ASSUME NEW d \in Drivers, NEW e \in Drivers,
             pool[d].open, pool[e].open, pool[d].db = pool[e].db
      PROVE  d = e
  <2>1. d # None /\ e # None
    BY DriverPoolAssumption
  <2>2. drivers[pool[d].db] = d \/ \E c \in Callers : InHand(c, d)
    BY <1>1 DEF PoolInv, Found
  <2>3. drivers[pool[e].db] = e \/ \E c \in Callers : InHand(c, e)
    BY <1>1 DEF PoolInv, Found
  <2>4. \A c \in Callers, x \in Drivers : InHand(c, x) =>
          mu = c /\ drivers[pool[x].db] = None
    BY DEF PoolInv, Holder, Fresh, InHand, Holding
  <2>5. CASE drivers[pool[d].db] = d
    BY <1>1, <2>1, <2>3, <2>4, <2>5
  <2>6. CASE \E c \in Callers : InHand(c, d)
    BY <1>1, <2>1, <2>3, <2>4, <2>6 DEF InHand
  <2> QED BY <2>2, <2>5, <2>6
<1>2. ASSUME mu = None, NEW d \in Drivers, pool[d].open
      PROVE  drivers[pool[d].db] = d
  <2>1. \A c \in Callers : ~InHand(c, d)
    BY <1>2, DriverPoolAssumption DEF PoolInv, Holder, InHand, Holding
  <2> QED BY <1>2, <2>1 DEF PoolInv, Found
<1> QED BY <1>1, <1>2 DEF OnePoolPerDatabase

\* A step of one caller that touches neither the map, nor a pool, nor the mutex.
LEMMA CallerStep ==
  ASSUME PoolInv, TypeOK', NEW c \in Callers,
         UNCHANGED <<drivers, pool, mu>>,
         \A b \in Callers \ {c} : call'[b] = call[b],
         call'[c].pc \in Holding <=> call[c].pc \in Holding,
         call'[c].pc # "pingnew", call[c].pc # "pingnew",
         call'[c].pc = "connect" => drivers[call'[c].want] = None
  PROVE  PoolInv'
<1>1. Holder'
  BY DEF PoolInv, Holder
<1>2. Mapped'
  BY DEF PoolInv, Mapped
<1>3. \A b \in Callers, d \in Drivers : InHand(b, d) => InHand(b, d)'
  BY DEF InHand
<1>4. Found'
  BY <1>3 DEF PoolInv, Found
<1>5. \A b \in Callers : Fresh(b)'
  BY DEF PoolInv, Fresh
<1> QED BY <1>1, <1>2, <1>4, <1>5 DEF PoolInv

\* What a caller does outside the mutex, and what GetDriver's callers do.
LEMMA OutsideInv ==
  ASSUME PoolInv, TypeOK', NEW c \in Callers,
         \/ \E op \in Ops, n \in Names : Begin(c, op, n)
         \/ Peek(c) \/ Ping(c) \/ Execute(c) \/ Release(c)
  PROVE  PoolInv'
<1>1. call \in [Callers -> Call] /\ call' \in [Callers -> Call]
  BY DEF PoolInv, TypeOK
<1>2. /\ UNCHANGED <<drivers, pool, mu>>
      /\ \A b \in Callers \ {c} : call'[b] = call[b]
  BY <1>1 DEF Begin, Peek, Ping, Execute, Release, Goto, End
<1>3. call[c].pc \in {"idle", "peek", "ping", "using"}
  BY DEF Begin, Peek, Ping, Execute, Release, At
<1>4. call'[c].pc \in {"idle", "evict", "peek", "ping", "lock", "using"}
  <2>1. ASSUME NEW op \in Ops, NEW n \in Names, Begin(c, op, n)
        PROVE  call'[c].pc \in {"evict", "peek"}
    BY <1>1, <2>1 DEF Begin, Idle
  <2>2. ASSUME Peek(c) PROVE call'[c].pc \in {"lock", "ping"}
    <3>1. PICK pc \in {"lock", "ping"} :
            call' = [call EXCEPT ![c].pc = pc, ![c].drv = drivers[Want(c)]]
      BY <2>2 DEF Peek
    <3>2. drivers[Want(c)] \in Drivers \cup {None} /\ TypeOK /\ pc \in Pcs
      BY DEF PoolInv, TypeOK, Want, Call, Pcs
    <3>3. call'[c].pc = pc
      BY <3>1, <3>2, MovesTypes
    <3> QED BY <3>3
  <2>3. Ping(c) => call'[c].pc \in {"using", "lock"}
    BY <1>1 DEF Ping, Goto, Call
  <2>4. Execute(c) \/ Release(c) => call'[c].pc = "idle"
    BY <1>1 DEF Execute, Release, End, Idle
  <2> QED BY <2>1, <2>2, <2>3, <2>4
<1> QED BY <1>2, <1>3, <1>4, CallerStep DEF Holding

\* Taking the mutex for writing.
LEMMA LockInv ==
  ASSUME PoolInv, TypeOK', NEW c \in Callers, Lock(c)
  PROVE  PoolInv'
<1>1. call \in [Callers -> Call]
  BY DEF PoolInv, TypeOK
<1>2. /\ UNCHANGED <<drivers, pool>>
      /\ \A b \in Callers \ {c} : call'[b] = call[b]
      /\ call'[c].pc = "recheck" /\ call[c].pc = "lock"
      /\ mu = None /\ mu' = c
  BY <1>1 DEF Lock, Goto, At, Call
<1>3. Holder'
  BY <1>2, DriverPoolAssumption DEF PoolInv, Holder, Holding
<1>4. Found'
  <2>1. \A b \in Callers, d \in Drivers : InHand(b, d) => InHand(b, d)'
    BY <1>2 DEF InHand
  <2> QED BY <1>2, <2>1 DEF PoolInv, Found
<1>5. \A b \in Callers : Fresh(b)'
  BY <1>2 DEF PoolInv, Fresh
<1>6. Mapped'
  BY <1>2 DEF PoolInv, Mapped
<1> QED BY <1>3, <1>4, <1>5, <1>6 DEF PoolInv

\* While one caller holds the mutex, no other has a new driver in hand.
LEMMA OneHolder ==
  ASSUME PoolInv, NEW c \in Callers, call[c].pc \in Holding \/ mu = None
  PROVE  \A b \in Callers \ {c} : call[b].pc \notin Holding
BY DriverPoolAssumption DEF PoolInv, Holder

\* The second look under the mutex: the driver is returned, or closed and taken
\* out of the map, or there was none.
LEMMA RecheckInv ==
  ASSUME PoolInv, TypeOK', NEW c \in Callers, Recheck(c)
  PROVE  PoolInv'
<1> DEFINE n == Want(c)
           d == drivers[Want(c)]
<1>1. /\ call \in [Callers -> Call] /\ n \in Names /\ n = call[c].want
      /\ d \in Drivers \cup {None} /\ call[c].pc = "recheck"
      /\ pool \in [Drivers -> Pool] /\ TypeOK
      /\ drivers \in [Names -> Drivers \cup {None}]
  BY DEF PoolInv, TypeOK, Want, Call, Recheck, At
<1>2. \A b \in Callers \ {c} : call[b].pc \notin Holding
  BY <1>1, OneHolder DEF Holding
<1>3. CASE d = None /\ Goto(c, "connect") /\ UNCHANGED <<drivers, pool, mu>>
  <2>1. /\ call'[c].pc = "connect" /\ call'[c].want = n
        /\ \A b \in Callers \ {c} : call'[b] = call[b]
    BY <1>1, <1>3 DEF Goto, Call
  <2> QED BY <1>1, <1>3, <2>1, CallerStep DEF Holding
<1>4. CASE Return(c, d) /\ d # None /\ mu' = None /\ UNCHANGED <<drivers, pool>>
  <2>1. /\ call'[c].pc = "using"
        /\ \A b \in Callers \ {c} : call'[b] = call[b]
    BY <1>1, <1>4, MovesTypes DEF Return, Pcs
  <2>2. Holder'
    BY <1>2, <1>4, <2>1, DriverPoolAssumption DEF Holder, Holding
  <2>3. Found'
    <3>1. \A b \in Callers, e \in Drivers : InHand(b, e) => InHand(b, e)'
      BY <1>1, <2>1 DEF InHand
    <3> QED BY <1>4, <3>1 DEF PoolInv, Found
  <2>4. \A b \in Callers : Fresh(b)'
    BY <1>4, <2>1 DEF PoolInv, Fresh
  <2>5. Mapped'
    BY <1>4 DEF PoolInv, Mapped
  <2> QED BY <2>2, <2>3, <2>4, <2>5 DEF PoolInv
<1>5. CASE Shut(d) /\ Drop(n) /\ Goto(c, "connect") /\ UNCHANGED mu /\ d # None
  <2>1. /\ call'[c].pc = "connect" /\ call'[c].want = n
        /\ \A b \in Callers \ {c} : call'[b] = call[b]
    BY <1>1, <1>5 DEF Goto, Call
  <2>2. /\ drivers'[n] = None
        /\ \A m \in Names \ {n} : drivers'[m] = drivers[m]
    BY <1>1, <1>5 DEF Drop
  <2>3. /\ ~pool'[d].open
        /\ \A e \in Drivers \ {d} : pool'[e] = pool[e]
    BY <1>1, <1>5 DEF Shut, Pool
  <2>4. pool[d].db = n
    BY <1>1, <1>5 DEF PoolInv, Mapped
  <2>5. Holder'
    BY <1>1, <1>5, <2>1 DEF PoolInv, Holder, Holding
  <2>6. Mapped'
    <3>1. ASSUME NEW m \in Names, drivers'[m] # None
          PROVE  pool'[drivers'[m]].open /\ pool'[drivers'[m]].db = m
      <4>1. m # n /\ drivers'[m] = drivers[m] /\ drivers[m] \in Drivers
        BY <1>1, <2>2, <3>1
      <4>2. pool[drivers[m]].open /\ pool[drivers[m]].db = m
        BY <3>1, <4>1 DEF PoolInv, Mapped
      <4> QED BY <2>3, <2>4, <4>1, <4>2
    <3> QED BY <3>1 DEF Mapped
  <2>7. Found'
    <3>1. ASSUME NEW e \in Drivers, pool'[e].open
          PROVE  drivers'[pool'[e].db] = e
      <4>1. e # d /\ pool'[e] = pool[e]
        BY <2>3, <3>1
      <4>2. drivers[pool[e].db] = e
        BY <1>1, <1>2, <3>1, <4>1 DEF PoolInv, Found, InHand, Holding
      <4>3. pool[e].db # n /\ pool[e].db \in Names
        BY <1>1, <4>1, <4>2 DEF Pool
      <4> QED BY <2>2, <4>1, <4>2, <4>3
    <3> QED BY <3>1 DEF Found
  <2>8. \A b \in Callers : Fresh(b)'
    BY <1>2, <2>1, <2>2 DEF Fresh, Holding
  <2> QED BY <2>5, <2>6, <2>7, <2>8 DEF PoolInv
<1> QED BY <1>3, <1>4, <1>5 DEF Recheck

\* Opening a driver for the name the map does not have.
LEMMA ConnectInv ==
  ASSUME PoolInv, TypeOK', NEW c \in Callers, Connect(c)
  PROVE  PoolInv'
<1>1. PICK d \in Drivers :
        /\ ~pool[d].open
        /\ \A b \in Callers \ {c} : call[b].drv # d
        /\ pool' = [pool EXCEPT ![d] = [open |-> TRUE, db |-> Want(c)]]
        /\ call' = [call EXCEPT ![c].pc = "pingnew", ![c].drv = d]
  BY DEF Connect
<1>2. TypeOK /\ pool \in [Drivers -> Pool] /\ call[c].pc = "connect"
  BY DEF PoolInv, TypeOK, Connect, At
<1>3. /\ call'[c].pc = "pingnew" /\ call'[c].drv = d
      /\ call'[c].want = call[c].want
      /\ \A b \in Callers \ {c} : call'[b] = call[b]
  BY <1>1, <1>2, MovesTypes DEF Pcs
<1>4. /\ pool'[d].open /\ pool'[d].db = call[c].want
      /\ \A e \in Drivers \ {d} : pool'[e] = pool[e]
  BY <1>1, <1>2 DEF Want
<1>5. UNCHANGED <<drivers, mu>>
  BY DEF Connect
<1>6. \A b \in Callers \ {c} : call[b].pc \notin Holding
  BY <1>2, OneHolder DEF Holding
<1>7. Holder'
  BY <1>2, <1>3, <1>5 DEF PoolInv, Holder, Holding
<1>8. Mapped'
  <2>1. \A n \in Names : drivers[n] # None => drivers[n] \in Drivers \ {d}
    BY <1>1, <1>2 DEF PoolInv, Mapped, TypeOK
  <2> QED BY <1>4, <1>5, <2>1 DEF PoolInv, Mapped
<1>9. Found'
  <2>1. InHand(c, d)'
    BY <1>3 DEF InHand
  <2>2. ASSUME NEW e \in Drivers \ {d}, pool'[e].open
        PROVE  drivers'[pool'[e].db] = e
    BY <1>2, <1>4, <1>5, <1>6, <2>2 DEF PoolInv, Found, InHand, Holding
  <2> QED BY <2>1, <2>2 DEF Found
<1>10. \A b \in Callers : Fresh(b)'
  <2>1. Fresh(c)'
    BY <1>2, <1>3, <1>4, <1>5 DEF PoolInv, Fresh
  <2>2. \A b \in Callers \ {c} : Fresh(b)'
    BY <1>3, <1>6 DEF Fresh, Holding
  <2> QED BY <2>1, <2>2
<1> QED BY <1>7, <1>8, <1>9, <1>10 DEF PoolInv

\* The new driver enters the map or is closed; the mutex is free either way.
LEMMA PingNewInv ==
  ASSUME PoolInv, TypeOK', NEW c \in Callers, PingNew(c)
  PROVE  PoolInv'
<1> DEFINE d == call[c].drv
           n == call[c].want
<1>1. /\ call \in [Callers -> Call] /\ pool \in [Drivers -> Pool]
      /\ drivers \in [Names -> Drivers \cup {None}]
      /\ call[c].pc = "pingnew" /\ n \in Names /\ mu' = None
  BY DEF PoolInv, TypeOK, Call, PingNew, At
<1>2. d \in Drivers /\ pool[d].open /\ pool[d].db = n /\ drivers[n] = None
  BY <1>1 DEF PoolInv, Fresh
<1>3. \A b \in Callers \ {c} : call[b].pc \notin Holding
  BY <1>1, OneHolder DEF Holding
<1>4. /\ call'[c].pc \in {"using", "idle"}
      /\ \A b \in Callers \ {c} : call'[b] = call[b]
  <2>1. CASE Goto(c, "using")
    BY <1>1, <2>1 DEF Goto, Call
  <2>2. CASE End(c)
    BY <1>1, <2>2 DEF End, Idle
  <2> QED BY <2>1, <2>2 DEF PingNew
<1>5. \A b \in Callers : call'[b].pc \notin Holding
  BY <1>3, <1>4 DEF Holding
<1>6. Holder' /\ \A b \in Callers : Fresh(b)'
  BY <1>1, <1>5, DriverPoolAssumption DEF Holder, Fresh, Holding
<1>7. \A e \in Drivers \ {d} : pool[e].open => drivers[pool[e].db] = e
  BY <1>1, <1>3 DEF PoolInv, Found, InHand, Holding
<1>8. CASE drivers' = [drivers EXCEPT ![n] = d] /\ UNCHANGED pool
  <2>1. Mapped'
    BY <1>1, <1>2, <1>8 DEF PoolInv, Mapped
  <2>2. ASSUME NEW e \in Drivers, pool[e].open PROVE drivers'[pool[e].db] = e
    <3>1. CASE e = d
      BY <1>1, <1>2, <1>8, <3>1
    <3>2. CASE e # d
      <4>1. drivers[pool[e].db] = e /\ e # None /\ pool[e].db \in Names
        BY <1>1, <1>7, <2>2, <3>2, DriverPoolAssumption DEF Pool
      <4>2. pool[e].db # n
        BY <1>2, <4>1
      <4> QED BY <1>1, <1>8, <4>1, <4>2
    <3> QED BY <3>1, <3>2
  <2>3. Found'
    BY <1>8, <2>2 DEF Found
  <2> QED BY <1>6, <2>1, <2>3 DEF PoolInv
<1>9. CASE Shut(d) /\ UNCHANGED drivers
  <2>1. ~pool'[d].open /\ \A e \in Drivers \ {d} : pool'[e] = pool[e]
    BY <1>1, <1>2, <1>9 DEF Shut, Pool
  <2>2. \A m \in Names : drivers[m] # None => drivers[m] \in Drivers \ {d}
    BY <1>1, <1>2 DEF PoolInv, Mapped
  <2>3. Mapped'
    BY <1>9, <2>1, <2>2 DEF PoolInv, Mapped
  <2>4. Found'
    BY <1>7, <1>9, <2>1 DEF Found
  <2> QED BY <1>6, <2>3, <2>4 DEF PoolInv
<1> QED BY <1>8, <1>9 DEF PingNew, Want

\* DropDatabase takes the driver out of the map before anything else.
LEMMA EvictInv ==
  ASSUME PoolInv, TypeOK', NEW c \in Callers, Evict(c)
  PROVE  PoolInv'
<1> DEFINE n == call[c].name
           d == drivers[n]
<1>1. /\ call \in [Callers -> Call] /\ pool \in [Drivers -> Pool]
      /\ drivers \in [Names -> Drivers \cup {None}]
      /\ call[c].pc = "evict" /\ n \in Names /\ mu = None /\ mu' = mu
  BY DEF PoolInv, TypeOK, Call, Evict, At
<1>2. \A b \in Callers \ {c} : call[b].pc \notin Holding
  BY <1>1, OneHolder
<1>3. /\ call'[c].pc = "peek"
      /\ \A b \in Callers \ {c} : call'[b] = call[b]
  BY <1>1 DEF Evict, Goto, Call
<1>4. CASE d = None /\ UNCHANGED <<drivers, pool>>
  BY <1>1, <1>3, <1>4, CallerStep DEF Holding
<1>5. CASE d # None /\ Shut(d) /\ Drop(n)
  <2>1. \A b \in Callers : call'[b].pc \notin Holding
    BY <1>2, <1>3 DEF Holding
  <2>2. Holder' /\ \A b \in Callers : Fresh(b)'
    BY <1>1, <2>1, DriverPoolAssumption DEF Holder, Fresh, Holding
  <2>3. /\ drivers'[n] = None
        /\ \A m \in Names \ {n} : drivers'[m] = drivers[m]
    BY <1>1, <1>5 DEF Drop
  <2>4. /\ d \in Drivers /\ ~pool'[d].open /\ pool[d].db = n
        /\ \A e \in Drivers \ {d} : pool'[e] = pool[e]
    BY <1>1, <1>5 DEF Shut, Pool, PoolInv, Mapped
  <2>5. Mapped'
    <3>1. ASSUME NEW m \in Names, drivers'[m] # None
          PROVE  pool'[drivers'[m]].open /\ pool'[drivers'[m]].db = m
      <4>1. m # n /\ drivers'[m] = drivers[m] /\ drivers[m] \in Drivers
        BY <1>1, <2>3, <3>1
      <4>2. pool[drivers[m]].open /\ pool[drivers[m]].db = m
        BY <3>1, <4>1 DEF PoolInv, Mapped
      <4> QED BY <2>4, <4>1, <4>2
    <3> QED BY <3>1 DEF Mapped
  <2>6. Found'
    <3>1. ASSUME NEW e \in Drivers, pool'[e].open
          PROVE  drivers'[pool'[e].db] = e
      <4>1. e # d /\ pool'[e] = pool[e]
        BY <2>4, <3>1
      <4>2. drivers[pool[e].db] = e
        BY <1>1, <1>2, <3>1, <4>1 DEF PoolInv, Found, InHand, Holding
      <4>3. pool[e].db # n /\ pool[e].db \in Names
        BY <1>1, <4>1, <4>2 DEF Pool
      <4> QED BY <2>3, <4>1, <4>2, <4>3
    <3> QED BY <3>1 DEF Found
  <2> QED BY <2>2, <2>5, <2>6 DEF PoolInv
<1> QED BY <1>4, <1>5 DEF Evict

\* A context ends while its caller is anywhere, the mutex in its hand included.
LEMMA ContextEndsInv ==
  ASSUME PoolInv, TypeOK', NEW c \in Callers, ContextEnds(c)
  PROVE  PoolInv'
<1>1. \A b \in Callers : /\ call'[b].pc = call[b].pc /\ call'[b].drv = call[b].drv
                         /\ call'[b].want = call[b].want
  BY DEF ContextEnds, PoolInv, TypeOK, Call
<1>2. UNCHANGED <<drivers, pool, mu>>
  BY DEF ContextEnds
<1>3. Holder' /\ Mapped'
  BY <1>1, <1>2 DEF PoolInv, Holder, Mapped
<1>4. Found'
  BY <1>1, <1>2 DEF PoolInv, Found, InHand
<1>5. \A b \in Callers : Fresh(b)'
  BY <1>1, <1>2 DEF PoolInv, Fresh
<1> QED BY <1>3, <1>4, <1>5 DEF PoolInv

\* Close closes what is in the map, and with the mutex free that is all.
LEMMA CloseInv ==
  ASSUME PoolInv, TypeOK', Close
  PROVE  PoolInv'
<1>1. \A c \in Callers : call[c].pc \notin Holding
  BY DriverPoolAssumption DEF PoolInv, Holder, Close
<1>2. UNCHANGED <<mu, call>> /\ drivers' = [n \in Names |-> None]
  BY DEF Close
<1>3. Holder' /\ \A c \in Callers : Fresh(c)'
  BY <1>1, <1>2 DEF PoolInv, Holder, Fresh, Holding
<1>4. Mapped'
  BY <1>2 DEF Mapped
<1>5. \A d \in Drivers : ~pool'[d].open
  <2>1. TAKE d \in Drivers
  <2>2. pool \in [Drivers -> Pool] /\ pool[d].db \in Names
    BY DEF PoolInv, TypeOK, Pool
  <2>3. CASE \E n \in Names : drivers[n] = d
    BY <2>2, <2>3 DEF Close, Pool
  <2>4. CASE ~ \E n \in Names : drivers[n] = d
    <3>1. ~pool[d].open
      BY <1>1, <2>2, <2>4 DEF PoolInv, Found, InHand, Holding
    <3> QED BY <2>4, <3>1 DEF Close
  <2> QED BY <2>3, <2>4
<1>6. Found'
  BY <1>5 DEF Found
<1> QED BY <1>3, <1>4, <1>6 DEF PoolInv

\* The process starts with no pool, and every step keeps the invariant.
LEMMA InitInv == Init => PoolInv
BY InitTypes, DriverPoolAssumption
   DEF Init, PoolInv, Holder, Mapped, Found, Fresh, Holding, Idle

\* One case for each kind of step of Next.
LEMMA NextInv == PoolInv /\ [Next]_vars => PoolInv'
<1> SUFFICES ASSUME PoolInv, [Next]_vars PROVE PoolInv'
  OBVIOUS
<1>1. TypeOK'
  BY NextTypes DEF PoolInv
<1>2. CASE UNCHANGED vars
  BY <1>1, <1>2 DEF vars, PoolInv, Holder, Mapped, Found, Fresh, InHand
<1>3. ASSUME NEW c \in Callers, Get(c) PROVE PoolInv'
  BY <1>1, <1>3, OutsideInv, LockInv, RecheckInv, ConnectInv, PingNewInv DEF Get
<1>4. CASE Close
  BY <1>1, <1>4, CloseInv
<1> QED
  BY <1>1, <1>2, <1>3, <1>4, OutsideInv, EvictInv, ContextEndsInv DEF Next

\* However many callers get, drop, create and give up, and whatever the server
\* does, a database never has two open pools, and when the mutex of
\* MultiDatabaseManager is free the map leads to every open one
\* (GetDriver, multi_db.go:152-202).
THEOREM OnePool == Spec => []OnePoolPerDatabase
<1>1. Spec => []PoolInv
  BY InitInv, NextInv, PTL DEF Spec
<1> QED BY <1>1, PoolInvSuffices, PTL
----------------------------------------------------------------------------
\* A caller whose context lives, on a server that answers, closes only drivers
\* that are closed already or whose database is gone.
LEMMA SparingStep ==
  ASSUME PoolInv, ~ServerFails,
         NEW b \in Callers, NEW c \in Callers,
         Works(b), Get(c), ~call[c].over
  PROVE  pool'[call[b].drv].open
<1>. DEFINE d == call[b].drv
<1>1. d \in Drivers /\ pool[d].open /\ pool[d].db \in exists
  BY DEF Works, PoolInv, TypeOK, Call
<1>2. pool \in [Drivers -> Pool]
  BY DEF PoolInv, TypeOK
<1>3. ASSUME NEW e \in Drivers, pool[e].open, Misses(c, e), Shut(e)
      PROVE  pool'[d].open
  <2>1. pool[e].db \notin exists
    BY <1>3 DEF Misses, Reaches
  <2> QED BY <1>1, <1>2, <1>3, <2>1 DEF Shut
<1>4. CASE Peek(c) \/ Ping(c) \/ Lock(c)
  BY <1>1, <1>4 DEF Peek, Ping, Lock
<1>5. CASE Recheck(c)
  <2>1. Want(c) \in Names
    BY DEF PoolInv, TypeOK, Call, Want
  <2>2. CASE UNCHANGED pool
    BY <1>1, <2>2
  <2>3. ASSUME drivers[Want(c)] # None, Misses(c, drivers[Want(c)]),
               Shut(drivers[Want(c)])
        PROVE  pool'[d].open
    <3>1. drivers[Want(c)] \in Drivers /\ pool[drivers[Want(c)]].open
      BY <2>1, <2>3 DEF PoolInv, TypeOK, Mapped
    <3> QED BY <1>3, <2>3, <3>1
  <2> QED BY <1>5, <2>2, <2>3 DEF Recheck
<1>6. CASE Connect(c)
  BY <1>1, <1>2, <1>6 DEF Connect
<1>7. CASE PingNew(c)
  <2>1. call[c].drv \in Drivers /\ pool[call[c].drv].open
    BY <1>7 DEF PingNew, At, PoolInv, Fresh
  <2>2. CASE UNCHANGED pool
    BY <1>1, <2>2
  <2>3. CASE Misses(c, call[c].drv) /\ Shut(call[c].drv)
    BY <1>3, <2>1, <2>3
  <2> QED BY <1>7, <2>2, <2>3 DEF PingNew
<1> QED BY <1>4, <1>5, <1>6, <1>7 DEF Get

\* With a server that answers, no call of GetDriver whose own context lives
\* closes a driver another request works with, for any number of both: only an
\* ended context (multi_db.go:173) can do that.
THEOREM Sparing == ASSUME ~ServerFails PROVE Spec => LiveCallersSpareDrivers
<1>1. Spec => []PoolInv
  BY InitInv, NextInv, PTL DEF Spec
<1>2. ASSUME PoolInv, [Next]_vars
      PROVE  [\A b, c \in Callers :
                b # c /\ Works(b) /\ Get(c) /\ ~call[c].over
                  => pool'[call[b].drv].open]_vars
  BY <1>2, SparingStep
<1> QED BY <1>1, <1>2, PTL DEF Spec, LiveCallersSpareDrivers

----------------------------------------------------------------------------
(* Every step of the mutex, the pings and the map is a step of the registry *)
(* or none.                                                                 *)

\* A driver in the hand of a caller that pings it outside the mutex is one of
\* the database the caller asked for, whatever became of it since Peek.
Aimed(c) ==
  call[c].pc = "ping" =>
    call[c].drv \in Drivers /\ pool[call[c].drv].db = call[c].want

\* Without it a first ping that answers (multi_db.go:162-166) might hand out the
\* driver of another database.
RefInv == PoolInv /\ \A c \in Callers : Aimed(c)

\* Nobody pings a driver at the start.
LEMMA InitRefInv == Init => RefInv
BY InitInv DEF Init, RefInv, Aimed, Idle

\* A caller keeps the driver it pings, and Connect takes one in nobody's hand.
LEMMA AimedStays ==
  ASSUME RefInv, Next
  PROVE  \A b \in Callers : Aimed(b)'
<1> USE DEF RefInv
<1>0. /\ TypeOK
      /\ call \in [Callers -> Call] /\ pool \in [Drivers -> Pool]
      /\ drivers \in [Names -> Drivers \cup {None}]
  BY DEF PoolInv, TypeOK
<1>1. ASSUME NEW c \in Callers, Peek(c) PROVE \A b \in Callers : Aimed(b)'
  <2>0. Want(c) \in Names /\ drivers[Want(c)] \in Drivers \cup {None}
    BY <1>0 DEF Want, Call
  <2>1. PICK pc \in Pcs, d \in Drivers \cup {None} :
          /\ d = drivers[Want(c)] /\ pc = IF d = None THEN "lock" ELSE "ping"
          /\ call' = [call EXCEPT ![c].pc = pc, ![c].drv = d]
    BY <1>1, <2>0 DEF Peek, Pcs
  <2>2. /\ call'[c].pc = pc /\ call'[c].drv = d /\ call'[c].want = call[c].want
        /\ \A b \in Callers \ {c} : call'[b] = call[b]
    <3>1. /\ TypeOK /\ pc \in Pcs /\ d \in Drivers \cup {None}
          /\ call' = [call EXCEPT ![c].pc = pc, ![c].drv = d]
      BY <1>0, <2>1
    <3>2. call'[c].pc = pc
      BY <3>1, MovesTypes
    <3>3. call'[c].drv = d
      BY <1>0, <3>1 DEF Call
    <3>4. call'[c].want = call[c].want
      BY <3>1, MovesTypes
    <3>5. \A b \in Callers \ {c} : call'[b] = call[b]
      BY <3>1, MovesTypes
    <3> QED BY <3>2, <3>3, <3>4, <3>5
  <2>3. Aimed(c)'
    BY <1>1, <2>0, <2>1, <2>2 DEF PoolInv, Mapped, Aimed, Peek, Want
  <2> QED BY <1>1, <2>2, <2>3 DEF Aimed, Peek
<1>2. ASSUME NEW c \in Callers, Connect(c) PROVE \A b \in Callers : Aimed(b)'
  <2>1. PICK d \in Drivers :
          /\ \A b \in Callers \ {c} : call[b].drv # d
          /\ pool' = [pool EXCEPT ![d] = [open |-> TRUE, db |-> Want(c)]]
          /\ call' = [call EXCEPT ![c].pc = "pingnew", ![c].drv = d]
    BY <1>2 DEF Connect
  <2>2. /\ call'[c].pc = "pingnew"
        /\ \A b \in Callers \ {c} : call'[b] = call[b]
    BY <1>0, <2>1, MovesTypes DEF Pcs
  <2> QED BY <1>0, <2>1, <2>2 DEF Aimed
<1>3. ASSUME \A d \in Drivers : pool'[d].db = pool[d].db,
             \A b \in Callers : call'[b].pc = "ping" =>
               /\ call[b].pc = "ping"
               /\ call'[b].drv = call[b].drv /\ call'[b].want = call[b].want
      PROVE  \A b \in Callers : Aimed(b)'
  BY <1>3 DEF Aimed
<1>4. ASSUME NEW c \in Callers, Recheck(c) PROVE \A b \in Callers : Aimed(b)'
  <2>0. Want(c) \in Names /\ drivers[Want(c)] \in Drivers \cup {None}
    BY <1>0 DEF Want, Call
  <2>1. \A d \in Drivers : pool'[d].db = pool[d].db
    BY <1>0, <1>4, <2>0 DEF Recheck, Shut, Pool
  <2>2. /\ call'[c].pc \in {"connect", "using"}
        /\ \A b \in Callers \ {c} : call'[b] = call[b]
    <3>1. CASE Goto(c, "connect")
      BY <1>0, <3>1 DEF Goto, Call
    <3>2. CASE drivers[Want(c)] # None /\ Return(c, drivers[Want(c)])
      BY <1>0, <2>0, <3>2, MovesTypes DEF Return, Pcs
    <3> QED BY <1>4, <3>1, <3>2 DEF Recheck
  <2> QED BY <1>3, <2>1, <2>2
<1>5. ASSUME NEW c \in Callers, PingNew(c) PROVE \A b \in Callers : Aimed(b)'
  <2>1. \A d \in Drivers : pool'[d].db = pool[d].db
    BY <1>0, <1>5 DEF PingNew, Shut, Pool
  <2>2. /\ call'[c].pc \in {"using", "idle"}
        /\ \A b \in Callers \ {c} : call'[b] = call[b]
    BY <1>0, <1>5 DEF PingNew, Goto, End, Idle, Call
  <2> QED BY <1>3, <2>1, <2>2
<1>6. ASSUME NEW c \in Callers, Evict(c) PROVE \A b \in Callers : Aimed(b)'
  <2>1. \A d \in Drivers : pool'[d].db = pool[d].db
    BY <1>0, <1>6 DEF Evict, Shut, Pool
  <2>2. /\ call'[c].pc = "peek"
        /\ \A b \in Callers \ {c} : call'[b] = call[b]
    BY <1>0, <1>6 DEF Evict, Goto, Call
  <2> QED BY <1>3, <2>1, <2>2
<1>7. ASSUME NEW c \in Callers,
             \/ \E op \in Ops, n \in Names : Begin(c, op, n)
             \/ Ping(c) \/ Lock(c) \/ Execute(c) \/ Release(c)
      PROVE  \A b \in Callers : Aimed(b)'
  <2>1. UNCHANGED pool
    BY <1>7 DEF Begin, Ping, Lock, Execute, Release
  <2>2. /\ call'[c].pc \in {"evict", "peek", "using", "lock", "recheck", "idle"}
        /\ \A b \in Callers \ {c} : call'[b] = call[b]
    <3>1. ASSUME NEW op \in Ops, NEW n \in Names, Begin(c, op, n)
          PROVE  /\ call'[c].pc \in {"evict", "peek"}
                 /\ \A b \in Callers \ {c} : call'[b] = call[b]
      BY <1>0, <3>1 DEF Begin, Idle
    <3>2. ASSUME Ping(c) \/ Lock(c)
          PROVE  /\ call'[c].pc \in {"using", "lock", "recheck"}
                 /\ \A b \in Callers \ {c} : call'[b] = call[b]
      BY <1>0, <3>2 DEF Ping, Lock, Goto, Call
    <3>3. ASSUME Execute(c) \/ Release(c)
          PROVE  /\ call'[c].pc = "idle"
                 /\ \A b \in Callers \ {c} : call'[b] = call[b]
      BY <1>0, <3>3 DEF Execute, Release, End, Idle
    <3> QED BY <1>7, <3>1, <3>2, <3>3
  <2> QED BY <1>3, <2>1, <2>2
<1>8. ASSUME NEW c \in Callers, ContextEnds(c) PROVE \A b \in Callers : Aimed(b)'
  BY <1>0, <1>3, <1>8 DEF ContextEnds, Call
<1>9. CASE Close
  BY <1>0, <1>3, <1>9 DEF Close, Pool
<1> QED
  BY <1>1, <1>2, <1>4, <1>5, <1>6, <1>7, <1>8, <1>9 DEF Next, Get

\* The invariant of the refinement is inductive.
LEMMA NextRefInv == RefInv /\ [Next]_vars => RefInv'
<1>1. ASSUME RefInv, UNCHANGED vars PROVE RefInv'
  BY <1>1, NextInv DEF RefInv, Aimed, vars
<1>2. ASSUME RefInv, Next PROVE RefInv'
  BY <1>2, AimedStays, NextInv DEF RefInv
<1> QED BY <1>1, <1>2

----------------------------------------------------------------------------
\* What the registry sees of the pools.

OneEach(p) ==
  \A d, e \in Drivers : p[d].open /\ p[e].open /\ p[d].db = p[e].db => d = e

\* An open driver serves its database, and nothing else does.
LEMMA ServingOne ==
  ASSUME NEW p \in [Drivers -> Pool], OneEach(p)
  PROVE  /\ \A d \in Drivers : p[d].open => ServingIn(p)[p[d].db] = d
         /\ \A n \in Names : (\A d \in Drivers : p[d].open => p[d].db # n)
              => ServingIn(p)[n] = None
         /\ \A n \in Names : ServingIn(p)[n] # None =>
              /\ ServingIn(p)[n] \in Drivers
              /\ p[ServingIn(p)[n]].open /\ p[ServingIn(p)[n]].db = n
<1> DEFINE open(n) == {d \in Drivers : p[d].open /\ p[d].db = n}
<1>1. \A n \in Names :
        ServingIn(p)[n] = IF open(n) = {} THEN None ELSE CHOOSE d \in open(n) : TRUE
  BY DEF ServingIn, OneOf
<1>2. ASSUME NEW d \in Drivers, p[d].open PROVE ServingIn(p)[p[d].db] = d
  <2>1. p[d].db \in Names /\ open(p[d].db) = {d}
    BY <1>2 DEF Pool, OneEach
  <2> QED BY <1>1, <2>1
<1>3. ASSUME NEW n \in Names, \A d \in Drivers : p[d].open => p[d].db # n
      PROVE  ServingIn(p)[n] = None
  <2>1. open(n) = {}
    BY <1>3
  <2> QED BY <1>1, <2>1
<1>4. ASSUME NEW n \in Names, ServingIn(p)[n] # None
      PROVE  /\ ServingIn(p)[n] \in Drivers
             /\ p[ServingIn(p)[n]].open /\ p[ServingIn(p)[n]].db = n
  <2>1. PICK d \in Drivers : p[d].open /\ p[d].db = n
    BY <1>3, <1>4
  <2> QED BY <1>2, <2>1
<1> QED BY <1>2, <1>3, <1>4

\* Closing an open driver leaves its database without one.
LEMMA ServingLess ==
  ASSUME NEW p \in [Drivers -> Pool], OneEach(p), NEW d \in Drivers, p[d].open,
         NEW q, q = [p EXCEPT ![d].open = FALSE]
  PROVE  ServingIn(q) = [n \in Names |-> IF n = p[d].db THEN None ELSE ServingIn(p)[n]]
<1>1. \A e \in Drivers : q[e].db = p[e].db /\ (q[e].open <=> p[e].open /\ e # d)
  BY DEF Pool
<1>2. \A n \in Names : n # p[d].db =>
        {e \in Drivers : q[e].open /\ q[e].db = n} = {e \in Drivers : p[e].open /\ p[e].db = n}
  BY <1>1
<1>3. {e \in Drivers : q[e].open /\ q[e].db = p[d].db} = {}
  BY <1>1 DEF OneEach
<1>4. OneOf({}) = None
  BY DEF OneOf
<1>5. \A n \in Names : ServingIn(q)[n] = IF n = p[d].db THEN None ELSE ServingIn(p)[n]
  <2> TAKE n \in Names
  <2>1. CASE n = p[d].db
    BY <1>3, <1>4, <2>1 DEF ServingIn
  <2>2. CASE n # p[d].db
    BY <1>2, <2>2 DEF ServingIn
  <2> QED BY <2>1, <2>2
<1>6. ServingIn(q) = [n \in Names |-> ServingIn(q)[n]]
  BY DEF ServingIn
<1> QED BY <1>5, <1>6

\* Opening a driver gives its database one that had none.
LEMMA ServingMore ==
  ASSUME NEW p \in [Drivers -> Pool], OneEach(p),
         NEW d \in Drivers, ~p[d].open, NEW n \in Names, ServingIn(p)[n] = None,
         NEW q, q = [p EXCEPT ![d] = [open |-> TRUE, db |-> n]]
  PROVE  ServingIn(q) = [ServingIn(p) EXCEPT ![n] = d]
<1>1. \A e \in Drivers : e # d => q[e] = p[e]
  OBVIOUS
<1>2. q[d].open /\ q[d].db = n
  OBVIOUS
<1>3. \A e \in Drivers : p[e].open => p[e].db # n
  BY ServingOne, DriverPoolAssumption
<1>4. {e \in Drivers : q[e].open /\ q[e].db = n} = {d}
  BY <1>1, <1>2, <1>3
<1>5. \A m \in Names : m # n =>
        {e \in Drivers : q[e].open /\ q[e].db = m} = {e \in Drivers : p[e].open /\ p[e].db = m}
  BY <1>1, <1>2
<1>6. OneOf({d}) = d
  BY DEF OneOf
<1> QED BY <1>4, <1>5, <1>6 DEF ServingIn

\* A step of one caller is a step of its question, and of no other.
LEMMA AskedStep ==
  ASSUME NEW c \in Callers, call \in [Callers -> Call],
         call' \in [Callers -> Call],
         \A b \in Callers \ {c} : call'[b] = call[b]
  PROVE  /\ Asked[c] = AskedBy(call[c])
         /\ Asked' = [Asked EXCEPT ![c] = AskedBy(call'[c])]
BY DEF Asked

\* A caller that is still waiting, or still at rest, moves nothing it asked.
LEMMA Unasked ==
  ASSUME NEW c \in Callers, call \in [Callers -> Call],
         call' \in [Callers -> Call],
         \A b \in Callers \ {c} : call'[b] = call[b],
         AskedBy(call'[c]) = AskedBy(call[c])
  PROVE  Asked' = Asked
BY DEF Asked

Wanting == {"evict", "peek", "ping", "lock", "recheck", "connect", "pingnew"}

\* Where a caller is in GetDriver does not show as long as it waits.
LEMMA WaitingIsOne ==
  \A q \in Call : q.pc \in Wanting =>
    AskedBy(q) = [st |-> "waiting", name |-> q.want, driver |-> None]
BY DEF AskedBy, Wanting

\* What every step starts from.
LEMMA RefFacts ==
  ASSUME RefInv
  PROVE  /\ TypeOK /\ OneEach(pool)
         /\ call \in [Callers -> Call] /\ pool \in [Drivers -> Pool]
         /\ drivers \in [Names -> Drivers \cup {None}]
         /\ \A c \in Callers : call[c].want \in Names
<1>1. OneEach(pool)
  BY PoolInvSuffices DEF RefInv, OneEach, OnePoolPerDatabase
<1> QED BY <1>1 DEF RefInv, PoolInv, TypeOK, Call

\* What happens at the ends of a request.
LEMMA RefinesEnds ==
  ASSUME RefInv, RefInv', NEW c \in Callers,
         \/ \E op \in Ops, n \in Names : Begin(c, op, n)
         \/ Execute(c) \/ Release(c)
  PROVE  Registry!Next
<1>1. /\ call \in [Callers -> Call] /\ call' \in [Callers -> Call]
      /\ call'[c].want \in Names
  BY RefFacts DEF RefInv, PoolInv, TypeOK, Call
<1>2. Serving' = Serving
  BY DEF Begin, Execute, Release, Serving
<1>3. ASSUME NEW op \in Ops, NEW n \in Names, Begin(c, op, n)
      PROVE  Registry!Ask(c, call'[c].want)
  <2>1. call[c].pc = "idle" /\ call'[c].pc \in {"evict", "peek"}
    BY <1>1, <1>3 DEF Begin, At, Idle
  <2>2. \A b \in Callers \ {c} : call'[b] = call[b]
    BY <1>1, <1>3 DEF Begin
  <2>3. /\ AskedBy(call[c]) = Registry!NotAsked
        /\ AskedBy(call'[c]) = Registry!Waiting(call'[c].want)
    BY <2>1 DEF AskedBy, Registry!NotAsked, Registry!Waiting
  <2> QED BY <1>1, <1>2, <2>2, <2>3, AskedStep DEF Registry!Ask
<1>4. ASSUME Execute(c) \/ Release(c)
      PROVE  Registry!Finish(c)
  <2>1. call[c].pc = "using" /\ call'[c].pc = "idle"
    BY <1>1, <1>4 DEF Execute, Release, At, End, Idle
  <2>2. \A b \in Callers \ {c} : call'[b] = call[b]
    BY <1>1, <1>4 DEF Execute, Release, End
  <2>3. AskedBy(call[c]).st = "served" /\ AskedBy(call'[c]) = Registry!NotAsked
    BY <2>1 DEF AskedBy, Registry!NotAsked
  <2> QED BY <1>1, <1>2, <2>2, <2>3, AskedStep DEF Registry!Finish
<1> QED BY <1>1, <1>3, <1>4 DEF Registry!Next

\* The steps of GetDriver without the mutex, and taking it: the first ping may
\* answer, with the driver that serves the database, as it is open.
LEMMA RefinesOutside ==
  ASSUME RefInv, RefInv', NEW c \in Callers, Peek(c) \/ Ping(c) \/ Lock(c)
  PROVE  Registry!Next \/ UNCHANGED <<Serving, Asked>>
<1>1. call \in [Callers -> Call] /\ call' \in [Callers -> Call]
  BY DEF RefInv, PoolInv, TypeOK
<1>2. Serving' = Serving
  BY DEF Peek, Ping, Lock, Serving
<1>3. /\ call'[c].want = call[c].want
      /\ \A b \in Callers \ {c} : call'[b] = call[b]
  BY <1>1 DEF Peek, Ping, Lock, Goto, Call
<1>4. call[c].pc \in Wanting
  BY DEF Peek, Ping, Lock, At, Wanting
<1>5. CASE call'[c].pc \in Wanting
  <2>1. AskedBy(call'[c]) = AskedBy(call[c])
    BY <1>1, <1>3, <1>4, <1>5, WaitingIsOne
  <2> QED BY <1>1, <1>2, <1>3, <2>1, Unasked
<1>6. CASE Ping(c) /\ Reaches(c, call[c].drv) /\ Goto(c, "using")
  <2> DEFINE d == call[c].drv
  <2>1. d \in Drivers /\ pool[d].open /\ pool[d].db = call[c].want
    BY <1>6 DEF Ping, At, Reaches, RefInv, Aimed
  <2>2. Serving[call[c].want] = d
    BY <2>1, RefFacts, ServingOne DEF Serving
  <2>3. d # None /\ call[c].want \in Names
    BY <2>1, RefFacts, DriverPoolAssumption
  <2>4. call'[c].pc = "using" /\ call'[c].drv = d
    BY <1>1, <1>6 DEF Goto, Call
  <2>5. /\ AskedBy(call[c]) = Registry!Waiting(call[c].want)
        /\ AskedBy(call'[c]) = Registry!Served(call[c].want, d)
    <3>1. AskedBy(call[c]) = Registry!Waiting(call[c].want)
      BY <1>1, <1>4, WaitingIsOne DEF Registry!Waiting
    <3>2. AskedBy(call'[c]) = Registry!Served(call[c].want, d)
      BY <1>3, <2>4 DEF AskedBy, Registry!Served
    <3> QED BY <3>1, <3>2
  <2>6. Registry!Answer(c)
    BY <1>1, <1>2, <1>3, <2>2, <2>3, <2>5, AskedStep
       DEF Registry!Answer, Registry!Waiting
  <2> QED BY <2>6 DEF Registry!Next
<1>7. call'[c].pc \in Wanting \/ (Ping(c) /\ Reaches(c, call[c].drv) /\ Goto(c, "using"))
  BY <1>1 DEF Peek, Ping, Lock, Goto, Call, Wanting
<1> QED BY <1>5, <1>6, <1>7

\* Closing a driver that is in the map takes the database its driver.
LEMMA ClosingOne ==
  ASSUME RefInv, NEW d \in Drivers, pool[d].open, Shut(d)
  PROVE  Serving' = [n \in Names |-> IF n \in {pool[d].db} THEN None ELSE Serving[n]]
<1>1. pool \in [Drivers -> Pool] /\ OneEach(pool)
  BY RefFacts
<1>2. pool' = [pool EXCEPT ![d].open = FALSE]
  BY DEF Shut
<1>3. Serving' = ServingIn(pool') /\ Serving = ServingIn(pool)
  BY DEF Serving
<1>4. ServingIn(pool') =
        [n \in Names |-> IF n = pool[d].db THEN None ELSE ServingIn(pool)[n]]
  BY <1>1, <1>2, ServingLess
<1> QED BY <1>3, <1>4

\* The second look under the mutex.
LEMMA RefinesRecheck ==
  ASSUME RefInv, RefInv', NEW c \in Callers, Recheck(c)
  PROVE  Registry!Next \/ UNCHANGED <<Serving, Asked>>
<1> DEFINE d == drivers[Want(c)]
           n == call[c].want
<1>1. /\ call \in [Callers -> Call] /\ call' \in [Callers -> Call]
      /\ n \in Names /\ d \in Drivers \cup {None}
  BY RefFacts DEF RefInv, PoolInv, TypeOK, Want
<1>2. d # None => d \in Drivers /\ pool[d].open /\ pool[d].db = n
  BY <1>1 DEF RefInv, PoolInv, Mapped, Want
<1>3. call[c].pc = "recheck" /\ AskedBy(call[c]) = Registry!Waiting(n)
  BY <1>1, WaitingIsOne DEF Recheck, At, Wanting, Registry!Waiting
<1>4. ASSUME Goto(c, "connect") PROVE Asked' = Asked
  <2>1. /\ call'[c].pc = "connect" /\ call'[c].want = n
        /\ \A b \in Callers \ {c} : call'[b] = call[b]
    BY <1>1, <1>4 DEF Goto, Call
  <2>2. AskedBy(call'[c]) = AskedBy(call[c])
    BY <1>1, <1>3, <2>1, WaitingIsOne DEF Wanting
  <2> QED BY <1>1, <2>1, <2>2, Unasked
<1>5. CASE Goto(c, "connect") /\ UNCHANGED pool
  BY <1>4, <1>5 DEF Serving
<1>6. CASE d # None /\ Return(c, d) /\ UNCHANGED pool
  <2>1. Serving' = Serving
    BY <1>6 DEF Serving
  <2>2. Serving[n] = d /\ d # None
    BY <1>2, <1>6, RefFacts, ServingOne DEF Serving
  <2>3. TypeOK /\ "using" \in Pcs /\ d \in Drivers \cup {None}
    BY <1>1, RefFacts DEF Pcs
  <2>4. call' = [call EXCEPT ![c].pc = "using", ![c].drv = d]
    BY <1>6 DEF Return
  <2> HIDE DEF d
  <2>5. call'[c].pc = "using" /\ call'[c].want = n
    BY <2>3, <2>4, MovesTypes
  <2>6. call'[c].drv = d
    BY <1>1, <2>4 DEF Call
  <2>7. \A b \in Callers \ {c} : call'[b] = call[b]
    BY <2>3, <2>4, MovesTypes
  <2>8. AskedBy(call'[c]) = Registry!Served(n, d)
    BY <2>5, <2>6 DEF AskedBy, Registry!Served
  <2>9. Registry!Answer(c)
    BY <1>1, <1>3, <2>1, <2>2, <2>7, <2>8, AskedStep
       DEF Registry!Answer, Registry!Waiting
  <2> QED BY <2>9 DEF Registry!Next
<1>7. CASE d # None /\ Shut(d) /\ Goto(c, "connect")
  <2>1. Serving' = [m \in Names |-> IF m \in {n} THEN None ELSE Serving[m]]
    BY <1>2, <1>7, ClosingOne
  <2>2. Registry!Close({n})
    BY <1>4, <1>7, <2>1 DEF Registry!Close
  <2> QED BY <1>1, <2>2 DEF Registry!Next
<1> QED BY <1>5, <1>6, <1>7 DEF Recheck

\* A new driver, which nobody is given until it has answered.
LEMMA RefinesConnect ==
  ASSUME RefInv, RefInv', NEW c \in Callers, Connect(c)
  PROVE  Registry!Next
<1> DEFINE n == call[c].want
<1>1. /\ call \in [Callers -> Call] /\ call' \in [Callers -> Call]
      /\ n \in Names /\ pool \in [Drivers -> Pool] /\ OneEach(pool)
  BY RefFacts DEF RefInv, PoolInv, TypeOK
<1>2. PICK d \in Drivers :
        /\ ~pool[d].open
        /\ pool' = [pool EXCEPT ![d] = [open |-> TRUE, db |-> n]]
        /\ call' = [call EXCEPT ![c].pc = "pingnew", ![c].drv = d]
  BY DEF Connect, Want
<1>3. call[c].pc = "connect" /\ drivers[n] = None /\ mu = c
  BY DEF Connect, At, RefInv, PoolInv, Fresh, Holder, Holding
<1>4. \A e \in Drivers : pool[e].open => pool[e].db # n
  <2>1. ASSUME NEW e \in Drivers, pool[e].open, pool[e].db = n PROVE FALSE
    <3>1. \E b \in Callers : InHand(b, e)
      BY <1>3, <2>1, DriverPoolAssumption DEF RefInv, PoolInv, Found
    <3>2. \A b \in Callers : call[b].pc = "pingnew" => mu = b
      BY DEF RefInv, PoolInv, Holder, Holding
    <3> QED BY <1>3, <3>1, <3>2 DEF InHand
  <2> QED BY <2>1
<1>5. Serving[n] = None
  BY <1>1, <1>4, ServingOne DEF Serving
<1>6. Serving' = [Serving EXCEPT ![n] = d]
  <2>1. ServingIn(pool') = [ServingIn(pool) EXCEPT ![n] = d]
    BY <1>1, <1>2, <1>5, ServingMore DEF Serving
  <2> QED BY <2>1 DEF Serving
<1>7. \A m \in Names : Serving[m] # d
  BY <1>1, <1>2, ServingOne, DriverPoolAssumption DEF Serving
<1>8. Asked' = Asked
  <2>1. /\ TypeOK
        /\ call'[c].pc = "pingnew" /\ call'[c].want = n
        /\ \A b \in Callers \ {c} : call'[b] = call[b]
    BY <1>2, RefFacts, MovesTypes DEF Pcs
  <2>2. AskedBy(call'[c]) = AskedBy(call[c])
    BY <1>1, <1>3, <2>1, WaitingIsOne DEF Wanting
  <2> QED BY <1>1, <2>1, <2>2, Unasked
<1>9. Registry!Open(n, d)
  BY <1>5, <1>6, <1>7, <1>8 DEF Registry!Open
<1> QED BY <1>1, <1>9 DEF Registry!Next

\* The new driver answers, and is the caller's, or is closed with an error.
LEMMA RefinesPingNew ==
  ASSUME RefInv, RefInv', NEW c \in Callers, PingNew(c)
  PROVE  Registry!Next
<1> DEFINE d == call[c].drv
           n == call[c].want
<1>1. /\ call \in [Callers -> Call] /\ call' \in [Callers -> Call]
      /\ n \in Names /\ pool \in [Drivers -> Pool] /\ OneEach(pool)
  BY RefFacts DEF RefInv, PoolInv, TypeOK
<1>2. call[c].pc = "pingnew" /\ d \in Drivers /\ pool[d].open /\ pool[d].db = n
  BY DEF PingNew, At, RefInv, PoolInv, Fresh
<1>3. AskedBy(call[c]) = Registry!Waiting(n)
  BY <1>1, <1>2, WaitingIsOne DEF Wanting, Registry!Waiting
<1>4. Serving[n] = d /\ d # None
  BY <1>1, <1>2, ServingOne, DriverPoolAssumption DEF Serving
<1>5. CASE UNCHANGED pool /\ Goto(c, "using")
  <2>1. Serving' = Serving
    BY <1>5 DEF Serving
  <2>2. /\ call'[c].pc = "using" /\ call'[c].want = n /\ call'[c].drv = d
        /\ \A b \in Callers \ {c} : call'[b] = call[b]
    BY <1>1, <1>5 DEF Goto, Call
  <2>3. AskedBy(call'[c]) = Registry!Served(n, d)
    BY <2>2 DEF AskedBy, Registry!Served
  <2>4. Registry!Answer(c)
    BY <1>1, <1>3, <1>4, <2>1, <2>2, <2>3, AskedStep
       DEF Registry!Answer, Registry!Waiting
  <2> QED BY <2>4 DEF Registry!Next
<1>6. CASE Shut(d) /\ End(c)
  <2>1. Serving' = [m \in Names |-> IF m \in {n} THEN None ELSE Serving[m]]
    BY <1>2, <1>6, ClosingOne
  <2>2. Serving' = [Serving EXCEPT ![n] = None]
    BY <2>1 DEF Serving, ServingIn
  <2>3. /\ call'[c].pc = "idle"
        /\ \A b \in Callers \ {c} : call'[b] = call[b]
    BY <1>1, <1>6 DEF End, Idle
  <2>4. AskedBy(call'[c]) = Registry!NotAsked
    BY <2>3 DEF AskedBy, Registry!NotAsked
  <2>5. Registry!Fail(c)
    <3>1. Asked[c].st = "waiting" /\ Asked[c].name = n
      BY <1>1, <1>3, <2>3, AskedStep DEF Registry!Waiting
    <3>2. Asked' = [Asked EXCEPT ![c] = Registry!NotAsked]
      BY <1>1, <2>3, <2>4, AskedStep
    <3> QED BY <2>2, <3>1, <3>2 DEF Registry!Fail
  <2> QED BY <2>5 DEF Registry!Next
<1> QED BY <1>5, <1>6 DEF PingNew

\* DropDatabase gives up the driver, if there is one, before it asks.
LEMMA RefinesEvict ==
  ASSUME RefInv, RefInv', NEW c \in Callers, Evict(c)
  PROVE  Registry!Next \/ UNCHANGED <<Serving, Asked>>
<1> DEFINE n == call[c].name
           d == drivers[n]
<1>1. /\ call \in [Callers -> Call] /\ call' \in [Callers -> Call]
      /\ n \in Names /\ d \in Drivers \cup {None}
  BY RefFacts DEF RefInv, PoolInv, TypeOK, Call
<1>2. d # None => d \in Drivers /\ pool[d].open /\ pool[d].db = n
  BY <1>1 DEF RefInv, PoolInv, Mapped
<1>3. Asked' = Asked
  <2>1. /\ call[c].pc = "evict" /\ call'[c].pc = "peek"
        /\ call'[c].want = call[c].want
        /\ \A b \in Callers \ {c} : call'[b] = call[b]
    BY <1>1 DEF Evict, At, Goto, Call
  <2>2. AskedBy(call'[c]) = AskedBy(call[c])
    BY <1>1, <2>1, WaitingIsOne DEF Wanting
  <2> QED BY <1>1, <2>1, <2>2, Unasked
<1>4. CASE UNCHANGED pool
  BY <1>3, <1>4 DEF Serving
<1>5. CASE d # None /\ Shut(d)
  <2>1. Serving' = [m \in Names |-> IF m \in {n} THEN None ELSE Serving[m]]
    BY <1>2, <1>5, ClosingOne
  <2>2. Registry!Close({n})
    BY <1>3, <2>1 DEF Registry!Close
  <2> QED BY <1>1, <2>2 DEF Registry!Next
<1> QED BY <1>4, <1>5 DEF Evict

\* The end of a context does not show; the end of the process closes every
\* driver, as every open one is in the map when nobody holds the mutex.
LEMMA RefinesRest ==
  ASSUME RefInv, RefInv', Close \/ \E c \in Callers : ContextEnds(c)
  PROVE  Registry!Next \/ UNCHANGED <<Serving, Asked>>
<1>1. /\ call \in [Callers -> Call] /\ call' \in [Callers -> Call]
      /\ pool \in [Drivers -> Pool] /\ pool' \in [Drivers -> Pool]
      /\ OneEach(pool)
  BY RefFacts DEF RefInv, PoolInv, TypeOK
<1>2. ASSUME NEW c \in Callers, ContextEnds(c) PROVE UNCHANGED <<Serving, Asked>>
  <2>1. /\ call'[c].pc = call[c].pc /\ call'[c].want = call[c].want
        /\ call'[c].drv = call[c].drv
        /\ \A b \in Callers \ {c} : call'[b] = call[b]
    BY <1>1, <1>2 DEF ContextEnds, Call
  <2>2. AskedBy(call'[c]) = AskedBy(call[c])
    BY <2>1 DEF AskedBy
  <2> QED BY <1>1, <1>2, <2>1, <2>2, Unasked DEF ContextEnds, Serving
<1>3. ASSUME Close PROVE Registry!Close(Names)
  <2>1. \A d \in Drivers : ~pool'[d].open
    <3>1. \A d \in Drivers : pool[d].open => \E n \in Names : drivers[n] = d
      BY <1>1, <1>3, PoolInvSuffices
         DEF Close, RefInv, OnePoolPerDatabase, Pool
    <3> QED BY <1>1, <1>3, <3>1 DEF Close, Pool
  <2>2. \A n \in Names : ServingIn(pool')[n] = None
    BY <1>1, <2>1, ServingOne DEF OneEach
  <2>3. Serving' = [n \in Names |-> IF n \in Names THEN None ELSE Serving[n]]
    BY <2>2 DEF Serving, ServingIn
  <2>4. Asked' = Asked
    BY <1>3 DEF Close, Asked
  <2> QED BY <2>3, <2>4 DEF Registry!Close
<1> QED BY <1>2, <1>3 DEF Registry!Next

\* At the start no database is served and nobody asks; every step after it is
\* a step of the registry or leaves it as it is.
LEMMA RefinesInit == Init => Registry!Init
<1> SUFFICES ASSUME Init PROVE Registry!Init
  OBVIOUS
<1>1. pool \in [Drivers -> Pool] /\ \A d \in Drivers : ~pool[d].open
  BY InitTypes DEF Init, TypeOK
<1>2. \A n \in Names : Serving[n] = None
  BY <1>1, ServingOne DEF OneEach, Serving
<1>3. Serving = [n \in Names |-> None]
  BY <1>2 DEF Serving, ServingIn
<1>4. Asked = [c \in Callers |-> Registry!NotAsked]
  BY DEF Init, Idle, Asked, AskedBy, Registry!NotAsked
<1> QED BY <1>3, <1>4 DEF Registry!Init

\* One case for each kind of step of Next.
LEMMA RefinesNext ==
  ASSUME RefInv, RefInv', [Next]_vars
  PROVE  Registry!Next \/ UNCHANGED <<Serving, Asked>>
<1>1. CASE UNCHANGED vars
  BY <1>1 DEF vars, Serving, Asked
<1>2. ASSUME NEW c \in Callers, Get(c)
      PROVE  Registry!Next \/ UNCHANGED <<Serving, Asked>>
  BY <1>2, RefinesOutside, RefinesRecheck, RefinesConnect, RefinesPingNew DEF Get
<1> QED
  BY <1>1, <1>2, RefinesEnds, RefinesEvict, RefinesRest DEF Next

\* Whatever the callers, ended contexts, drops, a stumbling server and the
\* shutdown do, GetDriver (multi_db.go:152-202) hands out the one driver that
\* serves the database at that moment, or an error: the pools implement the
\* registry, but for the promise that it answers.
THEOREM Refinement == Spec => Registry!Safety
<1>1. RefInv /\ RefInv' /\ [Next]_vars => [Registry!Next]_(Registry!vars)
  BY RefinesNext DEF Registry!vars
<1> QED
  BY InitRefInv, NextRefInv, RefinesInit, <1>1, PTL DEF Spec, Registry!Safety
=============================================================================
