---------------------- MODULE ControllerServicesProofs ----------------------
(***************************************************************************)
(* Proofs about three services of the controller that share no state: the  *)
(* sessions (SessionService), for any set of devices, any number of        *)
(* connections and any timeouts; the metrics endpoint (PrometheusServer),  *)
(* for any number of clients and any lengths of requests and responses;    *)
(* and the measurement of its ticks (TickProfile), for any run that fits   *)
(* 64 bits, any capacity of the recorder and any windows asked for.        *)
(***************************************************************************)
EXTENDS SessionService, PrometheusServer, TickProfile, FiniteSetTheorems, WellFoundedInduction, TLAPS

----------------------------------------------------------------------------
(* SessionService                                                          *)
(*                                                                         *)
(* The safety invariants of the registry are inductive together: ending a  *)
(* connection erases the index entry of its device only because the index  *)
(* is the inverse of the bound sessions, and what was commanded is         *)
(* forgotten with it only because it was sent over that very session.      *)

SessionInv ==
    /\ SessionTypeOK
    /\ IndexInverse
    /\ CommandedOnThisSession
    /\ VictimsOverdue

\* The part of the type invariant that handlers of one connection can disturb.
RegistryTypeOK ==
    /\ DOMAIN sessions \subseteq 1..(next_conn - 1)
    /\ sessions \in [DOMAIN sessions -> Session]
    /\ DOMAIN device_index \subseteq Device
    /\ device_index \in [DOMAIN device_index -> Conn]
    /\ connections_closed \in [Reason -> Nat]
    /\ DOMAIN commanded \subseteq Device
    /\ commanded \in [DOMAIN commanded -> Conn]

RegistryOK == RegistryTypeOK /\ IndexInverse /\ CommandedOnThisSession

----------------------------------------------------------------------------
(* The helpers *)

LEMMA ConnBound ==
    ASSUME SessionTypeOK
    PROVE  DOMAIN sessions \subseteq Conn
  BY SessionConstants DEF SessionTypeOK, Conn

\* Counting the ends of finitely many connections keeps the counters natural.
LEMMA CountersType ==
    ASSUME NEW ended, IsFiniteSet(ended), connections_closed \in [Reason -> Nat],
           CountAndRelease(ended)
    PROVE  connections_closed' \in [Reason -> Nat]
<1>1. ASSUME NEW r \in Reason
      PROVE  connections_closed[r] + Cardinality({e \in ended : e[2] = r}) \in Nat
  <2>1. IsFiniteSet({e \in ended : e[2] = r})
    BY FS_Subset
  <2>2. Cardinality({e \in ended : e[2] = r}) \in Nat
    BY <2>1, FS_CardinalityType
  <2> QED BY <2>2
<1> QED BY <1>1 DEF CountAndRelease

\* A bound session and its device determine each other.
LEMMA BoundDevice ==
    ASSUME SessionTypeOK, IndexInverse, NEW c \in DOMAIN sessions, NEW d,
           d \in sessions[c].devices
    PROVE  /\ d \in DOMAIN device_index
           /\ device_index[d] = c
           /\ sessions[c].devices = {d}
  BY DEF SessionTypeOK, IndexInverse, Session

----------------------------------------------------------------------------
(* The end of one connection *)

LEMMA DisconnectPreserves ==
    ASSUME SessionInv, NEW c \in DOMAIN sessions, NEW reason \in Reason,
           Disconnect(c, reason), next_conn' = next_conn
    PROVE  RegistryOK'
<1> DEFINE ds == sessions[c].devices
<1>1. DevicesOf({c}) = ds
  BY DEF DevicesOf
<1>2. commanded' = Without(commanded, ds)
  <2>1. {e[1] : e \in {<<c, reason>>}} = {c}
    OBVIOUS
  <2> QED BY <2>1, <1>1 DEF Disconnect, CountAndRelease
<1>3. /\ sessions' = Without(sessions, {c})
      /\ device_index' = Without(device_index, ds)
  BY DEF Disconnect
<1>4. /\ sessions \in [DOMAIN sessions -> Session]
      /\ device_index \in [DOMAIN device_index -> Conn]
      /\ commanded \in [DOMAIN commanded -> Conn]
  BY DEF SessionInv, SessionTypeOK
<1>5. /\ DOMAIN sessions' = DOMAIN sessions \ {c}
      /\ \A x \in DOMAIN sessions \ {c} : sessions'[x] = sessions[x]
      /\ sessions' \in [DOMAIN sessions' -> Session]
  BY <1>3, <1>4 DEF Without
<1>6. /\ DOMAIN device_index' = DOMAIN device_index \ ds
      /\ \A x \in DOMAIN device_index \ ds : device_index'[x] = device_index[x]
      /\ device_index' \in [DOMAIN device_index' -> Conn]
  BY <1>3, <1>4 DEF Without
<1>7. /\ DOMAIN commanded' = DOMAIN commanded \ ds
      /\ \A x \in DOMAIN commanded \ ds : commanded'[x] = commanded[x]
      /\ commanded' \in [DOMAIN commanded' -> Conn]
  BY <1>2, <1>4 DEF Without
<1>8. \A d \in DOMAIN device_index : device_index[d] = c <=> d \in ds
  BY BoundDevice DEF SessionInv, IndexInverse
<1>9. RegistryTypeOK'
  <2>1. connections_closed' \in [Reason -> Nat]
    <3>1. IsFiniteSet({<<c, reason>>})
      BY FS_Singleton
    <3> QED BY <3>1, CountersType DEF SessionInv, SessionTypeOK, Disconnect
  <2> QED BY <2>1, <1>5, <1>6, <1>7 DEF RegistryTypeOK, SessionInv, SessionTypeOK
<1>10. IndexInverse'
  BY <1>5, <1>6, <1>8 DEF SessionInv, IndexInverse
<1>11. CommandedOnThisSession'
  <2> SUFFICES ASSUME NEW d \in DOMAIN commanded'
               PROVE  /\ d \in DOMAIN device_index'
                      /\ commanded'[d] = device_index'[d]
                      /\ sessions'[device_index'[d]].state = "active"
    BY DEF CommandedOnThisSession
  <2>1. /\ d \in DOMAIN commanded \ ds /\ d \in DOMAIN device_index
        /\ commanded[d] = device_index[d]
        /\ sessions[device_index[d]].state = "active"
    BY <1>7 DEF SessionInv, CommandedOnThisSession
  <2>2. device_index[d] \in DOMAIN sessions \ {c}
    BY <2>1, <1>8 DEF SessionInv, IndexInverse
  <2>3. /\ device_index'[d] = device_index[d]
        /\ commanded'[d] = commanded[d]
        /\ sessions'[device_index[d]] = sessions[device_index[d]]
    BY <2>1, <2>2, <1>5, <1>6, <1>7
  <2> QED BY <2>1, <2>3, <1>6
<1> QED BY <1>9, <1>10, <1>11 DEF RegistryOK

----------------------------------------------------------------------------
(* A registration *)

AtMostOne(S) == S = {} \/ \E x : S = {x}

\* The connection a registration evicts is bound to that very device, and
\* freeing it leaves no entry of the device behind.
LEMMA OccupantFreed ==
    ASSUME SessionInv, NEW c, InState(c, "handshaking"), NEW d \in Device
    PROVE  /\ Occupant(d) \subseteq DOMAIN sessions \ {c}
           /\ AtMostOne(Occupant(d))
           /\ DevicesOf(Occupant(d)) = {d} \cap DOMAIN device_index
           /\ DevicesOf(Occupant(d) \cup {c}) = {d} \cap DOMAIN device_index
           /\ \A x \in DOMAIN device_index :
                /\ device_index[x] # c
                /\ device_index[x] \in Occupant(d) <=> x = d
<1>1. c \in DOMAIN sessions /\ sessions[c].devices = {}
  BY DEF InState, SessionInv, IndexInverse
<1>2. \A x \in DOMAIN device_index :
        /\ device_index[x] \in DOMAIN sessions
        /\ sessions[device_index[x]].devices = {x}
  BY DEF SessionInv, IndexInverse
<1>3. \A x \in DOMAIN device_index : device_index[x] # c
  BY <1>1, <1>2
<1>4. CASE d \in DOMAIN device_index
  <2>1. Occupant(d) = {device_index[d]}
    BY <1>4 DEF Occupant
  <2>2. DevicesOf(Occupant(d)) = {d}
    BY <2>1, <1>2, <1>4 DEF DevicesOf
  <2>3. DevicesOf(Occupant(d) \cup {c}) = {d}
    BY <2>1, <1>2, <1>4, <1>1 DEF DevicesOf
  <2>4. AtMostOne(Occupant(d))
    BY <2>1 DEF AtMostOne
  <2> QED BY <2>1, <2>2, <2>3, <2>4, <1>2, <1>3, <1>4
<1>5. CASE d \notin DOMAIN device_index
  <2>1. Occupant(d) = {}
    BY <1>5 DEF Occupant
  <2>2. DevicesOf(Occupant(d)) = {} /\ DevicesOf(Occupant(d) \cup {c}) = {}
    BY <2>1, <1>1 DEF DevicesOf
  <2>3. AtMostOne(Occupant(d))
    BY <2>1 DEF AtMostOne
  <2> QED BY <2>1, <2>2, <2>3, <1>3, <1>5
<1> QED BY <1>4, <1>5

Ended(evicted, c, failures) ==
    {<<k, "kicked">> : k \in evicted} \cup {<<c, reason>> : reason \in failures}

\* The ends of at most one evicted connection and at most one failed one.
LEMMA EndedConnections ==
    ASSUME NEW evicted, NEW c, NEW failures
    PROVE  /\ failures = {} => {e[1] : e \in Ended(evicted, c, failures)} = evicted
           /\ failures # {} =>
                {e[1] : e \in Ended(evicted, c, failures)} = evicted \cup {c}
           /\ AtMostOne(evicted) /\ AtMostOne(failures) =>
                IsFiniteSet(Ended(evicted, c, failures))
<1> DEFINE A == {<<k, "kicked">> : k \in evicted}
           B == {<<c, reason>> : reason \in failures}
<1>1. /\ \A k \in evicted : <<k, "kicked">> \in A
      /\ \A e \in A : e[1] \in evicted
  OBVIOUS
<1>2. /\ \A r \in failures : <<c, r>> \in B
      /\ \A e \in B : e[1] = c /\ failures # {}
  OBVIOUS
<1>3. AtMostOne(evicted) => IsFiniteSet(A)
  <2>1. CASE evicted = {}
    <3>1. A = {}
      BY <2>1
    <3> QED BY <3>1, FS_EmptySet
  <2>2. ASSUME NEW k, evicted = {k}
        PROVE  IsFiniteSet(A)
    <3>1. A = {<<k, "kicked">>}
      BY <2>2
    <3> QED BY <3>1, FS_Singleton
  <2> QED BY <2>1, <2>2 DEF AtMostOne
<1>4. AtMostOne(failures) => IsFiniteSet(B)
  <2>1. CASE failures = {}
    <3>1. B = {}
      BY <2>1
    <3> QED BY <3>1, FS_EmptySet
  <2>2. ASSUME NEW r, failures = {r}
        PROVE  IsFiniteSet(B)
    <3>1. B = {<<c, r>>}
      BY <2>2
    <3> QED BY <3>1, FS_Singleton
  <2> QED BY <2>1, <2>2 DEF AtMostOne
<1>5. IsFiniteSet(A) /\ IsFiniteSet(B) => IsFiniteSet(A \cup B)
  BY FS_Union
<1> HIDE DEF A, B
<1>6. ASSUME NEW e \in A \cup B
      PROVE  e[1] \in evicted \/ (e[1] = c /\ failures # {})
  BY <1>1, <1>2
<1>7. /\ \A k \in evicted : \E e \in A \cup B : e[1] = k
      /\ failures # {} => \E e \in A \cup B : e[1] = c
  <2>1. \A k \in evicted : <<k, "kicked">> \in A \cup B /\ <<k, "kicked">>[1] = k
    BY <1>1
  <2>2. \A r \in failures : <<c, r>> \in A \cup B /\ <<c, r>>[1] = c
    BY <1>2
  <2> QED BY <2>1, <2>2
<1>8. /\ failures = {} => {e[1] : e \in A \cup B} = evicted
      /\ failures # {} => {e[1] : e \in A \cup B} = evicted \cup {c}
  BY <1>6, <1>7
<1> QED BY <1>3, <1>4, <1>5, <1>8 DEF A, B, Ended

LEMMA RegisterPreserves ==
    ASSUME SessionInv, NEW c \in Conn, NEW d \in Device,
           NEW sent \in {"ok", "encode_fail", "broken"},
           HandleRegisterRequest(c, d, sent)
    PROVE  RegistryOK'
<1> DEFINE kicked == Occupant(d)
           freed == Without(device_index, DevicesOf(kicked))
           failure == IF d \in DOMAIN freed THEN {"register_rejected"}
                      ELSE CASE sent = "ok" -> {}
                             [] sent = "encode_fail" -> {"internal_error"}
                             [] sent = "broken" -> {"transport"}
           remaining == Without(sessions, kicked)
           ended == Ended(kicked, c, failure)
<1>1. /\ InState(c, "handshaking")
      /\ CountAndRelease(ended)
      /\ next_conn' = next_conn
  BY DEF HandleRegisterRequest, Ended
<1>2. /\ kicked \subseteq DOMAIN sessions \ {c}
      /\ AtMostOne(kicked)
      /\ DevicesOf(kicked) = {d} \cap DOMAIN device_index
      /\ DevicesOf(kicked \cup {c}) = {d} \cap DOMAIN device_index
      /\ \A x \in DOMAIN device_index :
           device_index[x] # c /\ (device_index[x] \in kicked <=> x = d)
  BY <1>1, OccupantFreed
<1>3. /\ DOMAIN freed = DOMAIN device_index \ {d}
      /\ \A x \in DOMAIN freed : freed[x] = device_index[x]
  BY <1>2 DEF Without
<1>4. /\ DOMAIN remaining = DOMAIN sessions \ kicked
      /\ \A x \in DOMAIN remaining : remaining[x] = sessions[x]
  BY DEF Without
<1>5. AtMostOne(failure)
  BY DEF AtMostOne
<1>6. /\ IsFiniteSet(ended)
      /\ DevicesOf({e[1] : e \in ended}) = {d} \cap DOMAIN device_index
  <2> HIDE DEF kicked, failure
  <2>1. /\ failure = {} => {e[1] : e \in ended} = kicked
        /\ failure # {} => {e[1] : e \in ended} = kicked \cup {c}
        /\ AtMostOne(kicked) /\ AtMostOne(failure) => IsFiniteSet(ended)
    BY EndedConnections
  <2> QED BY <2>1, <1>2, <1>5
<1> DEFINE restricted == Without(commanded, {d} \cap DOMAIN device_index)
<1>7. /\ connections_closed' \in [Reason -> Nat]
      /\ DOMAIN commanded' = DOMAIN commanded \ {d}
      /\ \A x \in DOMAIN commanded' : commanded'[x] = commanded[x]
      /\ commanded' = [x \in DOMAIN commanded' |-> commanded'[x]]
  <2> HIDE DEF ended
  <2>1. connections_closed' \in [Reason -> Nat]
    BY <1>1, <1>6, CountersType DEF SessionInv, SessionTypeOK
  <2>2. commanded' = restricted
    BY <1>1, <1>6 DEF CountAndRelease
  <2>3. DOMAIN commanded \subseteq DOMAIN device_index
    BY DEF SessionInv, CommandedOnThisSession
  <2> QED BY <2>1, <2>2, <2>3 DEF Without
<1>a. /\ failure = {} => /\ sessions' = Put(remaining, c, BoundSession(d))
                         /\ device_index' = Put(freed, d, c)
      /\ failure # {} => /\ sessions' = Without(remaining, {c})
                         /\ device_index' = freed
  BY DEF HandleRegisterRequest
<1>b. device_index' = freed => device_index' = [x \in DOMAIN device_index' |-> device_index'[x]]
  BY DEF Without
<1> HIDE DEF kicked, freed, failure, remaining, ended, restricted
\* What commanded says of the other devices is not affected.
<1>8. \A x \in DOMAIN commanded' :
        /\ x \in DOMAIN freed /\ commanded'[x] = freed[x]
        /\ freed[x] \in DOMAIN remaining \ {c}
        /\ remaining[freed[x]].state = "active"
  <2> SUFFICES ASSUME NEW x \in DOMAIN commanded'
               PROVE  /\ x \in DOMAIN freed /\ commanded'[x] = freed[x]
                      /\ freed[x] \in DOMAIN remaining \ {c}
                      /\ remaining[freed[x]].state = "active"
    OBVIOUS
  <2>1. /\ x \in DOMAIN commanded \ {d} /\ commanded'[x] = commanded[x]
        /\ x \in DOMAIN device_index /\ commanded[x] = device_index[x]
        /\ device_index[x] \in DOMAIN sessions
        /\ sessions[device_index[x]].state = "active"
    BY <1>7 DEF SessionInv, CommandedOnThisSession, IndexInverse
  <2>2. x \in DOMAIN freed /\ freed[x] = device_index[x]
    BY <2>1, <1>3
  <2>3. device_index[x] \in DOMAIN remaining \ {c}
    BY <2>1, <1>2, <1>4
  <2> QED BY <2>1, <2>2, <2>3, <1>4
<1>9. /\ c \in DOMAIN remaining
      /\ \A x \in DOMAIN freed : freed[x] \in DOMAIN remaining \ {c}
      /\ DOMAIN sessions \subseteq 1..(next_conn - 1)
      /\ sessions \in [DOMAIN sessions -> Session]
      /\ DOMAIN device_index \subseteq Device
      /\ device_index \in [DOMAIN device_index -> Conn]
      /\ DOMAIN commanded \subseteq Device
      /\ commanded \in [DOMAIN commanded -> Conn]
  BY <1>1, <1>2, <1>3, <1>4 DEF InState, SessionInv, SessionTypeOK, IndexInverse
<1>10. CASE failure = {}
  <2>1. /\ sessions' = Put(remaining, c, BoundSession(d))
        /\ device_index' = Put(freed, d, c)
    BY <1>10, <1>a
  <2>2. /\ DOMAIN sessions' = DOMAIN sessions \ kicked
        /\ sessions'[c] = BoundSession(d)
        /\ \A x \in DOMAIN sessions' \ {c} : sessions'[x] = sessions[x]
        /\ sessions' = [x \in DOMAIN sessions' |-> sessions'[x]]
    BY <2>1, <1>4, <1>9 DEF Put
  <2>3. /\ DOMAIN device_index' = DOMAIN device_index \cup {d}
        /\ device_index'[d] = c
        /\ \A x \in DOMAIN device_index' \ {d} : device_index'[x] = device_index[x]
        /\ device_index' = [x \in DOMAIN device_index' |-> device_index'[x]]
    BY <2>1, <1>3 DEF Put
  <2>4. BoundSession(d) \in Session
    BY SessionConstants DEF BoundSession, Session, MaxSilence
  <2>5. RegistryTypeOK'
    BY <2>2, <2>3, <2>4, <1>1, <1>7, <1>9 DEF RegistryTypeOK
  <2>6. IndexInverse'
    <3>1. ASSUME NEW x \in DOMAIN device_index'
          PROVE  /\ device_index'[x] \in DOMAIN sessions'
                 /\ sessions'[device_index'[x]].devices = {x}
      <4>1. CASE x = d
        BY <4>1, <2>2, <2>3, <1>4, <1>9 DEF BoundSession
      <4>2. CASE x # d
        <5>1. /\ x \in DOMAIN freed /\ device_index'[x] = device_index[x]
              /\ freed[x] = device_index[x]
          BY <4>2, <2>3, <1>3
        <5>2. device_index[x] \in DOMAIN sessions' \ {c}
          BY <5>1, <1>9, <1>4, <2>2
        <5> QED BY <5>1, <5>2, <2>2, <1>3 DEF SessionInv, IndexInverse
      <4> QED BY <4>1, <4>2
    <3>2. ASSUME NEW x \in DOMAIN sessions'
          PROVE  IF sessions'[x].state = "handshaking" THEN sessions'[x].devices = {}
                 ELSE \E y \in DOMAIN device_index' : device_index'[y] = x
      BY <2>2, <2>3, <1>2 DEF BoundSession, SessionInv, IndexInverse
    <3> QED BY <3>1, <3>2 DEF IndexInverse
  <2>7. CommandedOnThisSession'
    BY <2>2, <2>3, <1>3, <1>4, <1>7, <1>8 DEF CommandedOnThisSession
  <2> QED BY <2>5, <2>6, <2>7 DEF RegistryOK
<1>11. CASE failure # {}
  <2>1. sessions' = Without(remaining, {c}) /\ device_index' = freed
    BY <1>11, <1>a
  <2>2. /\ DOMAIN sessions' = DOMAIN remaining \ {c}
        /\ \A x \in DOMAIN sessions' : sessions'[x] = sessions[x]
        /\ sessions' = [x \in DOMAIN sessions' |-> sessions'[x]]
    BY <2>1, <1>4 DEF Without
  <2>3. RegistryTypeOK'
    <3>1. sessions' \in [DOMAIN sessions' -> Session]
      BY <2>2, <1>4, <1>9
    <3>2. device_index' \in [DOMAIN device_index' -> Conn]
      BY <2>1, <1>b, <1>3, <1>9
    <3>3. commanded' \in [DOMAIN commanded' -> Conn]
      BY <1>7, <1>9
    <3>4. /\ DOMAIN sessions' \subseteq 1..(next_conn' - 1)
          /\ DOMAIN device_index' \subseteq Device
          /\ DOMAIN commanded' \subseteq Device
      BY <2>1, <2>2, <1>1, <1>3, <1>4, <1>7, <1>9
    <3> QED BY <3>1, <3>2, <3>3, <3>4, <1>7 DEF RegistryTypeOK
  <2>4. IndexInverse'
    <3>1. ASSUME NEW x \in DOMAIN device_index'
          PROVE  /\ device_index'[x] \in DOMAIN sessions'
                 /\ sessions'[device_index'[x]].devices = {x}
      <4>1. /\ x \in DOMAIN device_index /\ device_index'[x] = device_index[x]
            /\ device_index[x] \in DOMAIN sessions'
        BY <2>1, <2>2, <1>3, <1>9
      <4> QED BY <4>1, <2>2 DEF SessionInv, IndexInverse
    <3>2. ASSUME NEW x \in DOMAIN sessions'
          PROVE  IF sessions'[x].state = "handshaking" THEN sessions'[x].devices = {}
                 ELSE \E y \in DOMAIN device_index' : device_index'[y] = x
      <4>1. x \in DOMAIN sessions /\ x \notin kicked /\ sessions'[x] = sessions[x]
        BY <2>2, <1>4
      <4>2. CASE sessions[x].state = "handshaking"
        BY <4>1, <4>2 DEF SessionInv, IndexInverse
      <4>3. CASE sessions[x].state # "handshaking"
        <5>1. PICK y \in DOMAIN device_index : device_index[y] = x
          BY <4>1, <4>3 DEF SessionInv, IndexInverse
        <5>2. y \in DOMAIN freed /\ freed[y] = x
          BY <4>1, <5>1, <1>2, <1>3
        <5> QED BY <4>1, <4>3, <5>2, <2>1
      <4> QED BY <4>2, <4>3
    <3> QED BY <3>1, <3>2 DEF IndexInverse
  <2>5. CommandedOnThisSession'
    <3> SUFFICES ASSUME NEW x \in DOMAIN commanded'
                 PROVE  /\ x \in DOMAIN device_index'
                        /\ commanded'[x] = device_index'[x]
                        /\ sessions'[device_index'[x]].state = "active"
      BY DEF CommandedOnThisSession
    <3>1. freed[x] \in DOMAIN sessions'
      BY <2>2, <1>8
    <3> QED BY <3>1, <2>1, <2>2, <1>4, <1>8
  <2> QED BY <2>3, <2>4, <2>5 DEF RegistryOK
<1> QED BY <1>10, <1>11

----------------------------------------------------------------------------
(* Every step *)

\* Between the handlers of two events, and within a sweep, only the registry
\* changes: this is what remains to be shown of a step that keeps next_conn.
LEMMA InvFromRegistry ==
    ASSUME SessionInv, RegistryOK', next_conn' = next_conn, victims = {},
           victims' = victims
    PROVE  SessionInv'
  BY DEF SessionInv, RegistryOK, RegistryTypeOK, SessionTypeOK, VictimsOverdue

LEMMA SessionInitInv == SessionInit => SessionInv
  BY SessionConstants DEF SessionInit, SessionInv, SessionTypeOK, IndexInverse,
     CommandedOnThisSession, VictimsOverdue

\* A step that changes no session but in its state or silence.
LEMMA SeenPreserves ==
    ASSUME SessionInv, NEW c \in Conn, NEW state \in {"confirming", "active"},
           InState(c, state), Seen(c, "active"), victims = {},
           UNCHANGED <<device_index, next_conn, connections_closed, victims, commanded>>
    PROVE  SessionInv'
<1>1. /\ c \in DOMAIN sessions /\ sessions[c].state # "handshaking"
      /\ sessions \in [DOMAIN sessions -> Session]
  BY DEF InState, SessionInv, SessionTypeOK
<1>2. /\ DOMAIN sessions' = DOMAIN sessions
      /\ sessions' \in [DOMAIN sessions -> Session]
      /\ \A x \in DOMAIN sessions \ {c} : sessions'[x] = sessions[x]
      /\ sessions'[c].devices = sessions[c].devices
      /\ sessions'[c].state = "active"
  BY <1>1, SessionConstants DEF Seen, Session, MaxSilence
<1>3. IndexInverse'
  BY <1>1, <1>2 DEF SessionInv, IndexInverse
<1>4. CommandedOnThisSession'
  BY <1>1, <1>2 DEF SessionInv, CommandedOnThisSession, IndexInverse
<1>5. RegistryTypeOK'
  BY <1>2 DEF SessionInv, SessionTypeOK, RegistryTypeOK
<1> QED BY <1>3, <1>4, <1>5, InvFromRegistry DEF RegistryOK

LEMMA ConnectPreserves ==
    ASSUME SessionInv, Idle, OnConnected
    PROVE  SessionInv'
<1>1. /\ next_conn \in Conn /\ next_conn' = next_conn + 1
      /\ sessions' = Put(sessions, next_conn, NewSession)
      /\ UNCHANGED <<device_index, connections_closed, victims, commanded>>
      /\ victims = {}
  BY DEF OnConnected, Idle
<1>2. /\ next_conn \in Nat /\ next_conn \notin DOMAIN sessions
      /\ sessions \in [DOMAIN sessions -> Session]
  BY <1>1, SessionConstants DEF SessionInv, SessionTypeOK, Conn
<1>3. NewSession \in Session
  BY SessionConstants DEF NewSession, Session, MaxSilence
<1>4. /\ DOMAIN sessions' = DOMAIN sessions \cup {next_conn}
      /\ sessions' \in [DOMAIN sessions' -> Session]
      /\ sessions'[next_conn] = NewSession
      /\ \A x \in DOMAIN sessions : sessions'[x] = sessions[x]
  BY <1>1, <1>2, <1>3 DEF Put
<1>5. SessionTypeOK'
  BY <1>1, <1>2, <1>4, SessionConstants DEF SessionInv, SessionTypeOK, Conn
<1>6. IndexInverse'
  <2>1. NewSession.state = "handshaking" /\ NewSession.devices = {}
    BY DEF NewSession
  <2> QED BY <1>1, <1>4, <2>1 DEF SessionInv, IndexInverse
<1>7. CommandedOnThisSession'
  BY <1>1, <1>4 DEF SessionInv, CommandedOnThisSession, IndexInverse
<1>8. VictimsOverdue'
  BY <1>1 DEF VictimsOverdue
<1> QED BY <1>5, <1>6, <1>7, <1>8 DEF SessionInv

LEMMA SendPreserves ==
    ASSUME SessionInv, Idle, NEW d \in Device, NEW sent \in {"ok", "broken"},
           SendCommand(d, sent)
    PROVE  SessionInv'
<1>1. /\ d \in DOMAIN device_index /\ InState(device_index[d], "active")
      /\ UNCHANGED <<next_conn, victims>> /\ victims = {}
  BY DEF SendCommand, Idle
<1>2. CASE sent = "ok"
  <2>1. /\ commanded' = Put(commanded, d, device_index[d])
        /\ UNCHANGED <<sessions, device_index, connections_closed>>
    BY <1>2 DEF SendCommand
  <2>2. /\ DOMAIN commanded' = DOMAIN commanded \cup {d}
        /\ commanded'[d] = device_index[d]
        /\ \A x \in DOMAIN commanded \ {d} : commanded'[x] = commanded[x]
        /\ commanded' = [x \in DOMAIN commanded' |-> commanded'[x]]
    BY <2>1 DEF Put
  <2>3. commanded' \in [DOMAIN commanded' -> Conn]
    BY <2>2, <1>1 DEF SessionInv, SessionTypeOK
  <2>4. CommandedOnThisSession'
    BY <2>1, <2>2, <1>1 DEF SessionInv, CommandedOnThisSession, InState
  <2>5. RegistryTypeOK'
    BY <2>1, <2>2, <2>3, <1>1 DEF SessionInv, SessionTypeOK, RegistryTypeOK
  <2>6. IndexInverse'
    BY <2>1 DEF SessionInv, IndexInverse
  <2> QED BY <2>4, <2>5, <2>6, <1>1, InvFromRegistry DEF RegistryOK
<1>3. CASE sent = "broken"
  <2>1. device_index[d] \in DOMAIN sessions
    BY <1>1 DEF InState
  <2>2. Disconnect(device_index[d], "transport")
    BY <1>3 DEF SendCommand
  <2>3. RegistryOK'
    BY <2>1, <2>2, <1>1, DisconnectPreserves DEF Reason
  <2> QED BY <2>3, <1>1, InvFromRegistry
<1> QED BY <1>2, <1>3

\* Ending one victim leaves the others as overdue as they were.
LEMMA SweepDisconnectPreserves ==
    ASSUME SessionInv, NEW c \in Conn, NEW reason \in Reason,
           SweepDisconnect(c, reason)
    PROVE  SessionInv'
<1>1. /\ <<c, reason>> \in victims
      /\ victims' = victims \ {<<c, reason>>}
      /\ Disconnect(c, reason)
      /\ next_conn' = next_conn
  BY DEF SweepDisconnect
<1>2. reason \in {"handshake_expired", "liveness_expired"}
  BY <1>1 DEF SessionInv, SessionTypeOK
<1>3. c \in DOMAIN sessions
  BY <1>1, <1>2 DEF SessionInv, VictimsOverdue, InState
<1>4. RegistryOK'
  BY <1>1, <1>3, DisconnectPreserves
<1>5. \A r : <<c, r>> \notin victims'
  BY <1>1, <1>2 DEF SessionInv, SessionTypeOK, VictimsOverdue, InState
<1>6. \A x \in DOMAIN sessions \ {c} :
        x \in DOMAIN sessions' /\ sessions'[x] = sessions[x]
  BY <1>1 DEF Disconnect, Without
<1>7. VictimsOverdue'
  <2> SUFFICES ASSUME NEW x \in Conn
               PROVE  /\ <<x, "handshake_expired">> \in victims' =>
                           /\ InState(x, "handshaking")' \/ InState(x, "confirming")'
                           /\ sessions'[x].silence > HandshakeTimeout
                      /\ <<x, "liveness_expired">> \in victims' =>
                           /\ InState(x, "active")'
                           /\ sessions'[x].silence > LivenessTimeout
    BY DEF VictimsOverdue
  <2>1. CASE x = c
    BY <2>1, <1>5
  <2>2. CASE x # c
    BY <2>2, <1>1, <1>6 DEF SessionInv, VictimsOverdue, InState
  <2> QED BY <2>1, <2>2
<1>8. SessionTypeOK'
  BY <1>1, <1>4 DEF SessionInv, SessionTypeOK, RegistryOK, RegistryTypeOK
<1> QED BY <1>4, <1>7, <1>8 DEF SessionInv, RegistryOK

LEMMA SweepBeginPreserves ==
    ASSUME SessionInv, SweepBegin
    PROVE  SessionInv'
<1>1. /\ victims' = Expired
      /\ UNCHANGED <<sessions, device_index, next_conn, connections_closed, commanded>>
  BY DEF SweepBegin
<1>2. victims' \subseteq Conn \X {"handshake_expired", "liveness_expired"}
  BY <1>1, ConnBound DEF Expired, OverdueRegistrations, OverdueActive, SessionInv
<1>3. VictimsOverdue'
  <2>1. \A x \in DOMAIN sessions :
          InState(x, "handshaking") \/ InState(x, "confirming") \/ InState(x, "active")
    BY DEF SessionInv, SessionTypeOK, Session, InState
  <2> QED BY <1>1, <2>1 DEF VictimsOverdue, Expired, OverdueRegistrations,
                            OverdueActive, InState
<1>4. SessionTypeOK'
  BY <1>1, <1>2 DEF SessionInv, SessionTypeOK
<1> QED BY <1>1, <1>3, <1>4 DEF SessionInv, IndexInverse, CommandedOnThisSession

LEMMA ElapsePreserves ==
    ASSUME SessionInv, Idle, Elapse
    PROVE  SessionInv'
<1>1. UNCHANGED <<device_index, next_conn, connections_closed, victims, commanded>>
  BY DEF Elapse
<1>2. /\ DOMAIN sessions' = DOMAIN sessions
      /\ sessions' = [c \in DOMAIN sessions |-> sessions'[c]]
      /\ \A c \in DOMAIN sessions :
           sessions'[c] = [sessions[c] EXCEPT
                             !.silence = IF @ < MaxSilence THEN @ + 1 ELSE @]
  BY DEF Elapse
<1>3. ASSUME NEW c \in DOMAIN sessions
      PROVE  /\ sessions'[c] \in Session
             /\ sessions'[c].state = sessions[c].state
             /\ sessions'[c].devices = sessions[c].devices
  <2>1. sessions[c] \in Session
    BY DEF SessionInv, SessionTypeOK
  <2> QED BY <2>1, <1>2, SessionConstants DEF Session, MaxSilence
<1>4. RegistryTypeOK'
  BY <1>1, <1>2, <1>3 DEF SessionInv, SessionTypeOK, RegistryTypeOK
<1>5. IndexInverse'
  BY <1>1, <1>2, <1>3 DEF SessionInv, IndexInverse
<1>6. CommandedOnThisSession'
  BY <1>1, <1>2, <1>3 DEF SessionInv, CommandedOnThisSession, IndexInverse
<1> QED BY <1>1, <1>4, <1>5, <1>6, InvFromRegistry DEF RegistryOK, Idle

LEMMA SessionNextInv == SessionInv /\ [SessionNext]_sessionVars => SessionInv'
<1> SUFFICES ASSUME SessionInv, [SessionNext]_sessionVars
             PROVE  SessionInv'
  OBVIOUS
\* Any handler between two sweeps that ends one connection.
<1>1. ASSUME NEW c \in DOMAIN sessions, NEW reason \in Reason, Idle,
             Disconnect(c, reason), UNCHANGED <<next_conn, victims>>
      PROVE  SessionInv'
  BY <1>1, DisconnectPreserves, InvFromRegistry DEF Idle
<1>2. CASE Idle /\ OnConnected
  BY <1>2, ConnectPreserves
<1>3. ASSUME NEW c \in Conn, Idle, OnDisconnected(c)
      PROVE  SessionInv'
  BY <1>3, <1>1 DEF OnDisconnected, Reason
<1>4. ASSUME NEW c \in Conn, Idle, OnBadMessage(c)
      PROVE  SessionInv'
  BY <1>4, <1>1 DEF OnBadMessage, Reason
<1>5. ASSUME NEW c \in Conn, NEW reason \in {"register_rejected", "transport"}, Idle,
             RejectRegistration(c, reason)
      PROVE  SessionInv'
  BY <1>5, <1>1 DEF RejectRegistration, InState, Reason
<1>6. ASSUME NEW c \in Conn, NEW d \in Device,
             NEW sent \in {"ok", "encode_fail", "broken"}, Idle,
             HandleRegisterRequest(c, d, sent)
      PROVE  SessionInv'
  <2>1. UNCHANGED <<next_conn, victims>>
    BY <1>6 DEF HandleRegisterRequest
  <2> QED BY <2>1, <1>6, RegisterPreserves, InvFromRegistry DEF Idle
<1>7. ASSUME NEW c \in Conn, Idle, HandleRegisterAck(c)
      PROVE  SessionInv'
  BY <1>7, SeenPreserves DEF HandleRegisterAck, Idle
<1>8. ASSUME NEW c \in Conn, Idle, HandleActiveMessage(c)
      PROVE  SessionInv'
  BY <1>8, SeenPreserves DEF HandleActiveMessage, Idle
<1>9. ASSUME NEW d \in Device, NEW sent \in {"ok", "broken"}, Idle, SendCommand(d, sent)
      PROVE  SessionInv'
  BY <1>9, SendPreserves
<1>10. CASE Idle /\ SweepBegin
  BY <1>10, SweepBeginPreserves
<1>11. ASSUME NEW c \in Conn, NEW reason \in Reason, SweepDisconnect(c, reason)
       PROVE  SessionInv'
  BY <1>11, SweepDisconnectPreserves
<1>12. CASE Idle /\ Elapse
  BY <1>12, ElapsePreserves
<1>13. CASE UNCHANGED sessionVars
  BY <1>13 DEF sessionVars, SessionInv, SessionTypeOK, IndexInverse,
     CommandedOnThisSession, VictimsOverdue, InState
<1> QED BY <1>2, <1>3, <1>4, <1>5, <1>6, <1>7, <1>8, <1>9, <1>10, <1>11, <1>12, <1>13
        DEF SessionNext

----------------------------------------------------------------------------
(* The theorems *)

\* However connections come, register, evict each other, break and are swept, the
\* registry stays consistent: the types, the index as the inverse of the bound
\* sessions, and a sweep that ends only sessions that are overdue.
THEOREM RegistryConsistent ==
    SessionSpec => []SessionsConsistent
<1>1. SessionInv => SessionsConsistent
  BY DEF SessionInv, SessionsConsistent
<1> QED BY SessionInitInv, SessionNextInv, <1>1, PTL DEF SessionSpec

\* What the policy service believes it commanded a device was sent over the
\* device's present session (on_disconnected releases every bound device).
THEOREM CommandedOverPresentSession == SessionSpec => []CommandedOnThisSession
<1>1. SessionInv => CommandedOnThisSession
  BY DEF SessionInv
<1> QED BY SessionInitInv, SessionNextInv, <1>1, PTL DEF SessionSpec

\* A registration whose outcome can be sent always takes the device over: the
\* eviction has freed it, so binding cannot fail.
LEMMA RegistrationWins ==
    ASSUME SessionInv, NEW c \in Conn, NEW d \in Device,
           HandleRegisterRequest(c, d, "ok")
    PROVE  /\ device_index'[d] = c
           /\ connections_closed'["register_rejected"]
                = connections_closed["register_rejected"]
<1> DEFINE freed == Without(device_index, DevicesOf(Occupant(d)))
           ended == {<<k, "kicked">> : k \in Occupant(d)}
<1>1. d \notin DOMAIN freed
  <2>1. InState(c, "handshaking")
    BY DEF HandleRegisterRequest
  <2>2. DevicesOf(Occupant(d)) = {d} \cap DOMAIN device_index
    BY <2>1, OccupantFreed
  <2> QED BY <2>2 DEF Without
<1>2. /\ device_index' = Put(freed, d, c)
      /\ CountAndRelease(ended)
  <2>1. ended \cup {<<c, reason>> : reason \in {}} = ended
    OBVIOUS
  <2> QED BY <1>1, <2>1 DEF HandleRegisterRequest
<1>3. device_index'[d] = c
  BY <1>2 DEF Put
<1>4. Cardinality({e \in ended : e[2] = "register_rejected"}) = 0
  <2>1. {e \in ended : e[2] = "register_rejected"} = {}
    OBVIOUS
  <2> QED BY <2>1, FS_EmptySet
<1>5. connections_closed'["register_rejected"] = connections_closed["register_rejected"] + 0
  BY <1>2, <1>4 DEF CountAndRelease, Reason
<1>6. connections_closed["register_rejected"] \in Nat
  BY DEF SessionInv, SessionTypeOK, Reason
<1> QED BY <1>3, <1>5, <1>6

\* New wins (handle_register_request), in whatever stage the older session is.
THEOREM NewWinsAlways == SessionSpec => NewWins
<1>1. SessionInv /\ [SessionNext]_sessionVars =>
        [\A c \in Conn, d \in Device :
           Idle /\ HandleRegisterRequest(c, d, "ok") =>
              /\ device_index'[d] = c
              /\ connections_closed'["register_rejected"]
                   = connections_closed["register_rejected"]]_sessionVars
  BY RegistrationWins
<1> QED BY SessionInitInv, SessionNextInv, <1>1, PTL DEF SessionSpec, NewWins

----------------------------------------------------------------------------
(* Every connection is accounted for. *)

Closed(closed) ==
    closed["transport"] + closed["kicked"] + closed["handshake_expired"]
      + closed["liveness_expired"] + closed["register_rejected"]
      + closed["protocol"] + closed["internal_error"]

AccountingInv == SessionInv /\ EveryCloseCounted

LEMMA ClosedNat ==
    ASSUME SessionInv
    PROVE  \A r \in Reason : connections_closed[r] \in Nat
  BY DEF SessionInv, SessionTypeOK

\* Counting one end, or the end of an evicted connection and another one.
LEMMA OneCounted ==
    ASSUME SessionInv, NEW c, NEW r \in Reason, CountAndRelease({<<c, r>>})
    PROVE  Closed(connections_closed') = Closed(connections_closed) + 1
<1>1. ASSUME NEW x \in Reason
      PROVE  connections_closed'[x] = connections_closed[x] + IF x = r THEN 1 ELSE 0
  <2>1. CASE x = r
    <3>1. {e \in {<<c, r>>} : e[2] = x} = {<<c, r>>}
      BY <2>1
    <3>2. Cardinality({<<c, r>>}) = 1
      BY FS_Singleton
    <3> QED BY <2>1, <3>1, <3>2 DEF CountAndRelease
  <2>2. CASE x # r
    <3>1. {e \in {<<c, r>>} : e[2] = x} = {}
      BY <2>2
    <3> QED BY <2>2, <3>1, FS_EmptySet DEF CountAndRelease
  <2> QED BY <2>1, <2>2
<1> QED BY <1>1, ClosedNat DEF Closed, Reason

LEMMA TwoCounted ==
    ASSUME SessionInv, NEW k, NEW c, NEW r \in Reason \ {"kicked"},
           CountAndRelease({<<k, "kicked">>, <<c, r>>})
    PROVE  Closed(connections_closed') = Closed(connections_closed) + 2
<1> DEFINE ended == {<<k, "kicked">>, <<c, r>>}
<1>1. ASSUME NEW x \in Reason
      PROVE  connections_closed'[x]
               = connections_closed[x] + IF x \in {"kicked", r} THEN 1 ELSE 0
  <2>1. CASE x = "kicked"
    <3>1. {e \in ended : e[2] = x} = {<<k, "kicked">>}
      BY <2>1
    <3>2. Cardinality({<<k, "kicked">>}) = 1
      BY FS_Singleton
    <3> QED BY <2>1, <3>1, <3>2 DEF CountAndRelease
  <2>2. CASE x = r
    <3>1. {e \in ended : e[2] = x} = {<<c, r>>}
      BY <2>2
    <3>2. Cardinality({<<c, r>>}) = 1
      BY FS_Singleton
    <3> QED BY <2>2, <3>1, <3>2 DEF CountAndRelease
  <2>3. CASE x \notin {"kicked", r}
    <3>1. {e \in ended : e[2] = x} = {}
      BY <2>3
    <3> QED BY <2>3, <3>1, FS_EmptySet DEF CountAndRelease
  <2> QED BY <2>1, <2>2, <2>3
<1> QED BY <1>1, ClosedNat DEF Closed, Reason

LEMMA NoneCounted ==
    ASSUME SessionInv, CountAndRelease({})
    PROVE  Closed(connections_closed') = Closed(connections_closed)
<1>1. ASSUME NEW x \in Reason
      PROVE  connections_closed'[x] = connections_closed[x] + 0
  <2>1. {e \in {} : e[2] = x} = {}
    OBVIOUS
  <2> QED BY <2>1, FS_EmptySet DEF CountAndRelease
<1> QED BY <1>1, ClosedNat DEF Closed, Reason

LEMMA SessionsCount ==
    ASSUME SessionInv
    PROVE  /\ IsFiniteSet(DOMAIN sessions)
           /\ Cardinality(DOMAIN sessions) \in Nat
           /\ next_conn \in Nat
<1>1. IsFiniteSet(1..(next_conn - 1))
  <2>1. next_conn - 1 \in Int
    BY SessionConstants DEF SessionInv, SessionTypeOK
  <2> QED BY <2>1, FS_Interval
<1>2. IsFiniteSet(DOMAIN sessions)
  BY <1>1, FS_Subset DEF SessionInv, SessionTypeOK
<1> QED BY <1>2, FS_CardinalityType, SessionConstants DEF SessionInv, SessionTypeOK

LEMMA DisconnectCounted ==
    ASSUME AccountingInv, NEW c \in DOMAIN sessions, NEW reason \in Reason,
           Disconnect(c, reason), next_conn' = next_conn
    PROVE  EveryCloseCounted'
<1>1. DOMAIN sessions' = DOMAIN sessions \ {c}
  BY DEF Disconnect, Without
<1>2. Cardinality(DOMAIN sessions') = Cardinality(DOMAIN sessions) - 1
  BY <1>1, SessionsCount, FS_RemoveElement DEF AccountingInv
<1>3. Closed(connections_closed') = Closed(connections_closed) + 1
  BY OneCounted DEF AccountingInv, Disconnect
<1>4. /\ next_conn - 1 = Cardinality(DOMAIN sessions) + Closed(connections_closed)
      /\ Closed(connections_closed) \in Nat
  BY ClosedNat, SessionsCount DEF AccountingInv, EveryCloseCounted, Closed, Reason
<1>5. next_conn' - 1 = Cardinality(DOMAIN sessions') + Closed(connections_closed')
  BY <1>2, <1>3, <1>4, SessionsCount DEF AccountingInv
<1>6. \A r \in Reason : connections_closed'[r] \in Nat
  BY DisconnectPreserves DEF AccountingInv, RegistryOK, RegistryTypeOK
<1> QED BY <1>2, <1>5, <1>6, SessionsCount
        DEF AccountingInv, EveryCloseCounted, Closed, Reason

LEMMA RegisterCounted ==
    ASSUME AccountingInv, NEW c \in Conn, NEW d \in Device,
           NEW sent \in {"ok", "encode_fail", "broken"},
           HandleRegisterRequest(c, d, sent)
    PROVE  EveryCloseCounted'
<1> DEFINE kicked == Occupant(d)
           freed == Without(device_index, DevicesOf(kicked))
           failure == IF d \in DOMAIN freed THEN {"register_rejected"}
                      ELSE CASE sent = "ok" -> {}
                             [] sent = "encode_fail" -> {"internal_error"}
                             [] sent = "broken" -> {"transport"}
           n == Cardinality(DOMAIN sessions)
<1>0. SessionInv
  BY DEF AccountingInv
<1>1. /\ InState(c, "handshaking") /\ next_conn' = next_conn
      /\ CountAndRelease(Ended(kicked, c, failure))
  BY DEF HandleRegisterRequest, Ended
<1>2. c \in DOMAIN sessions /\ kicked \subseteq DOMAIN sessions \ {c} /\ AtMostOne(kicked)
  BY <1>0, <1>1, OccupantFreed DEF InState
<1>3. failure = {} \/ \E r \in Reason \ {"kicked"} : failure = {r}
  BY DEF Reason
<1>4. /\ failure = {} => DOMAIN sessions' = DOMAIN sessions \ kicked
      /\ failure # {} => DOMAIN sessions' = (DOMAIN sessions \ kicked) \ {c}
  <2>1. /\ failure = {} => sessions' = Put(Without(sessions, kicked), c, BoundSession(d))
        /\ failure # {} => sessions' = Without(Without(sessions, kicked), {c})
    BY DEF HandleRegisterRequest
  <2>2. DOMAIN Without(sessions, kicked) = DOMAIN sessions \ kicked
    BY DEF Without
  <2> HIDE DEF failure, kicked
  <2>3. ASSUME NEW map PROVE DOMAIN Put(map, c, BoundSession(d)) = DOMAIN map \cup {c}
                             /\ DOMAIN Without(map, {c}) = DOMAIN map \ {c}
    BY DEF Put, Without
  <2> QED BY <1>2, <2>1, <2>2, <2>3
<1>5. /\ IsFiniteSet(DOMAIN sessions) /\ n \in Nat
      /\ \A x \in DOMAIN sessions :
           /\ IsFiniteSet(DOMAIN sessions \ {x})
           /\ Cardinality(DOMAIN sessions \ {x}) = n - 1
  BY <1>0, SessionsCount, FS_RemoveElement
<1> HIDE DEF kicked, freed, failure
<1>6. \E ends \in Nat : /\ Cardinality(DOMAIN sessions') = n - ends
                        /\ Closed(connections_closed') = Closed(connections_closed) + ends
  <2>1. CASE kicked = {} /\ failure = {}
    <3>1. Ended(kicked, c, failure) = {}
      BY <2>1 DEF Ended
    <3>2. DOMAIN sessions' = DOMAIN sessions
      BY <2>1, <1>4
    <3>3. Closed(connections_closed') = Closed(connections_closed)
      BY <1>0, <1>1, <3>1, NoneCounted
    <3>4. Closed(connections_closed) \in Nat
      BY <1>0, ClosedNat DEF Closed, Reason
    <3> QED BY <1>5, <3>2, <3>3, <3>4
  <2>2. ASSUME NEW r \in Reason \ {"kicked"}, kicked = {}, failure = {r}
        PROVE  \E ends \in Nat : /\ Cardinality(DOMAIN sessions') = n - ends
                                 /\ Closed(connections_closed')
                                      = Closed(connections_closed) + ends
    <3>1. Ended(kicked, c, failure) = {<<c, r>>}
      BY <2>2 DEF Ended
    <3>2. DOMAIN sessions' = DOMAIN sessions \ {c}
      BY <2>2, <1>4
    <3>3. CountAndRelease({<<c, r>>})
      BY <1>1, <3>1
    <3>4. Closed(connections_closed') = Closed(connections_closed) + 1
      BY <1>0, <2>2, <3>3, OneCounted
    <3> QED BY <1>2, <1>5, <3>2, <3>4
  <2>3. ASSUME NEW k, kicked = {k}, failure = {}
        PROVE  \E ends \in Nat : /\ Cardinality(DOMAIN sessions') = n - ends
                                 /\ Closed(connections_closed')
                                      = Closed(connections_closed) + ends
    <3>1. Ended(kicked, c, failure) = {<<k, "kicked">>}
      BY <2>3 DEF Ended
    <3>2. DOMAIN sessions' = DOMAIN sessions \ {k} /\ k \in DOMAIN sessions
      BY <2>3, <1>2, <1>4
    <3>3. Closed(connections_closed') = Closed(connections_closed) + 1
      BY <1>0, <1>1, <3>1, OneCounted DEF Reason
    <3> QED BY <1>5, <3>2, <3>3
  <2>4. ASSUME NEW k, NEW r \in Reason \ {"kicked"}, kicked = {k}, failure = {r}
        PROVE  \E ends \in Nat : /\ Cardinality(DOMAIN sessions') = n - ends
                                 /\ Closed(connections_closed')
                                      = Closed(connections_closed) + ends
    <3>1. Ended(kicked, c, failure) = {<<k, "kicked">>, <<c, r>>}
      BY <2>4 DEF Ended
    <3>2. /\ DOMAIN sessions' = (DOMAIN sessions \ {k}) \ {c}
          /\ k \in DOMAIN sessions /\ c \in DOMAIN sessions \ {k}
      BY <2>4, <1>2, <1>4
    <3>3. Cardinality(DOMAIN sessions') = n - 2
      <4>1. Cardinality((DOMAIN sessions \ {k}) \ {c})
              = Cardinality(DOMAIN sessions \ {k}) - 1
        BY <1>5, <3>2, FS_RemoveElement
      <4> QED BY <1>5, <3>2, <4>1
    <3>4. Closed(connections_closed') = Closed(connections_closed) + 2
      <4>1. CountAndRelease({<<k, "kicked">>, <<c, r>>})
        BY <1>1, <3>1
      <4> QED BY <1>0, <2>4, <4>1, TwoCounted
    <3> QED BY <3>3, <3>4
  <2> QED BY <1>2, <1>3, <2>1, <2>2, <2>3, <2>4 DEF AtMostOne
<1>7. /\ next_conn - 1 = n + Closed(connections_closed)
      /\ Closed(connections_closed) \in Nat
  BY <1>0, ClosedNat, SessionsCount DEF AccountingInv, EveryCloseCounted, Closed, Reason
<1>8. next_conn' - 1 = Cardinality(DOMAIN sessions') + Closed(connections_closed')
  <2> HIDE DEF n
  <2> QED BY <1>0, <1>1, <1>5, <1>6, <1>7, SessionsCount
<1>9. /\ \A r \in Reason : connections_closed'[r] \in Nat
      /\ Cardinality(DOMAIN sessions') \in Int
  BY <1>0, <1>5, <1>6, RegisterPreserves DEF RegistryOK, RegistryTypeOK
<1> QED BY <1>8, <1>9 DEF EveryCloseCounted, Closed, Reason

\* A step that ends no connection and accepts none.
LEMMA NothingEnds ==
    ASSUME AccountingInv, DOMAIN sessions' = DOMAIN sessions,
           next_conn' = next_conn, connections_closed' = connections_closed
    PROVE  EveryCloseCounted'
  BY DEF AccountingInv, EveryCloseCounted

LEMMA AccountingStep == AccountingInv /\ [SessionNext]_sessionVars => EveryCloseCounted'
<1> SUFFICES ASSUME AccountingInv, [SessionNext]_sessionVars PROVE EveryCloseCounted'
  OBVIOUS
<1>0. SessionInv
  BY DEF AccountingInv
<1>1. CASE OnConnected
  <2>1. /\ DOMAIN sessions' = DOMAIN sessions \cup {next_conn}
        /\ next_conn' = next_conn + 1 /\ connections_closed' = connections_closed
        /\ next_conn \notin DOMAIN sessions
    BY <1>0, <1>1, SessionConstants
       DEF OnConnected, Put, SessionInv, SessionTypeOK
  <2>2. Cardinality(DOMAIN sessions') = Cardinality(DOMAIN sessions) + 1
    BY <1>0, <2>1, SessionsCount, FS_AddElement
  <2>3. \A r \in Reason : connections_closed[r] \in Nat
    BY <1>0, ClosedNat
  <2> QED BY <1>0, <2>1, <2>2, <2>3, SessionsCount
          DEF AccountingInv, EveryCloseCounted, Reason
<1>2. ASSUME NEW c \in Conn, OnDisconnected(c) \/ OnBadMessage(c)
      PROVE  EveryCloseCounted'
  BY <1>2, DisconnectCounted DEF OnDisconnected, OnBadMessage, Reason
<1>3. ASSUME NEW c \in Conn, NEW reason \in {"register_rejected", "transport"},
             RejectRegistration(c, reason)
      PROVE  EveryCloseCounted'
  BY <1>3, DisconnectCounted DEF RejectRegistration, InState, Reason
<1>4. ASSUME NEW c \in Conn, NEW d \in Device,
             NEW sent \in {"ok", "encode_fail", "broken"},
             HandleRegisterRequest(c, d, sent)
      PROVE  EveryCloseCounted'
  BY <1>4, RegisterCounted
<1>5. ASSUME NEW c \in Conn, HandleRegisterAck(c) \/ HandleActiveMessage(c)
      PROVE  EveryCloseCounted'
  BY <1>5, NothingEnds DEF HandleRegisterAck, HandleActiveMessage, Seen
<1>6. ASSUME NEW d \in Device, NEW sent \in {"ok", "broken"}, SendCommand(d, sent)
      PROVE  EveryCloseCounted'
  <2>1. CASE sent = "ok"
    BY <1>6, <2>1, NothingEnds DEF SendCommand
  <2>2. CASE sent = "broken"
    BY <1>6, <2>2, DisconnectCounted DEF SendCommand, InState, Reason
  <2> QED BY <2>1, <2>2
<1>7. CASE SweepBegin \/ Elapse \/ UNCHANGED sessionVars
  BY <1>7, NothingEnds DEF SweepBegin, Elapse, sessionVars
<1>8. ASSUME NEW c \in Conn, NEW reason \in Reason, SweepDisconnect(c, reason)
      PROVE  EveryCloseCounted'
  <2>1. <<c, reason>> \in victims
    BY <1>8 DEF SweepDisconnect
  <2>2. c \in DOMAIN sessions
    BY <1>0, <2>1 DEF SessionInv, SessionTypeOK, VictimsOverdue, InState
  <2> QED BY <1>8, <2>2, DisconnectCounted DEF SweepDisconnect
<1> QED BY <1>1, <1>2, <1>3, <1>4, <1>5, <1>6, <1>7, <1>8 DEF SessionNext

LEMMA AccountingInit == SessionInit => EveryCloseCounted
<1> SUFFICES ASSUME SessionInit PROVE EveryCloseCounted
  OBVIOUS
<1>1. Cardinality(DOMAIN sessions) = 0
  BY FS_EmptySet DEF SessionInit
<1> QED BY <1>1 DEF SessionInit, EveryCloseCounted, Reason

\* No end of a connection is missed or counted twice, however deeply it is nested: in a
\* registration that evicts one connection and then fails itself, in a sweep, or in the
\* sending of a command.
THEOREM ClosesAccounted == SessionSpec => []EveryCloseCounted
<1>1. SessionInit => AccountingInv
  BY SessionInitInv, AccountingInit DEF AccountingInv
<1>2. AccountingInv /\ [SessionNext]_sessionVars => AccountingInv'
  BY SessionNextInv, AccountingStep DEF AccountingInv
<1>3. AccountingInv => EveryCloseCounted
  BY DEF AccountingInv
<1> QED BY <1>1, <1>2, <1>3, PTL DEF SessionSpec

----------------------------------------------------------------------------
(* PrometheusServer                                                        *)
(*                                                                         *)
(* No connection is left waiting for an event that does not come.          *)

(* The inductive invariant *)

\* What the kernel holds of a connection was put there: nothing was read that was not
\* sent, and nothing of a response is counted twice.
CountsInv(c) ==
    /\ socket[c].in <= socket[c].sent
    /\ socket[c].out + socket[c].got <= ResponseLength
    /\ connections[c].state # "closed" => socket[c].out + socket[c].got <= connections[c].tx_pos

\* A connection is registered for what it waits for - except the one that is about to be.
InterestsInv(c) ==
    /\ connections[c].state \in {"absent", "backlog"} => connections[c].rx = 0
    /\ connections[c].state = "reading" => connections[c].interests = "read"
    /\ connections[c].state = "writing" /\ current # c => connections[c].interests = "write"
    /\ current = c => connections[c].state = "writing"

\* NoLostScrape, of one connection.
WaitsInv(c) ==
    (c \in Open /\ ready[c] = {} /\ current # c) =>
        /\ ~socket[c].broken
        /\ connections[c].state = "reading" =>
              socket[c].in = 0 /\ ~socket[c].fin /\ ~RequestComplete(c, connections[c])
        /\ connections[c].state = "writing" => socket[c].out = Room

ClientInv(c) == CountsInv(c) /\ InterestsInv(c) /\ WaitsInv(c)

\* BacklogReported, also while a connection is registered again.
BacklogInv == (listening /\ at # "accepting" /\ Backlog # {} /\ ~edge) => reported

PromInv == PromTypeOK /\ BacklogInv /\ \A c \in Client : ClientInv(c)

----------------------------------------------------------------------------
(* What steps have in common *)

LEMMA Lengths ==
    /\ NoClient \notin Client
    /\ RequestLength \in Nat \ {0} /\ Cap \in Nat \ {0} /\ ResponseLength \in Nat \ {0}
    /\ Room \in Nat \ {0} /\ MaxSent \in Nat
BY PrometheusConstants DEF PrometheusConstants

LEMMA LeastBound ==
    ASSUME NEW a \in Nat, NEW b \in Nat
    PROVE  Least(a, b) \in Nat /\ Least(a, b) <= a /\ Least(a, b) <= b
           /\ (Least(a, b) = a \/ Least(a, b) = b)
BY DEF Least

\* What one client has in the state, in types.
LEMMA ClientTyped ==
    ASSUME PromTypeOK, NEW c \in Client
    PROVE  /\ connections[c] \in Connection /\ socket[c] \in Socket
           /\ ready[c] \subseteq {"in", "out", "err"}
BY DEF PromTypeOK

\* A step that touches one connection keeps what holds of the others.
LEMMA OthersKeep ==
    ASSUME NEW c \in Client, \A d \in Client : ClientInv(d), ClientInv(c)',
           \A d \in Client \ {c} :
             /\ connections'[d] = connections[d] /\ socket'[d] = socket[d] /\ ready'[d] = ready[d]
             /\ current' = d <=> current = d
    PROVE  \A d \in Client : ClientInv(d)'
<1> SUFFICES ASSUME NEW d \in Client, d # c PROVE ClientInv(d)'
  OBVIOUS
<1>1. /\ connections'[d] = connections[d] /\ socket'[d] = socket[d] /\ ready'[d] = ready[d]
      /\ current' = d <=> current = d
      /\ ClientInv(d)
  OBVIOUS
<1> QED BY <1>1 DEF ClientInv, CountsInv, InterestsInv, WaitsInv, Open, RequestComplete

\* A closed connection asks for nothing.
LEMMA DropKeeps ==
    ASSUME PromInv, NEW c \in Client, NEW s \in Socket,
           s.in <= s.sent, s.out + s.got <= ResponseLength,
           Drop(c, s), current' # c,
           \A d \in Client \ {c} : current' = d <=> current = d
    PROVE  /\ connections' \in [Client -> Connection] /\ socket' \in [Client -> Socket]
           /\ ready' \in [Client -> SUBSET {"in", "out", "err"}]
           /\ Backlog' \subseteq Backlog
           /\ \A d \in Client : ClientInv(d)'
<1> USE DEF PromInv
<1>1. connections[c] \in Connection
  BY ClientTyped
<1>2. /\ ClosedConnection(connections[c]) \in Connection
      /\ ClosedConnection(connections[c]).state = "closed"
  BY <1>1 DEF ClosedConnection, Connection
<1>3. /\ ClosedSocket(s) \in Socket /\ ClosedSocket(s).in = s.in /\ ClosedSocket(s).sent = s.sent
      /\ ClosedSocket(s).got = s.got /\ ClosedSocket(s).out \in {0, s.out}
  BY Lengths DEF ClosedSocket, Socket
<1>4. /\ connections' \in [Client -> Connection] /\ socket' \in [Client -> Socket]
      /\ ready' \in [Client -> SUBSET {"in", "out", "err"}]
      /\ connections'[c] = ClosedConnection(connections[c]) /\ socket'[c] = ClosedSocket(s)
      /\ \A d \in Client \ {c} :
           connections'[d] = connections[d] /\ socket'[d] = socket[d] /\ ready'[d] = ready[d]
  BY <1>2, <1>3 DEF Drop, PromTypeOK
<1>5. ClientInv(c)'
  <2>1. CountsInv(c)'
    <3>1. s.out \in Nat /\ s.got \in Nat
      BY DEF Socket
    <3>2. ClosedSocket(s).out + ClosedSocket(s).got <= ResponseLength
      BY <1>3, <3>1, Lengths
    <3> QED BY <1>2, <1>3, <1>4, <3>2 DEF CountsInv
  <2>2. InterestsInv(c)' /\ WaitsInv(c)'
    BY <1>2, <1>4 DEF InterestsInv, WaitsInv, Open
  <2> QED BY <2>1, <2>2 DEF ClientInv
<1>6. Backlog' \subseteq Backlog
  BY <1>2, <1>4 DEF Backlog
<1> QED BY <1>4, <1>5, <1>6, OthersKeep

----------------------------------------------------------------------------
(* The invariant holds initially and is kept, action by action *)

LEMMA PromStarts == PromInit => PromInv
<1> SUFFICES ASSUME PromInit PROVE PromInv
  OBVIOUS
<1>1. 0 \in 0..Cap /\ 0 \in 0..ResponseLength /\ 0 \in 0..MaxSent /\ 0 \in 0..Room
  BY Lengths
<1>2. PromTypeOK
  <2>1. listening \in BOOLEAN /\ edge \in BOOLEAN /\ full \in BOOLEAN /\ reported \in BOOLEAN
    BY Zenon DEF PromInit
  <2> QED BY <1>1, <2>1 DEF PromInit, PromTypeOK, Connection, Socket
<1>3. Backlog = {}
  BY DEF PromInit, Backlog
<1>4. ASSUME NEW c \in Client PROVE ClientInv(c)
  <2>1. /\ connections[c].state = "absent" /\ connections[c].rx = 0 /\ connections[c].tx_pos = 0
        /\ socket[c].in = 0 /\ socket[c].sent = 0 /\ socket[c].out = 0 /\ socket[c].got = 0
        /\ current # c
    BY Lengths DEF PromInit
  <2> QED BY <2>1, Lengths DEF ClientInv, CountsInv, InterestsInv, WaitsInv, Open
<1> QED BY <1>2, <1>3, <1>4 DEF PromInv, BacklogInv

\* Steps that leave the connections alone.
LEMMA ListenerKeeps ==
    ASSUME PromInv, OnReady \/ AcceptNone \/ AcceptFails \/ DescriptorsChange
    PROVE  PromInv'
<1> USE DEF PromInv
<1>1. UNCHANGED <<connections, socket, ready, current, refused, listening>>
  BY DEF OnReady, AcceptNone, AcceptFails, DescriptorsChange
<1>2. edge' \in BOOLEAN /\ full' \in BOOLEAN /\ reported' \in BOOLEAN /\ listening' \in BOOLEAN
  <2>1. edge \in BOOLEAN /\ full \in BOOLEAN /\ reported \in BOOLEAN /\ listening \in BOOLEAN
    BY Zenon DEF PromTypeOK
  <2> QED BY <2>1, Zenon
          DEF OnReady, AcceptNone, AcceptFails, DescriptorsChange, ReportedFailure
<1>3. at' \in {"wait", "accepting", "modify"} /\ (at' = "modify" <=> current # NoClient)
  BY DEF OnReady, AcceptNone, AcceptFails, DescriptorsChange, PromTypeOK
<1>4. PromTypeOK'
  BY <1>1, <1>2, <1>3 DEF PromTypeOK
<1>5. BacklogInv'
  BY <1>1 DEF BacklogInv, Backlog, OnReady, AcceptNone, AcceptFails, DescriptorsChange,
              ReportedFailure
<1>6. ASSUME NEW c \in Client PROVE ClientInv(c)'
  BY <1>1 DEF ClientInv, CountsInv, InterestsInv, WaitsInv, Open, RequestComplete
<1> QED BY <1>4, <1>5, <1>6

LEMMA CloseKeeps ==
    ASSUME PromInv, Close \/ AcceptThrows
    PROVE  PromInv'
<1> USE DEF PromInv
<1>1. /\ EndOfServer /\ listening' = FALSE /\ edge' = FALSE
      /\ UNCHANGED <<full, reported, current, refused>>
      /\ at' = "wait" /\ current = NoClient
  BY DEF Close, AcceptThrows, EndOfServer, PromTypeOK
<1>2. ASSUME NEW c \in Client
      PROVE  /\ connections'[c] \in Connection /\ socket'[c] \in Socket
             /\ connections'[c].state \in {"absent", "closed"}
             /\ connections'[c].state = "absent" => connections'[c] = connections[c]
             /\ socket'[c].in = socket[c].in /\ socket'[c].sent = socket[c].sent
             /\ socket'[c].got = socket[c].got /\ socket'[c].out \in {0, socket[c].out}
             /\ connections'[c].state = "absent" => socket'[c] = socket[c]
  <2>1. connections[c] \in Connection /\ socket[c] \in Socket
    BY ClientTyped
  <2>2. connections'[c] = IF c \in Open \cup Backlog THEN ClosedConnection(connections[c])
                                                     ELSE connections[c]
    BY <1>1 DEF EndOfServer
  <2>3. socket'[c] = IF c \in Open THEN ClosedSocket(socket[c]) ELSE socket[c]
    BY <1>1 DEF EndOfServer
  <2>4. /\ ClosedConnection(connections[c]) \in Connection
        /\ ClosedConnection(connections[c]).state = "closed"
    BY <2>1 DEF ClosedConnection, Connection
  <2>5. /\ ClosedSocket(socket[c]) \in Socket
        /\ ClosedSocket(socket[c]).in = socket[c].in /\ ClosedSocket(socket[c]).sent = socket[c].sent
        /\ ClosedSocket(socket[c]).got = socket[c].got
        /\ ClosedSocket(socket[c]).out \in {0, socket[c].out}
    BY <2>1, Lengths DEF ClosedSocket, Socket
  <2>6. c \notin Open \cup Backlog => connections[c].state \in {"absent", "closed"}
    BY <2>1 DEF Open, Backlog, Connection
  <2> QED BY <2>1, <2>2, <2>3, <2>4, <2>5, <2>6
<1>3. PromTypeOK'
  <2>1. full' \in BOOLEAN /\ reported' \in BOOLEAN /\ listening' \in BOOLEAN /\ edge' \in BOOLEAN
    BY <1>1, Zenon DEF PromTypeOK
  <2>2. /\ connections' \in [Client -> Connection] /\ socket' \in [Client -> Socket]
        /\ ready' \in [Client -> SUBSET {"in", "out", "err"}]
    BY <1>1, <1>2 DEF EndOfServer
  <2> QED BY <1>1, <2>1, <2>2 DEF PromTypeOK
<1>4. ASSUME NEW c \in Client PROVE ClientInv(c)'
  <2>1. socket[c] \in Socket /\ CountsInv(c) /\ InterestsInv(c)
    BY ClientTyped DEF ClientInv
  <2>2. socket'[c].in <= socket'[c].sent /\ socket'[c].out + socket'[c].got <= ResponseLength
    <3>1. socket[c].out \in Nat /\ socket[c].got \in Nat
      BY <2>1 DEF Socket
    <3> QED BY <1>2, <2>1, <3>1, Lengths DEF CountsInv
  <2>3. current' # c
    BY <1>1, Lengths DEF PromTypeOK
  <2> QED BY <1>2, <2>1, <2>2, <2>3
          DEF ClientInv, CountsInv, InterestsInv, WaitsInv, Open
<1> QED BY <1>1, <1>3, <1>4 DEF BacklogInv

LEMMA AcceptKeeps ==
    ASSUME PromInv, NEW c \in Client, AcceptConnection(c)
    PROVE  PromInv'
<1> USE DEF PromInv
<1>1. /\ at = "accepting" /\ c \in Backlog /\ current = NoClient /\ NoClient # c
      /\ UNCHANGED <<listening, edge, full, reported, at, current>>
  BY Lengths DEF AcceptConnection, PromTypeOK
<1>2. /\ connections[c] \in Connection /\ socket[c] \in Socket /\ connections[c].state = "backlog"
      /\ ClientInv(c)
  BY <1>1, ClientTyped DEF Backlog
<1>3. CASE /\ connections' = [connections EXCEPT ![c].state = "reading", ![c].interests = "read"]
           /\ ready' = [ready EXCEPT ![c] = Polled(socket[c], "read")]
           /\ UNCHANGED <<socket, refused>>
  <2> DEFINE conn == [connections[c] EXCEPT !.state = "reading", !.interests = "read"]
  <2>1. /\ conn \in Connection /\ conn.state = "reading" /\ conn.interests = "read"
        /\ conn.rx = connections[c].rx /\ conn.tx_pos = connections[c].tx_pos
    BY <1>2 DEF Connection
  <2>2. connections'[c] = conn /\ \A d \in Client \ {c} : connections'[d] = connections[d]
    BY <1>3 DEF PromTypeOK
  <2> HIDE DEF conn
  <2>3. connections' \in [Client -> Connection]
    BY <1>3, <2>1, <2>2 DEF PromTypeOK
  <2>4. Polled(socket[c], "read") \subseteq {"in", "out", "err"}
    BY DEF Polled
  <2>5. /\ ready' \in [Client -> SUBSET {"in", "out", "err"}]
        /\ ready'[c] = Polled(socket[c], "read")
        /\ \A d \in Client \ {c} : ready'[d] = ready[d]
    BY <1>3, <2>4 DEF PromTypeOK
  <2>6. ClientInv(c)'
    <3>1. CountsInv(c)'
      BY <1>2, <1>3, <2>1, <2>2 DEF ClientInv, CountsInv
    <3>2. InterestsInv(c)'
      BY <1>1, <2>1, <2>2 DEF InterestsInv
    <3>3. connections'[c].rx = 0
      BY <1>2, <2>1, <2>2 DEF ClientInv, InterestsInv
    <3>4. ~RequestComplete(c, connections'[c])
      BY <3>3, Lengths DEF RequestComplete
    <3>5. ready'[c] = {} => ~socket[c].broken /\ ~(socket[c].in > 0) /\ ~socket[c].fin
      BY <2>5 DEF Polled
    <3>6. socket[c].in \in Nat
      BY <1>2, Lengths DEF Socket
    <3>7. WaitsInv(c)'
      BY <1>3, <2>1, <2>2, <3>4, <3>5, <3>6 DEF WaitsInv
    <3> QED BY <3>1, <3>2, <3>7 DEF ClientInv
  <2>7. \A d \in Client : ClientInv(d)'
    BY <1>1, <1>3, <2>2, <2>5, <2>6, OthersKeep
  <2>8. BacklogInv'
    BY <1>1 DEF BacklogInv
  <2> QED BY <1>1, <1>3, <2>3, <2>5, <2>7, <2>8 DEF PromTypeOK
<1>4. CASE Drop(c, socket[c]) /\ refused' = refused \cup {c}
  <2>1. /\ connections' \in [Client -> Connection] /\ socket' \in [Client -> Socket]
        /\ ready' \in [Client -> SUBSET {"in", "out", "err"}]
        /\ \A d \in Client : ClientInv(d)'
    BY <1>1, <1>2, <1>4, DropKeeps DEF ClientInv, CountsInv
  <2>2. BacklogInv'
    BY <1>1 DEF BacklogInv
  <2> QED BY <1>1, <1>4, <2>1, <2>2 DEF PromTypeOK
<1> QED BY <1>3, <1>4 DEF AcceptConnection

\* A response is sent as far as the socket takes it; if there is more of it, the connection
\* is about to be registered again.
LEMMA RespondKeeps ==
    ASSUME PromInv, NEW c \in Client, NEW conn \in Connection, NEW s \in Socket,
           at = "wait", c \in Open, connections[c].tx_pos = conn.tx_pos, conn.state = "writing",
           s.in <= s.sent, s.out = socket[c].out, s.got = socket[c].got,
           Respond(c, conn, s), UNCHANGED <<listening, edge, full, reported, refused>>
    PROVE  PromInv'
<1> USE DEF PromInv
<1> DEFINE n == Least(ResponseLength - conn.tx_pos, Room - s.out)
           rest == [conn EXCEPT !.tx_pos = @ + n]
           filled == [s EXCEPT !.out = @ + n]
<1>1. /\ conn.tx_pos \in 0..ResponseLength /\ s.out \in 0..Room /\ s.got \in 0..ResponseLength
      /\ s.out + s.got <= conn.tx_pos
  <2>1. s.out + s.got <= conn.tx_pos
    BY DEF ClientInv, CountsInv, Open
  <2> QED BY <2>1 DEF Connection, Socket
<1>2. /\ n \in Nat /\ conn.tx_pos + n \in 0..ResponseLength /\ s.out + n \in 0..Room
      /\ s.out + n + s.got <= conn.tx_pos + n
  BY <1>1, Lengths DEF Least
<1> HIDE DEF n
<1>3. /\ rest \in Connection /\ rest.tx_pos = conn.tx_pos + n /\ rest.state = "writing"
      /\ filled \in Socket /\ filled.out = s.out + n /\ filled.got = s.got
      /\ filled.in = s.in /\ filled.sent = s.sent
  BY <1>2 DEF Connection, Socket
<1>4. current = NoClient /\ NoClient # c
  BY Lengths DEF PromTypeOK
<1> HIDE DEF rest, filled
<1>5. CASE Drop(c, filled) /\ UNCHANGED <<at, current>>
  <2>1. filled.in <= filled.sent /\ filled.out + filled.got <= ResponseLength
    BY <1>1, <1>2, <1>3, Lengths
  <2>2. /\ connections' \in [Client -> Connection] /\ socket' \in [Client -> Socket]
        /\ ready' \in [Client -> SUBSET {"in", "out", "err"}]
        /\ Backlog' \subseteq Backlog
        /\ \A d \in Client : ClientInv(d)'
    BY <1>3, <1>4, <1>5, <2>1, DropKeeps
  <2>3. BacklogInv'
    BY <1>5, <2>2 DEF BacklogInv
  <2> QED BY <1>5, <2>2, <2>3 DEF PromTypeOK
<1>6. CASE /\ connections' = [connections EXCEPT ![c] = rest]
           /\ socket' = [socket EXCEPT ![c] = filled]
           /\ ready' = [ready EXCEPT ![c] = {}]
           /\ at' = "modify" /\ current' = c
  <2>1. /\ connections' \in [Client -> Connection] /\ socket' \in [Client -> Socket]
        /\ ready' \in [Client -> SUBSET {"in", "out", "err"}]
        /\ connections'[c] = rest /\ socket'[c] = filled
        /\ \A d \in Client \ {c} :
             connections'[d] = connections[d] /\ socket'[d] = socket[d] /\ ready'[d] = ready[d]
    BY <1>3, <1>6 DEF PromTypeOK
  <2>2. ClientInv(c)'
    <3>1. filled.out + filled.got <= rest.tx_pos /\ filled.out + filled.got <= ResponseLength
      BY <1>1, <1>2, <1>3, Lengths
    <3>2. CountsInv(c)'
      BY <1>3, <2>1, <3>1 DEF CountsInv
    <3> QED BY <1>3, <1>6, <2>1, <3>2 DEF ClientInv, InterestsInv, WaitsInv
  <2>3. \A d \in Client : ClientInv(d)'
    <3>1. \A d \in Client \ {c} : current' = d <=> current = d
      BY <1>4, <1>6, Lengths
    <3> QED BY <2>1, <2>2, <3>1, OthersKeep
  <2>4. Backlog' \subseteq Backlog
    BY <1>3, <2>1 DEF Backlog
  <2>5. BacklogInv'
    BY <2>4 DEF BacklogInv
  <2> QED BY <1>4, <1>6, <2>1, <2>3, <2>5 DEF PromTypeOK
<1>7. \/ Drop(c, filled) /\ UNCHANGED <<at, current>>
      \/ /\ connections' = [connections EXCEPT ![c] = rest]
         /\ socket' = [socket EXCEPT ![c] = filled]
         /\ ready' = [ready EXCEPT ![c] = {}]
         /\ at' = "modify" /\ current' = c
  BY Zenon DEF Respond, n, rest, filled
<1> QED BY <1>5, <1>6, <1>7

LEMMA OnConnectionEventKeeps ==
    ASSUME PromInv, NEW c \in Client, OnConnectionEvent(c)
    PROVE  PromInv'
<1> USE DEF PromInv
<1> DEFINE conn == connections[c]
           s == socket[c]
           fed == Received(conn, s)
           dry == Drained(s)
<1>1. /\ at = "wait" /\ c \in Open /\ UNCHANGED <<listening, edge, full, reported, refused>>
      /\ current = NoClient /\ NoClient # c
  BY Lengths DEF OnConnectionEvent, PromTypeOK
<1>2. conn \in Connection /\ s \in Socket /\ ClientInv(c)
  BY ClientTyped
<1>3. s.in <= s.sent /\ s.out + s.got <= ResponseLength /\ s.out + s.got <= conn.tx_pos
  BY <1>1, <1>2 DEF ClientInv, CountsInv, Open
<1>4. /\ fed \in Connection /\ fed.state = conn.state /\ fed.interests = conn.interests
      /\ fed.tx_pos = conn.tx_pos
  <2>1. Least(Cap, conn.rx + s.in) \in 0..Cap
    <3>1. conn.rx \in 0..Cap /\ s.in \in 0..MaxSent
      BY <1>2 DEF Connection, Socket
    <3> QED BY <3>1, Lengths DEF Least
  <2> QED BY <1>2, <2>1 DEF Received, Connection
<1>5. /\ dry \in Socket /\ dry.in = 0 /\ dry.sent = s.sent /\ dry.out = s.out /\ dry.got = s.got
      /\ dry.fin = s.fin /\ dry.broken = s.broken /\ dry.in <= dry.sent
  <2>1. dry.in = 0 /\ dry.sent = s.sent /\ dry.out = s.out /\ dry.got = s.got
        /\ dry.fin = s.fin /\ dry.broken = s.broken
    BY <1>2 DEF Drained, Socket
  <2>2. dry \in Socket
    BY <1>2, Lengths DEF Drained, Socket
  <2>3. s.sent \in Nat
    BY <1>2 DEF Socket
  <2> QED BY <2>1, <2>2, <2>3
<1>6. \/ Drop(c, s) /\ UNCHANGED <<at, current>>
      \/ Drop(c, dry) /\ UNCHANGED <<at, current>>
      \/ /\ ~s.broken /\ conn.state = "reading"
         /\ ~GivesUp(c, fed, s) /\ ~RequestComplete(c, fed)
         /\ connections' = [connections EXCEPT ![c] = fed]
         /\ socket' = [socket EXCEPT ![c] = dry]
         /\ ready' = [ready EXCEPT ![c] = {}]
         /\ UNCHANGED <<at, current>>
      \/ Respond(c, [fed EXCEPT !.state = "writing"], dry)
      \/ conn.state = "writing" /\ Respond(c, conn, s)
  BY DEF OnConnectionEvent
<1> HIDE DEF fed, dry
<1>7. ASSUME NEW x \in Socket, x.in <= x.sent, x.out + x.got <= ResponseLength,
             Drop(c, x), UNCHANGED <<at, current>>
      PROVE  PromInv'
  <2>1. /\ connections' \in [Client -> Connection] /\ socket' \in [Client -> Socket]
        /\ ready' \in [Client -> SUBSET {"in", "out", "err"}]
        /\ Backlog' \subseteq Backlog
        /\ \A d \in Client : ClientInv(d)'
    BY <1>1, <1>7, DropKeeps
  <2>2. BacklogInv'
    BY <1>1, <1>7, <2>1 DEF BacklogInv
  <2> QED BY <1>1, <1>7, <2>1, <2>2 DEF PromTypeOK
<1>8. CASE Drop(c, s) /\ UNCHANGED <<at, current>>
  BY <1>2, <1>3, <1>7, <1>8
<1>9. CASE Drop(c, dry) /\ UNCHANGED <<at, current>>
  BY <1>3, <1>5, <1>7, <1>9
<1>10. CASE /\ ~s.broken /\ conn.state = "reading"
            /\ ~GivesUp(c, fed, s) /\ ~RequestComplete(c, fed)
            /\ connections' = [connections EXCEPT ![c] = fed]
            /\ socket' = [socket EXCEPT ![c] = dry]
            /\ ready' = [ready EXCEPT ![c] = {}]
            /\ UNCHANGED <<at, current>>
  <2>1. /\ connections' \in [Client -> Connection] /\ socket' \in [Client -> Socket]
        /\ ready' \in [Client -> SUBSET {"in", "out", "err"}]
        /\ connections'[c] = fed /\ socket'[c] = dry
        /\ \A d \in Client \ {c} :
             connections'[d] = connections[d] /\ socket'[d] = socket[d] /\ ready'[d] = ready[d]
    BY <1>4, <1>5, <1>10 DEF PromTypeOK
  <2>2. ~s.fin
    BY <1>10 DEF GivesUp
  <2>3. CountsInv(c)'
    BY <1>3, <1>4, <1>5, <2>1 DEF CountsInv
  <2>4. InterestsInv(c)' /\ WaitsInv(c)'
    BY <1>1, <1>2, <1>4, <1>5, <1>10, <2>1, <2>2 DEF ClientInv, InterestsInv, WaitsInv
  <2>5. \A d \in Client : ClientInv(d)'
    BY <1>10, <2>1, <2>3, <2>4, OthersKeep DEF ClientInv
  <2>6. Backlog' \subseteq Backlog
    BY <1>4, <1>10, <2>1 DEF Backlog
  <2>7. BacklogInv'
    BY <1>1, <1>10, <2>6 DEF BacklogInv
  <2> QED BY <1>1, <1>10, <2>1, <2>5, <2>7 DEF PromTypeOK
<1>11. CASE Respond(c, [fed EXCEPT !.state = "writing"], dry)
  <2>1. /\ [fed EXCEPT !.state = "writing"] \in Connection
        /\ [fed EXCEPT !.state = "writing"].state = "writing"
        /\ [fed EXCEPT !.state = "writing"].tx_pos = conn.tx_pos
    BY <1>4 DEF Connection
  <2> QED BY <1>1, <1>5, <1>11, <2>1, RespondKeeps
<1>12. CASE conn.state = "writing" /\ Respond(c, conn, s)
  BY <1>1, <1>2, <1>3, <1>12, RespondKeeps
<1> QED BY <1>6, <1>8, <1>9, <1>10, <1>11, <1>12

LEMMA ModifyKeeps ==
    ASSUME PromInv, NEW c \in Client, current = c, Modify
    PROVE  PromInv'
<1> USE DEF PromInv
<1>1. /\ at = "modify" /\ at' = "wait" /\ current' = NoClient /\ NoClient \notin Client
      /\ UNCHANGED <<listening, edge, full, reported>>
  BY Lengths DEF Modify, PromTypeOK
<1>2. /\ connections[c] \in Connection /\ socket[c] \in Socket /\ ClientInv(c)
      /\ connections[c].state = "writing"
  BY ClientTyped DEF ClientInv, InterestsInv
<1>3. current' # c /\ \A d \in Client \ {c} : current' = d <=> current = d
  BY <1>1
<1>4. CASE /\ connections' = [connections EXCEPT ![c].interests = InterestsToWrite]
           /\ ready' = [ready EXCEPT ![c] = Polled(socket[c], InterestsToWrite)]
           /\ UNCHANGED <<socket, refused>>
  <2> DEFINE conn == [connections[c] EXCEPT !.interests = "write"]
  <2>1. /\ conn \in Connection /\ conn.state = "writing" /\ conn.interests = "write"
        /\ conn.tx_pos = connections[c].tx_pos
    BY <1>2 DEF Connection
  <2>2. connections'[c] = conn /\ \A d \in Client \ {c} : connections'[d] = connections[d]
    BY <1>4 DEF PromTypeOK, InterestsToWrite
  <2> HIDE DEF conn
  <2>3. connections' \in [Client -> Connection]
    BY <1>4, <2>1, <2>2 DEF PromTypeOK
  <2>4. Polled(socket[c], "write") \subseteq {"in", "out", "err"}
    BY DEF Polled
  <2>5. /\ ready' \in [Client -> SUBSET {"in", "out", "err"}]
        /\ ready'[c] = Polled(socket[c], "write")
        /\ \A d \in Client \ {c} : ready'[d] = ready[d]
    BY <1>4, <2>4 DEF PromTypeOK, InterestsToWrite
  <2>6. ready'[c] = {} => ~socket[c].broken /\ ~(socket[c].out < Room)
    BY <2>5 DEF Polled
  <2>7. socket[c].out \in 0..Room
    BY <1>2 DEF Socket
  <2>8. CountsInv(c)' /\ InterestsInv(c)'
    BY <1>2, <1>3, <1>4, <2>1, <2>2 DEF ClientInv, CountsInv, InterestsInv
  <2>9. WaitsInv(c)'
    <3>1. ready'[c] = {} => socket[c].out = Room
      BY <2>6, <2>7, Lengths
    <3>2. connections'[c].state = "writing" /\ socket'[c] = socket[c]
      BY <1>4, <2>1, <2>2
    <3> QED BY <2>6, <3>1, <3>2 DEF WaitsInv
  <2>10. \A d \in Client : ClientInv(d)'
    BY <1>3, <1>4, <2>2, <2>5, <2>8, <2>9, OthersKeep DEF ClientInv
  <2>11. Backlog' \subseteq Backlog
    BY <2>1, <2>2 DEF Backlog
  <2>12. BacklogInv'
    BY <1>1, <2>11 DEF BacklogInv
  <2> QED BY <1>1, <1>4, <2>3, <2>5, <2>10, <2>12 DEF PromTypeOK
<1>5. CASE Drop(c, socket[c]) /\ refused' = refused \cup {c}
  <2>1. /\ connections' \in [Client -> Connection] /\ socket' \in [Client -> Socket]
        /\ ready' \in [Client -> SUBSET {"in", "out", "err"}]
        /\ Backlog' \subseteq Backlog
        /\ \A d \in Client : ClientInv(d)'
    BY <1>2, <1>3, <1>5, DropKeeps DEF ClientInv, CountsInv
  <2>2. BacklogInv'
    BY <1>1, <2>1 DEF BacklogInv
  <2> QED BY <1>1, <1>5, <2>1, <2>2 DEF PromTypeOK
<1> QED BY <1>4, <1>5 DEF Modify

LEMMA ConnectKeeps ==
    ASSUME PromInv, NEW c \in Client, Connect(c)
    PROVE  PromInv'
<1> USE DEF PromInv
<1>1. /\ connections[c].state = "absent" /\ edge' = TRUE
      /\ connections' = [connections EXCEPT ![c].state = "backlog"]
      /\ UNCHANGED <<socket, ready, listening, full, reported, at, current, refused>>
  BY DEF Connect
<1>2. connections[c] \in Connection /\ ClientInv(c)
  BY ClientTyped
<1> DEFINE conn == [connections[c] EXCEPT !.state = "backlog"]
<1>3. /\ conn \in Connection /\ conn.state = "backlog" /\ conn.rx = connections[c].rx
      /\ conn.tx_pos = connections[c].tx_pos
  BY <1>2 DEF Connection
<1>4. connections'[c] = conn /\ \A d \in Client \ {c} : connections'[d] = connections[d]
  BY <1>1 DEF PromTypeOK
<1> HIDE DEF conn
<1>5. connections' \in [Client -> Connection]
  BY <1>1, <1>3, <1>4 DEF PromTypeOK
<1>6. ClientInv(c)'
  BY <1>1, <1>2, <1>3, <1>4 DEF ClientInv, CountsInv, InterestsInv, WaitsInv, Open
<1>7. \A d \in Client : ClientInv(d)'
  BY <1>1, <1>4, <1>6, OthersKeep
<1>8. BacklogInv'
  BY <1>1 DEF BacklogInv
<1>9. edge' \in BOOLEAN
  BY <1>1
<1> QED BY <1>1, <1>5, <1>7, <1>8, <1>9 DEF PromTypeOK

\* What peers do to their side of the connection: an event is raised if it is waited for.
LEMMA PeerKeeps ==
    ASSUME PromInv, NEW c \in Client, NEW s \in Socket, NEW e \in SUBSET {"in", "out", "err"},
           socket' \in [Client -> Socket], socket'[c] = s,
           \A d \in Client \ {c} : socket'[d] = socket[d],
           Raise(c, e),
           UNCHANGED <<connections, listening, edge, full, reported, at, current, refused>>,
           CountsInv(c)',
           c \in Open /\ current # c /\ e = {} =>
             /\ s.broken = socket[c].broken
             /\ connections[c].state = "reading" => s.in = socket[c].in /\ s.fin = socket[c].fin
             /\ connections[c].state = "writing" => s.out = socket[c].out
    PROVE  PromInv'
<1> USE DEF PromInv
<1>1. /\ ready' \in [Client -> SUBSET {"in", "out", "err"}]
      /\ c \in Open => ready'[c] = ready[c] \cup e
      /\ \A d \in Client \ {c} : ready'[d] = ready[d]
  BY DEF Raise, PromTypeOK
<1>2. ClientInv(c)
  OBVIOUS
<1>3. InterestsInv(c)'
  BY <1>2 DEF ClientInv, InterestsInv
<1>4. WaitsInv(c)'
  <2>1. SUFFICES ASSUME c \in Open, ready'[c] = {}, current # c
                 PROVE  /\ ~s.broken
                        /\ connections[c].state = "reading" =>
                              s.in = 0 /\ ~s.fin /\ ~RequestComplete(c, connections[c])
                        /\ connections[c].state = "writing" => s.out = Room
    BY DEF WaitsInv, Open, RequestComplete
  <2>2. e = {} /\ ready[c] = {}
    BY <1>1, <2>1
  <2> QED BY <1>2, <2>1, <2>2 DEF ClientInv, WaitsInv
<1>5. \A d \in Client : ClientInv(d)'
  BY <1>1, <1>3, <1>4, OthersKeep DEF ClientInv
<1>6. BacklogInv'
  BY DEF BacklogInv, Backlog
<1> QED BY <1>1, <1>5, <1>6 DEF PromTypeOK

LEMMA PeerSendsKeeps ==
    ASSUME PromInv, NEW c \in Client, PeerSends(c)
    PROVE  PromInv'
<1> DEFINE s == [socket[c] EXCEPT !.in = @ + 1, !.sent = @ + 1]
           e == IF connections[c].interests = "read" THEN {"in"} ELSE {}
<1>1. /\ socket[c] \in Socket /\ connections[c] \in Connection /\ ClientInv(c) /\ PromTypeOK
      /\ socket[c].sent < MaxSent
      /\ UNCHANGED <<connections, listening, edge, full, reported, at, current, refused>>
  BY ClientTyped DEF PromInv, PeerSends
<1>2. /\ socket[c].in \in 0..MaxSent /\ socket[c].sent \in 0..MaxSent /\ socket[c].in <= socket[c].sent
  BY <1>1 DEF ClientInv, CountsInv, Socket
<1>3. socket[c].in + 1 \in 0..MaxSent /\ socket[c].sent + 1 \in 0..MaxSent
      /\ socket[c].in + 1 <= socket[c].sent + 1
  BY <1>1, <1>2, Lengths
<1>4. /\ s \in Socket /\ s.in = socket[c].in + 1 /\ s.sent = socket[c].sent + 1
      /\ s.broken = socket[c].broken /\ s.out = socket[c].out /\ s.got = socket[c].got
  BY <1>1, <1>3 DEF Socket
<1>5. socket'[c] = s /\ \A d \in Client \ {c} : socket'[d] = socket[d]
  BY <1>1 DEF PeerSends, PromTypeOK
<1>6. socket' \in [Client -> Socket]
  BY <1>1, <1>4, <1>5 DEF PeerSends, PromTypeOK
<1>7. CountsInv(c)'
  <2>1. socket'[c].in <= socket'[c].sent
    BY <1>3, <1>4, <1>5
  <2> QED BY <1>1, <1>4, <1>5, <2>1 DEF ClientInv, CountsInv
<1>8. Raise(c, e) /\ e \subseteq {"in", "out", "err"}
  BY DEF PeerSends
<1>9. connections[c].state = "reading" => e # {}
  BY <1>1 DEF ClientInv, InterestsInv
<1> HIDE DEF s, e
<1> QED BY <1>1, <1>4, <1>5, <1>6, <1>7, <1>8, <1>9, PeerKeeps

LEMMA PeerClosesKeeps ==
    ASSUME PromInv, NEW c \in Client, PeerCloses(c)
    PROVE  PromInv'
<1> DEFINE s == [socket[c] EXCEPT !.fin = TRUE]
           e == IF connections[c].interests = "read" THEN {"in"} ELSE {}
<1>1. /\ socket[c] \in Socket /\ ClientInv(c) /\ PromTypeOK
      /\ UNCHANGED <<connections, listening, edge, full, reported, at, current, refused>>
  BY ClientTyped DEF PromInv, PeerCloses
<1>2. /\ s \in Socket /\ s.in = socket[c].in /\ s.sent = socket[c].sent
      /\ s.broken = socket[c].broken /\ s.out = socket[c].out /\ s.got = socket[c].got
  BY <1>1 DEF Socket
<1>3. socket'[c] = s /\ \A d \in Client \ {c} : socket'[d] = socket[d]
  BY <1>1 DEF PeerCloses, PromTypeOK
<1>4. socket' \in [Client -> Socket]
  BY <1>1, <1>2, <1>3 DEF PeerCloses, PromTypeOK
<1>5. Raise(c, e) /\ e \subseteq {"in", "out", "err"}
  BY DEF PeerCloses
<1>6. connections[c].state = "reading" => e # {}
  BY <1>1 DEF ClientInv, InterestsInv
<1> HIDE DEF s, e
<1>7. CountsInv(c)'
  BY <1>1, <1>2, <1>3 DEF ClientInv, CountsInv
<1> QED BY <1>1, <1>2, <1>3, <1>4, <1>5, <1>6, <1>7, PeerKeeps

LEMMA PeerBreaksKeeps ==
    ASSUME PromInv, NEW c \in Client, PeerBreaks(c)
    PROVE  PromInv'
<1> DEFINE s == [socket[c] EXCEPT !.broken = TRUE]
<1>1. /\ socket[c] \in Socket /\ ClientInv(c) /\ PromTypeOK
      /\ UNCHANGED <<connections, listening, edge, full, reported, at, current, refused>>
  BY ClientTyped DEF PromInv, PeerBreaks
<1>2. /\ s \in Socket /\ s.in = socket[c].in /\ s.sent = socket[c].sent
      /\ s.out = socket[c].out /\ s.got = socket[c].got
  BY <1>1 DEF Socket
<1>3. socket'[c] = s /\ \A d \in Client \ {c} : socket'[d] = socket[d]
  BY <1>1 DEF PeerBreaks, PromTypeOK
<1>4. socket' \in [Client -> Socket]
  BY <1>1, <1>2, <1>3 DEF PeerBreaks, PromTypeOK
<1>5. Raise(c, {"err"})
  BY DEF PeerBreaks
<1> HIDE DEF s
<1>6. CountsInv(c)'
  BY <1>1, <1>2, <1>3 DEF ClientInv, CountsInv
<1> QED BY <1>1, <1>2, <1>3, <1>4, <1>5, <1>6, PeerKeeps

LEMMA PeerReadsKeeps ==
    ASSUME PromInv, NEW c \in Client, PeerReads(c)
    PROVE  PromInv'
<1> DEFINE s == [socket[c] EXCEPT !.out = @ - 1, !.got = @ + 1]
           e == IF connections[c].interests = "write" THEN {"out"} ELSE {}
<1>1. /\ socket[c] \in Socket /\ ClientInv(c) /\ PromTypeOK /\ socket[c].out > 0
      /\ UNCHANGED <<connections, listening, edge, full, reported, at, current, refused>>
  BY ClientTyped DEF PromInv, PeerReads
<1>2. /\ socket[c].out \in 1..Room /\ socket[c].got \in 0..ResponseLength
      /\ socket[c].out + socket[c].got <= ResponseLength
  BY <1>1, Lengths DEF ClientInv, CountsInv, Socket
<1>3. /\ socket[c].out - 1 \in 0..Room /\ socket[c].got + 1 \in 0..ResponseLength
      /\ (socket[c].out - 1) + (socket[c].got + 1) = socket[c].out + socket[c].got
  BY <1>2, Lengths
<1>4. /\ s \in Socket /\ s.in = socket[c].in /\ s.sent = socket[c].sent /\ s.fin = socket[c].fin
      /\ s.broken = socket[c].broken /\ s.out = socket[c].out - 1 /\ s.got = socket[c].got + 1
  BY <1>1, <1>3 DEF Socket
<1>5. socket'[c] = s /\ \A d \in Client \ {c} : socket'[d] = socket[d]
  BY <1>1 DEF PeerReads, PromTypeOK
<1>6. socket' \in [Client -> Socket]
  BY <1>1, <1>4, <1>5 DEF PeerReads, PromTypeOK
<1>7. Raise(c, e) /\ e \subseteq {"in", "out", "err"}
  BY DEF PeerReads
<1>8. connections[c].state = "writing" /\ current # c => e # {}
  BY <1>1 DEF ClientInv, InterestsInv
<1> HIDE DEF s, e
<1>9. CountsInv(c)'
  <2>1. s.out + s.got = socket[c].out + socket[c].got
    BY <1>3, <1>4
  <2> QED BY <1>1, <1>4, <1>5, <2>1 DEF ClientInv, CountsInv
<1> QED BY <1>1, <1>4, <1>5, <1>6, <1>7, <1>8, <1>9, PeerKeeps

LEMMA PromStepKeeps == PromInv /\ [PromNext]_promVars => PromInv'
<1> SUFFICES ASSUME PromInv, [PromNext]_promVars PROVE PromInv'
  OBVIOUS
<1>1. CASE OnReady \/ AcceptNone \/ AcceptFails \/ DescriptorsChange
  BY <1>1, ListenerKeeps
<1>2. CASE Modify
  <2>1. current \in Client
    BY <1>2 DEF Modify, PromInv, PromTypeOK
  <2> QED BY <1>2, <2>1, ModifyKeeps
<1>3. ASSUME NEW c \in Client, AcceptConnection(c) PROVE PromInv'
  BY <1>3, AcceptKeeps
<1>4. ASSUME NEW c \in Client, OnConnectionEvent(c) PROVE PromInv'
  BY <1>4, OnConnectionEventKeeps
<1>5. CASE Close \/ AcceptThrows
  BY <1>5, CloseKeeps
<1>6. ASSUME NEW c \in Client, Connect(c) PROVE PromInv'
  BY <1>6, ConnectKeeps
<1>7. ASSUME NEW c \in Client, PeerSends(c) PROVE PromInv'
  BY <1>7, PeerSendsKeeps
<1>8. ASSUME NEW c \in Client, PeerCloses(c) PROVE PromInv'
  BY <1>8, PeerClosesKeeps
<1>9. ASSUME NEW c \in Client, PeerBreaks(c) PROVE PromInv'
  BY <1>9, PeerBreaksKeeps
<1>10. ASSUME NEW c \in Client, PeerReads(c) PROVE PromInv'
  BY <1>10, PeerReadsKeeps
<1>11. CASE UNCHANGED promVars
  BY <1>11 DEF promVars, PromInv, PromTypeOK, BacklogInv, Backlog, ClientInv, CountsInv, InterestsInv,
               WaitsInv, Open, RequestComplete
<1> QED BY <1>1, <1>2, <1>3, <1>4, <1>5, <1>6, <1>7, <1>8, <1>9, <1>10, <1>11
        DEF PromNext, ServerStep

----------------------------------------------------------------------------
(* Theorems *)

\* Whatever the order in which peers send, read, close and break, connections arrive and
\* descriptors run out: an open connection without an event to come waits for its peer,
\* and a connection that is left in the backlog was reported.
THEOREM PromAlwaysConsistent == PromSpec => []PromConsistent
<1>1. PromInv => PromConsistent
  BY DEF PromInv, PromConsistent, NoLostScrape, BacklogReported, BacklogInv, ClientInv, WaitsInv,
         Open
<1> QED BY <1>1, PromStarts, PromStepKeeps, PTL DEF PromSpec

----------------------------------------------------------------------------
(* TickProfile                                                             *)
(*                                                                         *)
(* From the bottom up: numbers and sums; the seconds of the exported       *)
(* counter, which are read back as the microseconds they stand for; the    *)
(* ranks of a distribution; samples that are read as they were recorded;   *)
(* the summary of an untouched recording, whose sums fit because ticks do  *)
(* not overlap; what each change of a file does to its summary; the window *)
(* of a report; and the inductive invariant, which says of a run what the  *)
(* tools then find: ticks recorded in order up to the capacity, durations  *)
(* added one by one, and a scrape that is an earlier state of the sums.    *)
(* Numbers *)

LEMMA LeastNumber == ASSUME NEW S \in SUBSET Nat, S # {} PROVE \E n \in S : \A m \in S : n <= m
<1> DEFINE R == OpToRel(<, Nat)
<1>1. IsWellFoundedOn(R, Nat)
  BY NatLessThanWellFounded
<1> HIDE DEF R
<1>2. PICK n \in S : \A m \in S : ~ (<<m, n>> \in R)
  BY <1>1, WFMin
<1>3. \A m, k \in Nat : m < k => <<m, k>> \in R
  BY DEF R, OpToRel
<1>4. ASSUME NEW m \in S PROVE n <= m
  <2>1. ~ (m < n)
    BY <1>2, <1>3
  <2> QED BY <2>1
<1> QED BY <1>4

LEMMA SetInduction ==
  ASSUME NEW S, 0 \in S, \A n \in Nat : n \in S => n + 1 \in S
  PROVE Nat \subseteq S
<1>1. SUFFICES ASSUME NEW k \in Nat, k \notin S PROVE FALSE
  OBVIOUS
<1> DEFINE T == {n \in Nat : n \notin S}
<1>2. T \in SUBSET Nat /\ T # {}
  BY <1>1
<1>3. PICK n \in T : \A m \in T : n <= m
  BY <1>2, LeastNumber
<1>4. n # 0 /\ n - 1 \in Nat
  OBVIOUS
<1>5. n - 1 \in S
  BY <1>3, <1>4
<1> QED BY <1>4, <1>5

\* A finite set of numbers has a greatest one.
LEMMA Greatest ==
    ASSUME NEW S \in SUBSET Nat, S # {}, NEW b \in Nat, \A m \in S : m <= b
    PROVE  \E n \in S : \A m \in S : m <= n
<1> DEFINE B == {c \in Nat : \A m \in S : m <= c}
<1>1. PICK n \in B : \A c \in B : n <= c
  <2>1. b \in B
    OBVIOUS
  <2>2. B \in SUBSET Nat
    OBVIOUS
  <2> QED BY <2>1, <2>2, LeastNumber
<1>2. n \in S
  <2>1. SUFFICES ASSUME n \notin S PROVE FALSE
    OBVIOUS
  <2>2. PICK m \in S : TRUE
    OBVIOUS
  <2>3. n # 0 /\ n - 1 \in Nat
    BY <2>1, <2>2
  <2>4. n - 1 \in B
    BY <2>1, <2>3
  <2> QED BY <1>1, <2>3, <2>4
<1> QED BY <1>2

\* What a recursion over the first numbers defines exists.
Recurs(f, n, first, step) == f[0] = first /\ \A i \in 1..n : f[i] = step[<<f[i - 1], i>>]

LEMMA Recursion ==
    ASSUME NEW X, NEW n \in Nat, NEW first \in X, NEW step \in [X \X (1..n) -> X]
    PROVE  \E f \in [0..n -> X] : Recurs(f, n, first, step)
<1> DEFINE P(k, f) == /\ f \in [0..k -> X] /\ f[0] = first
                      /\ \A i \in 1..k : f[i] = step[<<f[i - 1], i>>]
           S == {k \in Nat : k <= n => \E f : P(k, f)}
<1>1. 0 \in S
  <2> DEFINE f == [i \in 0..0 |-> first]
  <2>1. P(0, f)
    OBVIOUS
  <2> QED BY <2>1
<1>2. ASSUME NEW k \in Nat, k \in S PROVE k + 1 \in S
  <2>1. SUFFICES ASSUME k + 1 <= n PROVE \E f : P(k + 1, f)
    OBVIOUS
  <2>2. PICK f : P(k, f)
    BY <1>2, <2>1
  <2> DEFINE g == [i \in 0..(k + 1) |-> IF i = k + 1 THEN step[<<f[k], k + 1>>] ELSE f[i]]
  <2>3. k \in 0..k /\ k + 1 \in 1..n /\ f[k] \in X /\ step[<<f[k], k + 1>>] \in X
    BY <2>1, <2>2
  <2>4. g \in [0..(k + 1) -> X]
    <3>1. \A i \in 0..(k + 1) : i # k + 1 => i \in 0..k
      OBVIOUS
    <3> QED BY <2>2, <2>3, <3>1
  <2>5. g[0] = first
    BY <2>2
  <2>6. ASSUME NEW i \in 1..(k + 1) PROVE g[i] = step[<<g[i - 1], i>>]
    <3>1. CASE i = k + 1
      <4>1. i - 1 = k /\ k # k + 1 /\ k \in 0..(k + 1) /\ i \in 0..(k + 1)
        BY <3>1
      <4>2. g[k] = f[k] /\ g[i] = step[<<f[k], k + 1>>]
        BY <3>1, <4>1
      <4> HIDE DEF g
      <4> QED BY <3>1, <4>1, <4>2
    <3>2. CASE i # k + 1
      <4>1. i \in 1..k /\ i \in 0..(k + 1) /\ i - 1 \in 0..(k + 1) /\ i - 1 # k + 1
        BY <3>2
      <4>2. g[i] = f[i] /\ g[i - 1] = f[i - 1]
        BY <3>2, <4>1
      <4>3. f[i] = step[<<f[i - 1], i>>]
        BY <2>2, <4>1
      <4> HIDE DEF g
      <4> QED BY <4>2, <4>3
    <3> QED BY <3>1, <3>2
  <2> HIDE DEF g
  <2>7. P(k + 1, g)
    BY <2>4, <2>5, <2>6
  <2> QED BY <2>7
<1> HIDE DEF S
<1>3. Nat \subseteq S
  BY <1>1, <1>2, SetInduction
<1>4. n \in S
  BY <1>3
<1> QED BY <1>4 DEF S, Recurs

\* What a remainder and a quotient are.
LEMMA Quotient ==
    ASSUME NEW c \in Nat \ {0}, NEW a \in Nat
    PROVE  a % c \in 0..(c - 1) /\ a \div c \in Nat /\ a = c * (a \div c) + (a % c)
<1>1. a % c \in 0..(c - 1)
  OBVIOUS
<1>2. a \div c \in Int /\ c * (a \div c) <= a /\ a < c * (a \div c) + c
  OBVIOUS
<1>3. a = c * (a \div c) + (a % c)
  OBVIOUS
<1> DEFINE q == a \div c
<1> HIDE DEF q
<1>4. CASE q < 0
  <2>1. - q - 1 \in Nat /\ c * (- q - 1) >= 0
    BY <1>2, <1>4 DEF q
  <2>2. c * (- q - 1) = - (c * q) - c
    BY <1>2 DEF q
  <2> QED BY <1>2, <2>1, <2>2 DEF q
<1>5. a \div c \in Nat
  BY <1>2, <1>4 DEF q
<1> QED BY <1>1, <1>3, <1>5

\* A quotient is below a bound if the number is below its multiple, and the other way round.
LEMMA QuotientBelow ==
    ASSUME NEW c \in Nat \ {0}, NEW a \in Nat, NEW b \in Nat
    PROVE  /\ a < c * b => a \div c < b
           /\ b * c <= a => b <= a \div c
           /\ a \div c <= a
<1> DEFINE q == a \div c
           r == a % c
<1>1. q \in Nat /\ r \in Nat /\ r < c /\ a = c * q + r /\ c * q \in Nat
  BY Quotient
<1> HIDE DEF q, r
<1>2. ASSUME a < c * b, b <= q PROVE FALSE
  <2>1. q - b \in Nat /\ c * (q - b) >= 0 /\ c * (q - b) = c * q - c * b /\ c * b \in Nat
    BY <1>1, <1>2
  <2> QED BY <1>1, <1>2, <2>1
<1>3. ASSUME b * c <= a, q < b PROVE FALSE
  <2>1. b - q - 1 \in Nat /\ c * (b - q - 1) >= 0 /\ c * (b - q - 1) = b * c - c * q - c /\ b * c \in Nat
    BY <1>1, <1>3
  <2> QED BY <1>1, <1>3, <2>1
<1>4. q <= a
  <2>1. (c - 1) * q >= 0 /\ (c - 1) * q = c * q - q
    BY <1>1
  <2> QED BY <1>1, <2>1
<1> QED BY <1>1, <1>2, <1>3, <1>4 DEF q

----------------------------------------------------------------------------
(* Seconds *)

LEMMA ProfileParameters ==
    ASSUME ProfileConstants
    PROVE  /\ NsPerUs \in Nat \ {0} /\ Ten \in Nat \ {0} /\ FractionDigits \in Nat \ {0}
           /\ SampleCapacity \in Nat \ {0} /\ MaxU64 \in Nat \ {0} /\ MaxTicks \in Nat \ {0}
BY DEF ProfileConstants

LEMMA PowerIs ==
    ASSUME ProfileConstants
    PROVE  /\ Power \in [0..FractionDigits -> Nat \ {0}] /\ Power[0] = 1
           /\ \A n \in 1..FractionDigits : Power[n] = Ten * Power[n - 1]
<1> DEFINE F == FractionDigits
           X == Nat \ {0}
           step == [p \in X \X (1..F) |-> Ten * p[1]]
<1>1. Ten \in X /\ F \in Nat
  BY ProfileParameters
<1>2. step \in [X \X (1..F) -> X]
  <2>1. ASSUME NEW p \in X \X (1..F) PROVE Ten * p[1] \in X
    <3>1. p[1] \in X
      OBVIOUS
    <3> QED BY <1>1, <3>1
  <2> QED BY <2>1
<1>3. \E f \in [0..F -> X] : Recurs(f, F, 1, step)
  <2>1. 1 \in X
    OBVIOUS
  <2> HIDE DEF step, X
  <2> QED BY <1>1, <1>2, <2>1, Recursion
<1>4. PICK f \in [0..F -> X] : f[0] = 1 /\ \A i \in 1..F : f[i] = step[<<f[i - 1], i>>]
  BY <1>3 DEF Recurs
<1>5. ASSUME NEW i \in 1..F PROVE f[i] = Ten * f[i - 1]
  <2>1. f[i - 1] \in X /\ <<f[i - 1], i>> \in X \X (1..F)
    <3>1. i - 1 \in 0..F
      BY <1>1
    <3> HIDE DEF X
    <3> QED BY <1>4, <3>1
  <2>2. step[<<f[i - 1], i>>] = Ten * f[i - 1]
    BY <2>1
  <2> QED BY <1>4, <2>2
<1>6. f = [n \in 0..F |-> IF n = 0 THEN 1 ELSE Ten * f[n - 1]]
  BY <1>4, <1>5
<1>7. Power = [n \in 0..F |-> IF n = 0 THEN 1 ELSE Ten * Power[n - 1]]
  <2>1. \E g : g = [n \in 0..F |-> IF n = 0 THEN 1 ELSE Ten * g[n - 1]]
    BY <1>6
  <2>2. Power = CHOOSE g : g = [n \in 0..F |-> IF n = 0 THEN 1 ELSE Ten * g[n - 1]]
    BY DEF Power
  <2> QED BY <2>1, <2>2, Zenon
<1>8. Power[0] = 1 /\ \A n \in 1..F : Power[n] = Ten * Power[n - 1]
  BY <1>1, <1>7
<1>9. ASSUME NEW n \in Nat PROVE n <= F => Power[n] \in X
  <2> DEFINE S == {k \in Nat : k <= F => Power[k] \in X}
  <2>1. 0 \in S
    BY <1>8
  <2>2. ASSUME NEW k \in Nat, k \in S PROVE k + 1 \in S
    <3>1. SUFFICES ASSUME k + 1 <= F PROVE Power[k + 1] \in X
      OBVIOUS
    <3>2. k + 1 \in 1..F /\ Power[k] \in X
      BY <1>1, <2>2, <3>1
    <3>3. Power[k + 1] = Ten * Power[k]
      BY <1>8, <3>2
    <3> QED BY <1>1, <3>2, <3>3
  <2> HIDE DEF S
  <2>3. Nat \subseteq S
    BY <2>1, <2>2, SetInduction
  <2> QED BY <2>3 DEF S
<1> QED BY <1>1, <1>7, <1>8, <1>9

\* Digits, and what is left of the number after each of them.
LEMMA DigitsAre ==
    ASSUME ProfileConstants, NEW us \in Nat
    PROVE  \E rest \in [0..FractionDigits -> Nat] :
              /\ rest[0] = us % UsPerSecond /\ rest[FractionDigits] = 0
              /\ \A n \in 1..FractionDigits : rest[n] = rest[n - 1] \div Ten
              /\ Digits(us) = [i \in 1..FractionDigits |-> rest[FractionDigits - i] % Ten]
<1> DEFINE F == FractionDigits
           first == us % UsPerSecond
           step == [p \in Nat \X (1..F) |-> p[1] \div Ten]
<1>1. Ten \in Nat \ {0} /\ F \in Nat \ {0}
  BY ProfileParameters
<1>2. first \in Nat /\ first < UsPerSecond /\ UsPerSecond = Power[F] /\ Power[F] \in Nat \ {0}
  <2>1. UsPerSecond \in Nat \ {0} /\ UsPerSecond = Power[F]
    BY <1>1, PowerIs DEF UsPerSecond
  <2> QED BY <2>1, Quotient
<1>3. step \in [Nat \X (1..F) -> Nat]
  <2>1. ASSUME NEW p \in Nat \X (1..F) PROVE p[1] \div Ten \in Nat
    <3>1. p[1] \in Nat
      OBVIOUS
    <3> QED BY <1>1, <3>1, Quotient
  <2> QED BY <2>1
<1> DEFINE R(g) == g = [n \in 0..F |-> IF n = 0 THEN first ELSE g[n - 1] \div Ten]
<1> DEFINE rest == CHOOSE g : g = [n \in 0..F |-> IF n = 0 THEN us % UsPerSecond ELSE g[n - 1] \div Ten]
<1>4. R(rest)
  <2>1. \E f \in [0..F -> Nat] : Recurs(f, F, first, step)
    <3> HIDE DEF step, first
    <3> QED BY <1>1, <1>2, <1>3, Recursion
  <2>2. PICK f \in [0..F -> Nat] : f[0] = first /\ \A i \in 1..F : f[i] = step[<<f[i - 1], i>>]
    BY <2>1 DEF Recurs
  <2>3. ASSUME NEW i \in 1..F PROVE f[i] = f[i - 1] \div Ten
    <3>1. <<f[i - 1], i>> \in Nat \X (1..F)
      BY <1>1
    <3>2. step[<<f[i - 1], i>>] = f[i - 1] \div Ten
      BY <3>1
    <3> QED BY <2>2, <3>2
  <2>4. R(f)
    <3> HIDE DEF first
    <3> QED BY <2>2, <2>3
  <2>5. \E g : g = [n \in 0..F |-> IF n = 0 THEN us % UsPerSecond ELSE g[n - 1] \div Ten]
    BY <2>4
  <2> QED BY <2>5, Zenon
<1>5. Digits(us) = [i \in 1..F |-> rest[F - i] % Ten]
  BY DEF Digits
<1> HIDE DEF rest, first
<1>6. rest[0] = first /\ \A n \in 1..F : rest[n] = rest[n - 1] \div Ten
  BY <1>1, <1>4
<1>7. ASSUME NEW n \in Nat PROVE n <= F => rest[n] \in Nat /\ rest[n] < Power[F - n]
  <2> DEFINE S == {k \in Nat : k <= F => rest[k] \in Nat /\ rest[k] < Power[F - k]}
  <2>1. 0 \in S
    BY <1>1, <1>2, <1>6
  <2>2. ASSUME NEW k \in Nat, k \in S PROVE k + 1 \in S
    <3>1. SUFFICES ASSUME k + 1 <= F PROVE rest[k + 1] \in Nat /\ rest[k + 1] < Power[F - (k + 1)]
      OBVIOUS
    <3> DEFINE a == rest[k]
               b == Power[F - (k + 1)]
    <3>2. a \in Nat /\ a < Power[F - k] /\ rest[k + 1] = a \div Ten
      BY <1>1, <1>6, <2>2, <3>1
    <3>3. F - k \in 1..F /\ F - k - 1 = F - (k + 1) /\ F - (k + 1) \in 0..F
      BY <1>1, <3>1
    <3>4. b \in Nat /\ Power[F - k] = Ten * b
      BY <3>3, PowerIs
    <3> HIDE DEF a, b
    <3>5. a \div Ten < b /\ a \div Ten \in Nat
      <4>1. a < Ten * b
        BY <3>2, <3>4
      <4> QED BY <1>1, <3>2, <3>4, <4>1, QuotientBelow, Quotient
    <3> QED BY <3>2, <3>5 DEF b
  <2> HIDE DEF S
  <2>3. Nat \subseteq S
    BY <2>1, <2>2, SetInduction
  <2> QED BY <2>3 DEF S
<1>8. rest \in [0..F -> Nat]
  BY <1>4, <1>7
<1>9. rest[F] = 0
  <2>1. rest[F] \in Nat /\ rest[F] < Power[F - F] /\ F - F = 0
    BY <1>1, <1>7
  <2> QED BY <2>1, PowerIs
<1> QED BY <1>5, <1>6, <1>8, <1>9 DEF first

\* The value of digits.
LEMMA DigitsValueIs ==
    ASSUME ProfileConstants, NEW digits \in Seq(Nat)
    PROVE  \E value \in [0..FractionDigits -> Nat] :
              /\ value[0] = 0 /\ DigitsValue(digits) = value[FractionDigits]
              /\ \A n \in 1..FractionDigits :
                    value[n] = value[n - 1] * Ten + (IF n <= Len(digits) THEN digits[n] ELSE 0)
<1> DEFINE F == FractionDigits
           D(n) == IF n <= Len(digits) THEN digits[n] ELSE 0
           step == [p \in Nat \X (1..F) |-> p[1] * Ten + D(p[2])]
<1>1. Ten \in Nat \ {0} /\ F \in Nat \ {0}
  BY ProfileParameters
<1>2. \A n \in 1..F : D(n) \in Nat
  OBVIOUS
<1>3. step \in [Nat \X (1..F) -> Nat]
  <2>1. ASSUME NEW p \in Nat \X (1..F) PROVE p[1] * Ten + D(p[2]) \in Nat
    <3>1. p[1] \in Nat /\ p[2] \in 1..F
      OBVIOUS
    <3>2. D(p[2]) \in Nat
      BY <1>2, <3>1
    <3> HIDE DEF D
    <3> QED BY <1>1, <3>1, <3>2
  <2> HIDE DEF D
  <2> QED BY <2>1
<1> DEFINE R(g) == g = [n \in 0..F |-> IF n = 0 THEN 0 ELSE g[n - 1] * Ten + D(n)]
<1> DEFINE value == CHOOSE g : g = [n \in 0..F |->
              IF n = 0 THEN 0 ELSE g[n - 1] * Ten + (IF n <= Len(digits) THEN digits[n] ELSE 0)]
<1>4. PICK f \in [0..F -> Nat] : f[0] = 0 /\ \A i \in 1..F : f[i] = step[<<f[i - 1], i>>]
  <2>1. \E f \in [0..F -> Nat] : Recurs(f, F, 0, step)
    <3>1. 0 \in Nat
      OBVIOUS
    <3> HIDE DEF step
    <3> QED BY <1>1, <1>3, <3>1, Recursion
  <2> QED BY <2>1 DEF Recurs
<1>5. ASSUME NEW i \in 1..F PROVE f[i] = f[i - 1] * Ten + D(i)
  <2>1. <<f[i - 1], i>> \in Nat \X (1..F)
    BY <1>1
  <2> HIDE DEF D
  <2>2. step[<<f[i - 1], i>>] = f[i - 1] * Ten + D(i)
    BY <2>1
  <2> QED BY <1>4, <2>2
<1>6. R(f)
  <2> HIDE DEF D
  <2> QED BY <1>4, <1>5
<1>7. R(value)
  <2>1. \E g : g = [n \in 0..F |->
              IF n = 0 THEN 0 ELSE g[n - 1] * Ten + (IF n <= Len(digits) THEN digits[n] ELSE 0)]
    BY <1>6
  <2> QED BY <2>1, Zenon
<1>8. DigitsValue(digits) = value[F]
  BY DEF DigitsValue
<1> HIDE DEF value
<1>9. value[0] = 0 /\ \A n \in 1..F : value[n] = value[n - 1] * Ten + D(n)
  <2> HIDE DEF D
  <2> QED BY <1>1, <1>7
<1>10. ASSUME NEW n \in Nat PROVE n <= F => value[n] \in Nat
  <2> DEFINE S == {k \in Nat : k <= F => value[k] \in Nat}
  <2> HIDE DEF D
  <2>1. 0 \in S
    BY <1>9
  <2>2. ASSUME NEW k \in Nat, k \in S PROVE k + 1 \in S
    <3>1. SUFFICES ASSUME k + 1 <= F PROVE value[k + 1] \in Nat
      OBVIOUS
    <3>2. k + 1 \in 1..F /\ value[k] \in Nat
      BY <1>1, <2>2, <3>1
    <3>3. value[k + 1] = value[k] * Ten + D(k + 1)
      BY <1>9, <3>2
    <3>4. D(k + 1) \in Nat
      BY <1>2, <3>2
    <3>5. value[k] * Ten \in Nat
      BY <1>1, <3>2
    <3> QED BY <3>3, <3>4, <3>5
  <2> HIDE DEF S
  <2>3. Nat \subseteq S
    BY <2>1, <2>2, SetInduction
  <2> QED BY <2>3 DEF S
<1>11. value \in [0..F -> Nat]
  <2> HIDE DEF D
  <2> QED BY <1>7, <1>10
<1> QED BY <1>8, <1>9, <1>11

\* What AsSeconds writes.
LEMMA SecondsAre ==
    ASSUME ProfileConstants, NEW us \in Nat
    PROVE  \E last \in 0..FractionDigits :
              /\ AsSeconds(us) = [whole |-> us \div UsPerSecond, fraction |-> SubSeq(Digits(us), 1, last)]
              /\ \A i \in (last + 1)..FractionDigits : Digits(us)[i] = 0
<1> DEFINE F == FractionDigits
           digits == Digits(us)
           Ends(n) == /\ n > 0 => digits[n] # 0
                      /\ \A i \in (n + 1)..F : digits[i] = 0
           last == CHOOSE n \in 0..F : /\ n > 0 => digits[n] # 0
                                       /\ \A i \in (n + 1)..F : digits[i] = 0
<1>1. F \in Nat \ {0}
  BY ProfileParameters
<1> HIDE DEF digits
<1>2. \E n \in 0..F : Ends(n)
  <2> DEFINE S == {n \in 0..F : n > 0 => digits[n] # 0}
  <2>1. S \in SUBSET Nat /\ 0 \in S /\ \A m \in S : m <= F
    BY <1>1
  <2> HIDE DEF S
  <2>2. PICK n \in S : \A m \in S : m <= n
    BY <1>1, <2>1, Greatest
  <2>3. n \in 0..F /\ (n > 0 => digits[n] # 0)
    BY <2>2 DEF S
  <2>4. ASSUME NEW i \in (n + 1)..F PROVE digits[i] = 0
    <3>1. i \notin S /\ i \in 0..F
      BY <2>2, <2>3
    <3> QED BY <3>1 DEF S
  <2> QED BY <2>3, <2>4
<1>3. last \in 0..F /\ Ends(last)
  BY <1>2
<1>4. AsSeconds(us) = [whole |-> us \div UsPerSecond, fraction |-> SubSeq(digits, 1, last)]
  BY DEF AsSeconds, digits
<1> HIDE DEF last
<1> QED BY <1>3, <1>4 DEF digits

\* What is exported in seconds is read as it was, in microseconds.
LEMMA SecondsRoundTrip ==
    ASSUME ProfileConstants, NEW us \in 0..MaxU64
    PROVE  ParseSeconds(AsSeconds(us)) = {us}
<1> DEFINE F == FractionDigits
           U == UsPerSecond
           text == AsSeconds(us)
           whole == us \div U
           part == us % U
<1>1. /\ Ten \in Nat \ {0} /\ F \in Nat \ {0} /\ us \in Nat /\ MaxU64 \in Nat
      /\ us <= MaxU64
  BY ProfileParameters
<1>2. U \in Nat \ {0}
  BY <1>1, PowerIs DEF UsPerSecond
<1>0. \A a \in Nat : a % Ten \in Nat /\ a \div Ten \in Nat /\ a = Ten * (a \div Ten) + (a % Ten)
  <2>1. ASSUME NEW a \in Nat
        PROVE  a % Ten \in Nat /\ a \div Ten \in Nat /\ a = Ten * (a \div Ten) + (a % Ten)
    BY <1>1, Quotient
  <2> QED BY <2>1
<1>3. PICK rest \in [0..F -> Nat] :
              /\ rest[0] = part /\ rest[F] = 0
              /\ \A n \in 1..F : rest[n] = rest[n - 1] \div Ten
              /\ Digits(us) = [i \in 1..F |-> rest[F - i] % Ten]
  BY <1>1, DigitsAre
<1>4. PICK last \in 0..F :
              /\ text = [whole |-> us \div U, fraction |-> SubSeq(Digits(us), 1, last)]
              /\ \A i \in (last + 1)..F : Digits(us)[i] = 0
  BY <1>1, SecondsAre
<1> DEFINE digits == Digits(us)
           fraction == SubSeq(digits, 1, last)
<1>5. \A i \in 1..F : digits[i] = rest[F - i] % Ten /\ digits[i] \in Nat
  <2>1. ASSUME NEW i \in 1..F PROVE rest[F - i] % Ten \in Nat
    <3>1. rest[F - i] \in Nat
      BY <1>1, <1>3
    <3> QED BY <1>0, <3>1
  <2> QED BY <1>3, <2>1
<1>6. digits \in Seq(Nat) /\ Len(digits) = F
  <2>1. digits = [i \in 1..F |-> digits[i]]
    BY <1>3
  <2>2. F \in Nat /\ \A i \in 1..F : digits[i] \in Nat
    BY <1>1, <1>5
  <2> HIDE DEF digits, F
  <2> QED BY ONLY <2>1, <2>2
<1> HIDE DEF digits
<1>7. fraction \in Seq(Nat) /\ Len(fraction) = last /\ \A i \in 1..last : fraction[i] = digits[i]
  BY <1>1, <1>6
<1>8. text.whole = whole /\ text.fraction = fraction
  BY <1>4 DEF digits
<1> HIDE DEF fraction, text
<1>9. PICK value \in [0..F -> Nat] :
              /\ value[0] = 0 /\ DigitsValue(fraction) = value[F]
              /\ \A n \in 1..F :
                    value[n] = value[n - 1] * Ten + (IF n <= Len(fraction) THEN fraction[n] ELSE 0)
  BY <1>7, DigitsValueIs
<1>10. \A n \in 1..F : value[n] = value[n - 1] * Ten + digits[n]
  <2>1. ASSUME NEW n \in 1..F PROVE (IF n <= Len(fraction) THEN fraction[n] ELSE 0) = digits[n]
    <3>1. CASE n <= last
      BY <1>7, <3>1
    <3>2. CASE ~ n <= last
      <4>1. n \in (last + 1)..F
        BY <1>1, <3>2
      <4> QED BY <1>4, <1>7, <3>2, <4>1 DEF digits
    <3> QED BY <3>1, <3>2
  <2> QED BY <1>9, <2>1
<1>11. ASSUME NEW n \in Nat PROVE n <= F => value[n] = rest[F - n]
  <2> DEFINE S == {k \in Nat : k <= F => value[k] = rest[F - k]}
  <2>1. 0 \in S
    BY <1>1, <1>3, <1>9
  <2>2. ASSUME NEW k \in Nat, k \in S PROVE k + 1 \in S
    <3>1. SUFFICES ASSUME k + 1 <= F PROVE value[k + 1] = rest[F - (k + 1)]
      OBVIOUS
    <3> DEFINE m == F - (k + 1)
               a == rest[m]
    <3>2. m \in 0..F /\ F - k \in 1..F /\ F - k - 1 = m /\ k + 1 \in 1..F /\ k + 1 - 1 = k
      BY <1>1, <3>1
    <3>3. a \in Nat /\ rest[F - k] = a \div Ten
      BY <1>3, <3>2
    <3>4. value[k] = a \div Ten
      <4>1. value[k] = rest[F - k]
        BY <1>1, <2>2, <3>1
      <4> HIDE DEF a
      <4> QED BY <3>3, <4>1
    <3>5. value[k + 1] = value[k] * Ten + (a % Ten)
      <4>1. F - (k + 1) = m /\ digits[k + 1] = rest[F - (k + 1)] % Ten
        BY <1>5, <3>2
      <4>2. value[k + 1] = value[k + 1 - 1] * Ten + digits[k + 1]
        BY <1>10, <3>2
      <4>3. value[k + 1 - 1] = value[k]
        BY <3>2
      <4>4. digits[k + 1] = a % Ten
        BY <4>1
      <4> HIDE DEF a
      <4> QED BY <4>2, <4>3, <4>4, Zenon
    <3> HIDE DEF a, m
    <3>6. a = Ten * (a \div Ten) + (a % Ten) /\ a \div Ten \in Nat /\ a % Ten \in Nat
      BY <1>0, <3>3
    <3> DEFINE q == a \div Ten
               r == a % Ten
    <3> HIDE DEF q, r
    <3>7. q * Ten = Ten * q
      BY <1>1, <3>6 DEF q, r
    <3>8. value[k + 1] = q * Ten + r /\ a = Ten * q + r
      <4>1. value[k] = q
        BY <3>4 DEF q
      <4>2. a = Ten * q + r
        BY <3>6 DEF q, r
      <4>3. value[k + 1] = value[k] * Ten + r
        BY <3>5 DEF r
      <4> QED BY <4>1, <4>2, <4>3, Zenon
    <3>9. value[k + 1] = a
      BY <3>7, <3>8
    <3> QED BY <3>9 DEF a, m
  <2> HIDE DEF S
  <2>3. Nat \subseteq S
    BY <2>1, <2>2, SetInduction
  <2> QED BY <2>3 DEF S
<1>12. DigitsValue(fraction) = part
  <2>1. value[F] = rest[F - F] /\ F - F = 0
    BY <1>1, <1>11
  <2> QED BY <1>3, <1>9, <2>1
<1>13. us = U * whole + part /\ whole \in Nat /\ part \in Nat
  <2>1. part \in 0..(U - 1) /\ whole \in Nat /\ us = U * whole + part
    <3> HIDE DEF U
    <3> QED BY <1>1, <1>2, Quotient
  <2> HIDE DEF whole, part
  <2> QED BY <1>2, <2>1
<1>14. whole * U + part = us /\ MaxU64 - part \in Nat /\ whole * U <= MaxU64 - part
  <2> HIDE DEF whole, part
  <2>1. whole * U = U * whole /\ U * whole \in Nat
    BY <1>2, <1>13
  <2> DEFINE p == U * whole
  <2> HIDE DEF p
  <2> QED BY <1>1, <1>13, <2>1 DEF p
<1>15. whole <= (MaxU64 - part) \div U /\ (MaxU64 - part) \div U \in Nat
  <2> DEFINE d == MaxU64 - part
  <2>1. d \in Nat /\ whole * U <= d
    BY <1>14
  <2> HIDE DEF d, whole
  <2> QED BY <1>2, <1>13, <2>1, QuotientBelow, Quotient DEF d
<1>16. ~ (Len(text.fraction) > F \/ text.whole > (MaxU64 - part) \div U)
  <2>1. ~ Len(text.fraction) > F
    BY <1>1, <1>7, <1>8
  <2> DEFINE w == text.whole
             d == (MaxU64 - part) \div U
  <2>2. w \in Nat /\ d \in Nat /\ w <= d
    <3>1. w = whole
      BY <1>8
    <3>2. whole \in Nat /\ whole <= d /\ d \in Nat
      BY <1>13, <1>15
    <3> HIDE DEF w, whole, d
    <3> QED BY <3>1, <3>2
  <2> HIDE DEF w, d
  <2>3. ~ w > d
    BY ONLY <2>2
  <2> QED BY <2>1, <2>3 DEF w, d
<1> HIDE DEF whole, part
<1> QED BY <1>8, <1>12, <1>14, <1>16 DEF ParseSeconds, text

----------------------------------------------------------------------------
(* Sums *)

LEMMA SumsAre ==
    ASSUME NEW chosen, NEW values \in Seq(Nat)
    PROVE  /\ SumsOf(chosen, values) \in [0..Len(values) -> Nat]
           /\ SumsOf(chosen, values)[0] = 0
           /\ \A n \in 1..Len(values) :
                SumsOf(chosen, values)[n] =
                    SumsOf(chosen, values)[n - 1] + (IF n \in chosen THEN values[n] ELSE 0)
<1> DEFINE L == Len(values)
           D(n) == IF n \in chosen THEN values[n] ELSE 0
           step == [p \in Nat \X (1..L) |-> p[1] + D(p[2])]
           sum == SumsOf(chosen, values)
<1>1. L \in Nat /\ \A n \in 1..L : D(n) \in Nat
  OBVIOUS
<1>2. step \in [Nat \X (1..L) -> Nat]
  <2>1. ASSUME NEW p \in Nat \X (1..L) PROVE p[1] + D(p[2]) \in Nat
    <3>1. p[1] \in Nat /\ p[2] \in 1..L
      OBVIOUS
    <3>2. D(p[2]) \in Nat
      BY <1>1, <3>1
    <3> HIDE DEF D
    <3> QED BY <3>1, <3>2
  <2> HIDE DEF D
  <2> QED BY <2>1
<1>3. \E f \in [0..L -> Nat] : Recurs(f, L, 0, step)
  <2>1. 0 \in Nat
    OBVIOUS
  <2> HIDE DEF step, L
  <2> QED BY <1>1, <1>2, <2>1, Recursion
<1>4. PICK f \in [0..L -> Nat] : f[0] = 0 /\ \A i \in 1..L : f[i] = step[<<f[i - 1], i>>]
  BY <1>3 DEF Recurs
<1>5. ASSUME NEW i \in 1..L PROVE f[i] = f[i - 1] + D(i)
  <2>1. <<f[i - 1], i>> \in Nat \X (1..L)
    <3> HIDE DEF L
    <3>1. i - 1 \in 0..L
      BY <1>1
    <3> QED BY <3>1
  <2> HIDE DEF D
  <2>2. step[<<f[i - 1], i>>] = f[i - 1] + D(i)
    BY <2>1
  <2> QED BY <1>4, <2>2
<1>6. f = [n \in 0..L |-> IF n = 0 THEN 0 ELSE f[n - 1] + D(n)]
  <2> HIDE DEF D, L
  <2> QED BY <1>1, <1>4, <1>5
<1>7. sum = [n \in 0..L |-> IF n = 0 THEN 0 ELSE sum[n - 1] + D(n)]
  <2> DEFINE g == CHOOSE h : h = [n \in 0..Len(values) |->
                    IF n = 0 THEN 0 ELSE h[n - 1] + (IF n \in chosen THEN values[n] ELSE 0)]
  <2>1. \E h : h = [n \in 0..Len(values) |->
                    IF n = 0 THEN 0 ELSE h[n - 1] + (IF n \in chosen THEN values[n] ELSE 0)]
    BY <1>6
  <2>2. g = [n \in 0..Len(values) |->
                    IF n = 0 THEN 0 ELSE g[n - 1] + (IF n \in chosen THEN values[n] ELSE 0)]
    BY <2>1, Zenon
  <2>3. sum = g
    BY DEF SumsOf
  <2> HIDE DEF g, sum
  <2> QED BY <2>2, <2>3
<1> HIDE DEF sum
<1>8. sum[0] = 0 /\ \A n \in 1..L : sum[n] = sum[n - 1] + D(n)
  <2> HIDE DEF D, L
  <2> QED BY <1>1, <1>7
<1>9. ASSUME NEW n \in Nat PROVE n <= L => sum[n] \in Nat
  <2> DEFINE S == {k \in Nat : k <= L => sum[k] \in Nat}
  <2> HIDE DEF D, L
  <2>1. 0 \in S
    BY <1>8
  <2>2. ASSUME NEW k \in Nat, k \in S PROVE k + 1 \in S
    <3>1. SUFFICES ASSUME k + 1 <= L PROVE sum[k + 1] \in Nat
      OBVIOUS
    <3>2. k + 1 \in 1..L /\ sum[k] \in Nat
      BY <1>1, <2>2, <3>1
    <3>3. sum[k + 1] = sum[k] + D(k + 1)
      BY <1>8, <3>2
    <3>4. D(k + 1) \in Nat
      BY <1>1, <3>2
    <3> QED BY <3>2, <3>3, <3>4
  <2> HIDE DEF S
  <2>3. Nat \subseteq S
    BY <2>1, <2>2, SetInduction
  <2> QED BY <2>3 DEF S
<1>10. sum \in [0..L -> Nat]
  <2> HIDE DEF D, L
  <2> QED BY <1>1, <1>7, <1>9
<1> QED BY <1>8, <1>10 DEF sum

\* A sum depends on what is chosen.
LEMMA SumsAgree ==
    ASSUME NEW c, NEW v \in Seq(Nat), NEW d, NEW w \in Seq(Nat),
           NEW m \in Nat, m <= Len(v), m <= Len(w),
           \A i \in 1..m : (i \in c <=> i \in d) /\ (i \in c => v[i] = w[i])
    PROVE  SumsOf(c, v)[m] = SumsOf(d, w)[m]
<1> DEFINE a == SumsOf(c, v)
           b == SumsOf(d, w)
<1>1. /\ a[0] = 0 /\ \A n \in 1..Len(v) : a[n] = a[n - 1] + (IF n \in c THEN v[n] ELSE 0)
      /\ b[0] = 0 /\ \A n \in 1..Len(w) : b[n] = b[n - 1] + (IF n \in d THEN w[n] ELSE 0)
  BY SumsAre
<1> HIDE DEF a, b
<1> DEFINE S == {k \in Nat : k <= m => a[k] = b[k]}
<1>2. 0 \in S
  BY <1>1
<1>3. ASSUME NEW k \in Nat, k \in S PROVE k + 1 \in S
  <2>1. SUFFICES ASSUME k + 1 <= m PROVE a[k + 1] = b[k + 1]
    OBVIOUS
  <2>2. k + 1 \in 1..m /\ k + 1 \in 1..Len(v) /\ k + 1 \in 1..Len(w) /\ a[k] = b[k] /\ k + 1 - 1 = k
    BY <1>3, <2>1
  <2>3. a[k + 1] = a[k] + (IF k + 1 \in c THEN v[k + 1] ELSE 0)
    BY <1>1, <2>2
  <2>4. b[k + 1] = b[k] + (IF k + 1 \in d THEN w[k + 1] ELSE 0)
    BY <1>1, <2>2
  <2>5. (k + 1 \in c <=> k + 1 \in d) /\ (k + 1 \in c => v[k + 1] = w[k + 1])
    BY <2>2
  <2> QED BY <2>2, <2>3, <2>4, <2>5
<1> HIDE DEF S
<1>4. Nat \subseteq S
  BY <1>2, <1>3, SetInduction
<1>5. a[m] = b[m]
  BY <1>4 DEF S
<1> QED BY <1>5 DEF a, b

\* A sum stays below what grows at least as fast.
LEMMA SumsBelow ==
    ASSUME NEW c, NEW v \in Seq(Nat), NEW bound \in [0..Len(v) -> Nat],
           \A n \in 1..Len(v) : bound[n - 1] + (IF n \in c THEN v[n] ELSE 0) <= bound[n]
    PROVE  SumOf(c, v) \in Nat /\ SumOf(c, v) <= bound[Len(v)]
<1> DEFINE a == SumsOf(c, v)
           L == Len(v)
<1>1. /\ a[0] = 0 /\ \A n \in 1..L : a[n] = a[n - 1] + (IF n \in c THEN v[n] ELSE 0)
      /\ a \in [0..L -> Nat] /\ L \in Nat
  BY SumsAre
<1> HIDE DEF a
<1> DEFINE S == {k \in Nat : k <= L => a[k] <= bound[k]}
<1>2. 0 \in S
  <2>1. bound[0] \in Nat
    BY <1>1
  <2> QED BY <1>1, <2>1
<1>3. ASSUME NEW k \in Nat, k \in S PROVE k + 1 \in S
  <2>1. SUFFICES ASSUME k + 1 <= L PROVE a[k + 1] <= bound[k + 1]
    OBVIOUS
  <2>2. k + 1 \in 1..L /\ a[k] <= bound[k] /\ k + 1 - 1 = k /\ k \in 0..L /\ k + 1 \in 0..L
    BY <1>1, <1>3, <2>1
  <2> DEFINE x == IF k + 1 \in c THEN v[k + 1] ELSE 0
  <2>3. a[k + 1] = a[k] + x
    BY <1>1, <2>2
  <2>4. bound[k] + x <= bound[k + 1]
    BY <2>2
  <2>5. x \in Nat /\ a[k] \in Nat /\ bound[k] \in Nat /\ bound[k + 1] \in Nat
    <3>1. v[k + 1] \in Nat
      BY <2>2
    <3>2. x \in Nat
      BY <3>1
    <3> HIDE DEF x
    <3> QED BY <1>1, <2>2, <3>2
  <2> HIDE DEF x
  <2> QED BY <2>2, <2>3, <2>4, <2>5
<1> HIDE DEF S
<1>4. Nat \subseteq S
  BY <1>2, <1>3, SetInduction
<1>5. a[L] <= bound[L] /\ a[L] \in Nat
  BY <1>1, <1>4 DEF S
<1> QED BY <1>5 DEF a, SumOf

\* There is a value of every rank.
HasRank(chosen, values, rank) ==
    \E v \in {values[i] : i \in chosen} :
        /\ Cardinality({i \in chosen : values[i] < v}) < rank
        /\ rank <= Cardinality({i \in chosen : values[i] <= v})

LEMMA RankExists ==
    ASSUME NEW chosen, IsFiniteSet(chosen), NEW values, NEW b \in Nat,
           \A i \in chosen : values[i] \in Nat /\ values[i] <= b,
           NEW rank \in 1..Cardinality(chosen)
    PROVE  HasRank(chosen, values, rank)
<1> DEFINE I == {values[i] : i \in chosen}
           AtMost(v) == {i \in chosen : values[i] <= v}
           Below(v) == {i \in chosen : values[i] < v}
           T == {v \in I : rank <= Cardinality(AtMost(v))}
<1>1. I \in SUBSET Nat /\ \A v \in I : v <= b
  OBVIOUS
<1>2. Cardinality(chosen) \in Nat
  BY FS_CardinalityType
<1>3. \A v : /\ AtMost(v) \subseteq chosen /\ Below(v) \subseteq chosen
             /\ Cardinality(AtMost(v)) \in Nat /\ Cardinality(Below(v)) \in Nat
  <2> SUFFICES ASSUME NEW v
               PROVE  /\ AtMost(v) \subseteq chosen /\ Below(v) \subseteq chosen
                      /\ Cardinality(AtMost(v)) \in Nat /\ Cardinality(Below(v)) \in Nat
    OBVIOUS
  <2>1. AtMost(v) \subseteq chosen /\ Below(v) \subseteq chosen
    OBVIOUS
  <2> HIDE DEF AtMost, Below
  <2>2. IsFiniteSet(AtMost(v)) /\ IsFiniteSet(Below(v))
    BY <2>1, FS_Subset
  <2> QED BY <2>1, <2>2, FS_CardinalityType
<1>4. I # {}
  <2>1. chosen # {}
    BY <1>2, FS_EmptySet
  <2> QED BY <2>1
<1>5. T # {}
  <2>1. PICK v \in I : \A w \in I : w <= v
    BY <1>1, <1>4, Greatest
  <2>2. AtMost(v) = chosen
    BY <2>1
  <2>3. rank <= Cardinality(AtMost(v))
    <3> HIDE DEF AtMost
    <3> QED BY <1>2, <2>2
  <2> QED BY <2>3
<1>6. PICK v \in T : \A w \in T : v <= w
  <2>1. T \in SUBSET Nat
    BY <1>1
  <2> HIDE DEF T
  <2> QED BY <1>5, <2>1, LeastNumber
<1>7. v \in I /\ rank <= Cardinality(AtMost(v)) /\ v \in Nat
  BY <1>1, <1>6
<1>8. Cardinality(Below(v)) < rank
  <2> SUFFICES ASSUME rank <= Cardinality(Below(v)) PROVE FALSE
    <3>1. Cardinality(Below(v)) \in Nat
      BY <1>3
    <3> HIDE DEF Below
    <3> QED BY <1>2, <3>1
  <2> DEFINE J == {values[i] : i \in Below(v)}
  <2>1. Below(v) # {}
    <3>1. Cardinality(Below(v)) # 0
      <4> HIDE DEF Below
      <4> QED BY <1>2
    <3> QED BY <3>1, FS_EmptySet
  <2>2. J \in SUBSET Nat /\ J # {} /\ J \subseteq I /\ \A w \in J : w < v /\ w <= b
    BY <2>1
  <2>3. PICK w \in J : \A u \in J : u <= w
    <3> HIDE DEF J
    <3> QED BY <2>2, Greatest
  <2>4. Below(v) \subseteq AtMost(w)
    BY <2>3
  <2>5. Cardinality(Below(v)) <= Cardinality(AtMost(w))
    <3>1. IsFiniteSet(AtMost(w))
      BY <1>3, FS_Subset
    <3> HIDE DEF AtMost, Below
    <3> QED BY <2>4, <3>1, FS_Subset
  <2>6. rank <= Cardinality(AtMost(w))
    <3>1. Cardinality(Below(v)) \in Nat /\ Cardinality(AtMost(w)) \in Nat
      BY <1>3
    <3> HIDE DEF AtMost, Below
    <3> QED BY <1>2, <2>5, <3>1
  <2>7. w \in T /\ w < v
    BY <2>2, <2>3, <2>6
  <2> QED BY <1>1, <1>6, <1>7, <2>7
<1> QED BY <1>7, <1>8 DEF HasRank

\* The count is that of the chosen values, and none of them exceeds the greatest.
LEMMA DistributionIs ==
    ASSUME NEW chosen, IsFiniteSet(chosen), NEW values, NEW b \in Nat,
           \A i \in chosen : values[i] \in Nat /\ values[i] <= b
    PROVE  /\ Distribution(chosen, values).count = Cardinality(chosen)
           /\ \A p \in Distribution(chosen, values).p95, m \in Distribution(chosen, values).max : p <= m
<1> DEFINE n == Cardinality(chosen)
           d == Distribution(chosen, values)
           I == {values[i] : i \in chosen}
           AtMost(v) == {i \in chosen : values[i] <= v}
           Below(v) == {i \in chosen : values[i] < v}
           Ranked(rank) == CHOOSE v \in {values[i] : i \in chosen} :
                   /\ Cardinality({i \in chosen : values[i] < v}) < rank
                   /\ rank <= Cardinality({i \in chosen : values[i] <= v})
<1>1. n \in Nat
  BY FS_CardinalityType
<1>2. CASE n = 0
  BY <1>2 DEF Distribution
<1>3. CASE n # 0
  <2> DEFINE mean == {SumOf(chosen, values) \div n}
             p95 == Ranked(P95Rank(n))
             max == Ranked(n)
  <2>1. d = [count |-> n, mean |-> mean, p95 |-> {p95}, max |-> {max}]
    BY <1>3 DEF Distribution
  <2>2. P95Rank(n) \in 1..n /\ n \in 1..n
    BY <1>1, <1>3 DEF P95Rank
  <2>3. ASSUME NEW rank \in 1..n
        PROVE  /\ Ranked(rank) \in I
               /\ rank <= Cardinality(AtMost(Ranked(rank)))
    <3>1. \E v \in {values[i] : i \in chosen} :
              /\ Cardinality({i \in chosen : values[i] < v}) < rank
              /\ rank <= Cardinality({i \in chosen : values[i] <= v})
      <4>1. HasRank(chosen, values, rank)
        BY RankExists
      <4> QED BY <4>1 DEF HasRank
    <3> QED BY <3>1, Zenon
  <2>4. p95 \in I /\ max \in I /\ n <= Cardinality(AtMost(max))
    BY <2>2, <2>3
  <2> HIDE DEF p95, max, mean
  <2>5. AtMost(max) = chosen
    <3>1. AtMost(max) \in SUBSET chosen
      OBVIOUS
    <3> HIDE DEF AtMost
    <3>2. Cardinality(AtMost(max)) <= n /\ Cardinality(AtMost(max)) \in Nat
      BY <3>1, FS_Subset, FS_CardinalityType
    <3>3. Cardinality(AtMost(max)) = n
      BY <1>1, <2>4, <3>2
    <3> QED BY <3>1, <3>3, FS_Subset
  <2>6. p95 <= max
    BY <2>4, <2>5
  <2> HIDE DEF d, n
  <2> QED BY <2>1, <2>6 DEF d, n
<1> QED BY <1>2, <1>3

----------------------------------------------------------------------------
(* Samples, as they are recorded, written and read *)

Outcome == {"completed", "command_sweep_threw", "session_sweep_threw", "policy_evaluate_threw"}
Sample == [id : Nat, started : Nat, command : Nat, session : Nat, policy : Nat, finished : Nat,
           outcome : Outcome]

LEMMA ValidTimes ==
    ASSUME NEW s, IsValidSample(s)
    PROVE  s.outcome \in Outcome /\ (s.outcome = "completed" => s.policy = s.finished)
BY DEF IsValidSample, Outcome

LEMMA ValidOrder ==
    ASSUME NEW s \in Sample, IsValidSample(s)
    PROVE  s.started <= s.finished
<1>1. /\ s.started \in Nat /\ s.command \in Nat /\ s.session \in Nat /\ s.policy \in Nat
      /\ s.finished \in Nat /\ s.outcome \in Outcome
  BY DEF Sample
<1>2. CASE s.outcome = "completed"
  BY <1>1, <1>2 DEF IsValidSample
<1>3. CASE s.outcome = "command_sweep_threw"
  BY <1>1, <1>3 DEF IsValidSample
<1>4. CASE s.outcome = "session_sweep_threw"
  BY <1>1, <1>4 DEF IsValidSample
<1>5. CASE s.outcome = "policy_evaluate_threw"
  BY <1>1, <1>5 DEF IsValidSample
<1> QED BY <1>1, <1>2, <1>3, <1>4, <1>5 DEF Outcome

\* What is written of a sample is read as it was.
LEMMA SampleRoundTrip ==
    ASSUME NEW s \in Sample, IsValidSample(s)
    PROVE  Parses(SerializedSample(s)) /\ ParsedSample(SerializedSample(s)) = s
<1> DEFINE v == SerializedSample(s)
           C == Completes(s.outcome)
           End(phase) == IF phase \in C THEN CHOOSE n \in v[phase] : TRUE ELSE 0
<1>1. /\ v.id = s.id /\ v.started = s.started /\ v.finished = s.finished /\ v.outcome = s.outcome
      /\ v["command"] = Endpoint(s, "command") /\ v["session"] = Endpoint(s, "session")
      /\ v["policy"] = Endpoint(s, "policy")
  BY DEF SerializedSample
<1>2. \A phase \in {"command", "session", "policy"} :
         v[phase] = IF phase \in C THEN {s[phase]} ELSE {}
  BY <1>1 DEF Endpoint
<1> HIDE DEF v
<1>3. /\ "command" \notin C => s.command = 0
      /\ "session" \notin C => s.session = 0
      /\ "policy" \notin C => s.policy = 0
  <2>1. s.outcome \in Outcome
    BY DEF Sample
  <2>2. CASE s.outcome = "completed"
    BY <2>2 DEF Completes
  <2>3. CASE s.outcome = "command_sweep_threw"
    BY <2>3 DEF IsValidSample
  <2>4. CASE s.outcome = "session_sweep_threw"
    BY <2>4 DEF IsValidSample, Completes
  <2>5. CASE s.outcome = "policy_evaluate_threw"
    BY <2>5 DEF IsValidSample, Completes
  <2> QED BY <2>1, <2>2, <2>3, <2>4, <2>5 DEF Outcome
<1> HIDE DEF C
<1>4. \A phase \in {"command", "session", "policy"} : End(phase) = IF phase \in C THEN s[phase] ELSE 0
  <2> SUFFICES ASSUME NEW phase \in {"command", "session", "policy"}
               PROVE  End(phase) = IF phase \in C THEN s[phase] ELSE 0
    OBVIOUS
  <2>1. CASE phase \in C
    <3>1. v[phase] = {s[phase]}
      BY <1>2, <2>1
    <3>2. \A x : (CHOOSE n \in {x} : TRUE) = x
      OBVIOUS
    <3> QED BY <2>1, <3>1, <3>2
  <2>2. CASE phase \notin C
    BY <2>2
  <2> QED BY <2>1, <2>2
<1>5. End("command") = s.command /\ End("session") = s.session /\ End("policy") = s.policy
  <2>1. /\ End("command") = IF "command" \in C THEN s.command ELSE 0
        /\ End("session") = IF "session" \in C THEN s.session ELSE 0
        /\ End("policy") = IF "policy" \in C THEN s.policy ELSE 0
    BY <1>4
  <2> HIDE DEF End
  <2> QED BY <1>3, <2>1
<1>6. ParsedSample(v) = [id |-> v.id, started |-> v.started, finished |-> v.finished,
                         outcome |-> v.outcome, command |-> End("command"),
                         session |-> End("session"), policy |-> End("policy")]
  BY <1>1 DEF ParsedSample, C
<1> HIDE DEF End
<1>7. ParsedSample(v) = s
  BY <1>1, <1>5, <1>6 DEF Sample
<1>8. Parses(v)
  <2>1. \A phase \in {"command", "session", "policy"} : v[phase] # {} <=> phase \in Completes(v.outcome)
    <3> SUFFICES ASSUME NEW phase \in {"command", "session", "policy"}
                 PROVE  v[phase] # {} <=> phase \in Completes(v.outcome)
      OBVIOUS
    <3>1. v[phase] # {} <=> phase \in C
      BY <1>2
    <3> QED BY <1>1, <3>1 DEF C
  <2> QED BY <1>7, <2>1 DEF Parses
<1> QED BY <1>7, <1>8 DEF v

----------------------------------------------------------------------------
(* What an analysis counts *)

Selected(samples, window, through) == {i \in DOMAIN samples : InWindow(samples[i], window, through)}
EndedWith(samples, selected, outcome) == {i \in selected : samples[i].outcome = outcome}
TickTimes(samples) == [i \in DOMAIN samples |-> samples[i].finished - samples[i].started]
Pairs(selected) == {i \in selected : i - 1 \in selected}
Adjacent(samples, selected) == {i \in Pairs(selected) : samples[i].id - samples[i - 1].id = 1}
Intervals(samples, selected) ==
    [i \in DOMAIN samples |->
        IF i \in Pairs(selected) THEN samples[i].started - samples[i - 1].started ELSE 0]

\* The part of a summary the properties are about.
Summary(summary, samples, f, selected) ==
    /\ summary.error = "none" /\ summary.origin = f.origin /\ summary.dropped = f.dropped
    /\ summary.selected_ticks = Cardinality(selected)
    /\ summary.completed_ticks = Cardinality(EndedWith(samples, selected, "completed"))
    /\ summary.duration_us = SumOf(EndedWith(samples, selected, "completed"), Microseconds(TickTimes(samples)))
    /\ \A o \in Outcome \ {"completed"} :
           summary.failures[o] = Cardinality(EndedWith(samples, selected, o))
    /\ summary.tick = Distribution(EndedWith(samples, selected, "completed"), TickTimes(samples))
    /\ summary.start_interval = Distribution(Adjacent(samples, selected), Intervals(samples, selected))
    /\ summary.start_interval_gaps = Cardinality(Pairs(selected) \ Adjacent(samples, selected))

LEMMA SummarizedIs ==
    ASSUME NEW samples, NEW f, NEW window, NEW through
    PROVE  LET selected == Selected(samples, window, through)
               fits == /\ ~ SumOf(EndedWith(samples, selected, "completed"), TickTimes(samples)) > MaxU64
                       /\ ~ SumOf(Adjacent(samples, selected), Intervals(samples, selected)) > MaxU64
               summary == Summarized(samples, f, window, through)
           IN  (fits \/ summary.error = "none") => Summary(summary, samples, f, selected)
<1> DEFINE selected == Selected(samples, window, through)
           completed == EndedWith(samples, selected, "completed")
           adjacent == Adjacent(samples, selected)
           intervals == Intervals(samples, selected)
           ticks == TickTimes(samples)
           fits == ~ SumOf(completed, ticks) > MaxU64 /\ ~ SumOf(adjacent, intervals) > MaxU64
           failures == [o \in {"command_sweep_threw", "session_sweep_threw",
                               "policy_evaluate_threw"} |-> Cardinality(EndedWith(samples, selected, o))]
           Over(from, to) == [i \in DOMAIN samples |-> samples[i][to] - samples[i][from]]
           command == Distribution(completed, Over("started", "command"))
           session == Distribution(completed, Over("command", "session"))
           policy == Distribution(completed, Over("session", "policy"))
           all == [error |-> "none", origin |-> f.origin, dropped |-> f.dropped,
                   selected_ticks |-> Cardinality(selected), completed_ticks |-> Cardinality(completed),
                   duration_us |-> SumOf(completed, Microseconds(ticks)), failures |-> failures,
                   tick |-> Distribution(completed, ticks), command_sweep |-> command,
                   session_sweep |-> session, policy_evaluate |-> policy,
                   start_interval |-> Distribution(adjacent, intervals),
                   start_interval_gaps |-> Cardinality(Pairs(selected) \ adjacent)]
           summary == Summarized(samples, f, window, through)
<1>1. summary = IF ~ fits THEN Error("arithmetic_overflow") ELSE all
  BY DEF Summarized, Selected, EndedWith, Adjacent, Pairs, Intervals, TickTimes
<1>2. Error("arithmetic_overflow").error # "none"
  BY DEF Error
<1>3. fits \/ summary.error = "none" => summary = all
  BY <1>1, <1>2
<1>4. \A o \in Outcome \ {"completed"} : failures[o] = Cardinality(EndedWith(samples, selected, o))
  BY DEF Outcome
<1> HIDE DEF command, session, policy, failures, completed, adjacent, intervals, ticks, selected
<1>5. /\ all.error = "none" /\ all.origin = f.origin /\ all.dropped = f.dropped
      /\ all.selected_ticks = Cardinality(selected) /\ all.completed_ticks = Cardinality(completed)
      /\ all.duration_us = SumOf(completed, Microseconds(ticks)) /\ all.failures = failures
      /\ all.tick = Distribution(completed, ticks) /\ all.start_interval = Distribution(adjacent, intervals)
      /\ all.start_interval_gaps = Cardinality(Pairs(selected) \ adjacent)
  OBVIOUS
<1> HIDE DEF all, summary, fits
<1>6. ASSUME fits \/ summary.error = "none" PROVE Summary(summary, samples, f, selected)
  BY <1>3, <1>4, <1>5, <1>6 DEF Summary, completed, adjacent, intervals, ticks
<1> QED BY <1>6 DEF fits, summary, selected, completed, adjacent, intervals, ticks

----------------------------------------------------------------------------
(* Analyses of a file *)

ReadSamples(f) == [i \in DOMAIN f.samples |-> ParsedSample(f.samples[i])]

\* What makes a file readable.
Sound(f) ==
    /\ f.schema = "v1"
    /\ f.capacity # 0 /\ ~ f.captured > f.capacity /\ f.captured = Len(f.samples)
    /\ \A b \in f.origin : ~ b.before > b.after
    /\ \A i \in DOMAIN f.samples : Parses(f.samples[i])
    /\ Ordered(ReadSamples(f))

LEMMA AnalyzedIs ==
    ASSUME NEW f, NEW window, NEW through
    PROVE  /\ Analyzed(f, window, through).error = "none" => Sound(f)
           /\ Sound(f) /\ (\A from \in window.from, to \in window.to : ~ from > to) =>
                 Analyzed(f, window, through) = Summarized(ReadSamples(f), f, window, through)
           /\ Analyzed(f, window, through).error = "none" =>
                 Analyzed(f, window, through) = Summarized(ReadSamples(f), f, window, through)
           /\ Analyzed(f, window, through).error # "pass"
<1> DEFINE samples == ReadSamples(f)
           a == Analyzed(f, window, through)
           summary == Summarized(samples, f, window, through)
           W == \E from \in window.from, to \in window.to : from > to
           S == f.schema # "v1"
           R == f.capacity = 0 \/ f.captured > f.capacity \/ f.captured # Len(f.samples)
                   \/ \E b \in f.origin : b.before > b.after
           P == \E i \in DOMAIN f.samples : ~ Parses(f.samples[i])
<1>1. a = IF W THEN Error("invalid_window")
          ELSE IF S THEN Error("unsupported_schema")
          ELSE IF R THEN Error("invalid_recording")
          ELSE IF P THEN Error("invalid_recording")
          ELSE IF ~ Ordered(samples) THEN Error("invalid_recording")
          ELSE summary
  BY DEF Analyzed, ReadSamples
<1>2. /\ Error("invalid_window").error # "none" /\ Error("unsupported_schema").error # "none"
      /\ Error("invalid_recording").error # "none"
      /\ Error("invalid_window").error # "pass" /\ Error("unsupported_schema").error # "pass"
      /\ Error("invalid_recording").error # "pass"
  BY DEF Error
<1>5. summary.error # "pass"
  BY DEF Summarized, Error
<1>3. Sound(f) <=> ~ S /\ ~ R /\ ~ P /\ Ordered(samples)
  BY DEF Sound
<1> HIDE DEF S, R, P, samples, summary, a
<1>4. (\A from \in window.from, to \in window.to : ~ from > to) => ~ W
  OBVIOUS
<1> HIDE DEF W
<1> QED BY <1>1, <1>2, <1>3, <1>4, <1>5 DEF a, summary, samples

\* The file of a run.
FileOf(rs, dropped, b) ==
    [schema |-> "v1", origin |-> b, capacity |-> SampleCapacity, captured |-> Len(rs),
     dropped |-> dropped, samples |-> [i \in DOMAIN rs |-> SerializedSample(rs[i])]]

\* The samples of a run of which the first so many ticks were completed.
GoodRun(rs, count) ==
    /\ rs \in Seq(Sample)
    /\ \A i \in 1..Len(rs) : /\ rs[i].id = i /\ IsValidSample(rs[i])
                             /\ InTime(rs[i].finished)
                             /\ rs[i].outcome = "completed" <=> i <= count
    /\ \A i, j \in 1..Len(rs) : i < j => rs[i].finished <= rs[j].started

LEMMA RunTimes ==
    ASSUME ProfileConstants, NEW rs, NEW count, GoodRun(rs, count)
    PROVE  /\ Len(rs) \in Nat /\ DOMAIN rs = 1..Len(rs)
           /\ \A i \in 1..Len(rs) :
                /\ rs[i] \in Sample
                /\ rs[i].id = i /\ rs[i].started \in Nat /\ rs[i].finished \in Nat
                /\ rs[i].started <= rs[i].finished /\ rs[i].finished <= MaxU64
                /\ rs[i].outcome \in Outcome
           /\ \A i, j \in 1..Len(rs) : i <= j => rs[i].started <= rs[j].started
<1>1. rs \in Seq(Sample) /\ Len(rs) \in Nat /\ DOMAIN rs = 1..Len(rs)
  BY DEF GoodRun
<1>2. ASSUME NEW i \in 1..Len(rs)
      PROVE  /\ rs[i] \in Sample
             /\ rs[i].id = i /\ rs[i].started \in Nat /\ rs[i].finished \in Nat
             /\ rs[i].started <= rs[i].finished /\ rs[i].finished <= MaxU64
             /\ rs[i].outcome \in Outcome
  <2>1. rs[i] \in Sample
    BY <1>1
  <2>2. rs[i].id = i /\ IsValidSample(rs[i]) /\ InTime(rs[i].finished)
    BY DEF GoodRun
  <2>3. rs[i].started \in Nat /\ rs[i].finished \in Nat /\ rs[i].outcome \in Outcome
    BY <2>1 DEF Sample
  <2>4. rs[i].started <= rs[i].finished
    BY <2>1, <2>2, ValidOrder
  <2>5. rs[i].finished <= MaxU64
    BY <2>2, <2>3, ProfileParameters DEF InTime
  <2> QED BY <2>1, <2>2, <2>3, <2>4, <2>5
<1>3. ASSUME NEW i \in 1..Len(rs), NEW j \in 1..Len(rs), i <= j PROVE rs[i].started <= rs[j].started
  <2>1. CASE i = j
    BY <1>2, <2>1
  <2>2. CASE i # j
    <3>1. rs[i].finished <= rs[j].started
      BY <1>1, <1>3, <2>2 DEF GoodRun
    <3>2. rs[i].started <= rs[i].finished /\ rs[i].started \in Nat /\ rs[i].finished \in Nat
          /\ rs[j].started \in Nat
      BY <1>2
    <3> QED BY <3>1, <3>2
  <2> QED BY <2>1, <2>2
<1> QED BY <1>1, <1>2, <1>3

LEMMA RunReadBack ==
    ASSUME ProfileConstants, NEW rs, NEW count, GoodRun(rs, count), NEW dropped, NEW b
    PROVE  /\ ReadSamples(FileOf(rs, dropped, b)) = rs /\ Ordered(rs)
           /\ \A i \in DOMAIN FileOf(rs, dropped, b).samples : Parses(FileOf(rs, dropped, b).samples[i])
<1> DEFINE ss == FileOf(rs, dropped, b).samples
<1>1. ss = [i \in DOMAIN rs |-> SerializedSample(rs[i])]
  BY DEF FileOf
<1>2. DOMAIN ss = 1..Len(rs) /\ DOMAIN rs = 1..Len(rs)
  BY <1>1, RunTimes
<1>3. \A i \in 1..Len(rs) : ss[i] = SerializedSample(rs[i])
  BY <1>1, <1>2
<1>4. ASSUME NEW i \in 1..Len(rs) PROVE Parses(ss[i]) /\ ParsedSample(ss[i]) = rs[i]
  <2>1. rs[i] \in Sample /\ IsValidSample(rs[i])
    BY DEF GoodRun
  <2>2. Parses(SerializedSample(rs[i])) /\ ParsedSample(SerializedSample(rs[i])) = rs[i]
    BY <2>1, SampleRoundTrip
  <2> QED BY <1>3, <2>2
<1>5. ReadSamples(FileOf(rs, dropped, b)) = [i \in DOMAIN ss |-> ParsedSample(ss[i])]
  BY DEF ReadSamples
<1> HIDE DEF ss
<1>6. [i \in DOMAIN ss |-> ParsedSample(ss[i])] = rs
  <2>1. rs = [i \in 1..Len(rs) |-> rs[i]]
    BY DEF GoodRun
  <2> QED BY <1>2, <1>4, <2>1
<1>7. Ordered(rs)
  <2> SUFFICES ASSUME NEW i \in 2..Len(rs)
               PROVE  rs[i].id > rs[i - 1].id /\ rs[i].started >= rs[i - 1].started
    BY DEF Ordered
  <2>1. Len(rs) \in Nat
    BY RunTimes
  <2>2. i \in 1..Len(rs) /\ i - 1 \in 1..Len(rs) /\ i - 1 <= i /\ i > i - 1
    BY <2>1
  <2>3. rs[i].id = i /\ rs[i - 1].id = i - 1 /\ rs[i - 1].started <= rs[i].started
        /\ rs[i].started \in Nat /\ rs[i - 1].started \in Nat
    BY <2>2, RunTimes
  <2> QED BY <2>2, <2>3
<1>8. \A i \in DOMAIN ss : Parses(ss[i])
  BY <1>2, <1>4
<1> QED BY <1>5, <1>6, <1>7, <1>8 DEF ss

\* The sums over a run do not leave 64 bits: its ticks lie one behind the other.
LEMMA RunSums ==
    ASSUME ProfileConstants, NEW rs, NEW count, GoodRun(rs, count), NEW selected \in SUBSET (1..Len(rs))
    PROVE  /\ ~ SumOf(EndedWith(rs, selected, "completed"), TickTimes(rs)) > MaxU64
           /\ ~ SumOf(Adjacent(rs, selected), Intervals(rs, selected)) > MaxU64
           /\ TickTimes(rs) \in Seq(Nat) /\ Len(TickTimes(rs)) = Len(rs)
           /\ \A i \in 1..Len(rs) : TickTimes(rs)[i] = rs[i].finished - rs[i].started
<1> DEFINE L == Len(rs)
           v == TickTimes(rs)
           w == Intervals(rs, selected)
           c == EndedWith(rs, selected, "completed")
           d == Adjacent(rs, selected)
           P == Pairs(selected)
           ends == [i \in 0..L |-> IF i = 0 THEN 0 ELSE rs[i].finished]
           starts == [i \in 0..L |-> IF i = 0 THEN 0 ELSE rs[i].started]
<1>1. /\ L \in Nat /\ DOMAIN rs = 1..L /\ MaxU64 \in Nat
      /\ \A i \in 1..L : /\ rs[i].started \in Nat /\ rs[i].finished \in Nat
                         /\ rs[i].started <= rs[i].finished /\ rs[i].finished <= MaxU64
      /\ \A i, j \in 1..L : i <= j => rs[i].started <= rs[j].started
  BY RunTimes, ProfileParameters
<1>2. \A i, j \in 1..L : i < j => rs[i].finished <= rs[j].started
  BY DEF GoodRun
<1>3. ASSUME NEW i \in P PROVE i \in 1..L /\ i - 1 \in 1..L
  BY <1>3 DEF Pairs
<1>4. v = [i \in 1..L |-> rs[i].finished - rs[i].started]
  BY <1>1 DEF TickTimes
<1>5. w = [i \in 1..L |-> IF i \in P THEN rs[i].started - rs[i - 1].started ELSE 0]
  BY <1>1 DEF Intervals
<1> HIDE DEF L, v, w, c, d, P
<1>6. \A i \in 1..L : rs[i].finished - rs[i].started \in Nat
  BY <1>1
<1>7. v \in Seq(Nat) /\ Len(v) = L /\ \A i \in 1..L : v[i] = rs[i].finished - rs[i].started
  BY <1>1, <1>4, <1>6
<1>8. ASSUME NEW i \in 1..L PROVE (IF i \in P THEN rs[i].started - rs[i - 1].started ELSE 0) \in Nat
  <2>1. CASE i \in P
    <3>1. i - 1 \in 1..L /\ i - 1 <= i
      BY <1>3, <2>1
    <3>2. rs[i - 1].started <= rs[i].started /\ rs[i - 1].started \in Nat /\ rs[i].started \in Nat
      BY <1>1, <3>1
    <3> QED BY <3>2
  <2> QED BY <2>1
<1>9. w \in Seq(Nat) /\ Len(w) = L
      /\ \A i \in 1..L : w[i] = IF i \in P THEN rs[i].started - rs[i - 1].started ELSE 0
  BY <1>1, <1>5, <1>8
<1>10. /\ ends[0] = 0 /\ starts[0] = 0
       /\ \A i \in 1..L : ends[i] = rs[i].finished /\ starts[i] = rs[i].started
       /\ ends \in [0..L -> Nat] /\ starts \in [0..L -> Nat]
  <2>1. \A i \in 0..L : i # 0 => i \in 1..L
    BY <1>1
  <2> QED BY <1>1, <2>1
<1> HIDE DEF ends, starts
<1>11. \A i \in 0..L : ends[i] <= MaxU64 /\ starts[i] <= MaxU64
  <2> SUFFICES ASSUME NEW i \in 0..L PROVE ends[i] <= MaxU64 /\ starts[i] <= MaxU64
    OBVIOUS
  <2>1. CASE i = 0
    BY <1>1, <1>10, <2>1
  <2>2. CASE i # 0
    <3>1. i \in 1..L
      BY <1>1, <2>2
    <3>2. ends[i] = rs[i].finished /\ starts[i] = rs[i].started
      BY <1>10, <3>1
    <3>3. /\ rs[i].started \in Nat /\ rs[i].finished \in Nat
          /\ rs[i].started <= rs[i].finished /\ rs[i].finished <= MaxU64
      BY <1>1, <3>1
    <3> QED BY <1>1, <3>2, <3>3
  <2> QED BY <2>1, <2>2
<1>12. ASSUME NEW i \in 1..L PROVE ends[i - 1] + (IF i \in c THEN v[i] ELSE 0) <= ends[i]
  <2>1. ends[i - 1] \in Nat /\ ends[i - 1] <= rs[i].started
    <3>1. CASE i = 1
      <4>1. i - 1 = 0 /\ rs[i].started \in Nat
        BY <1>1, <3>1
      <4>2. ends[i - 1] = 0
        BY <1>10, <4>1
      <4> QED BY <4>1, <4>2
    <3>2. CASE i # 1
      <4>1. i - 1 \in 1..L /\ i - 1 < i
        BY <1>1, <3>2
      <4>2. rs[i - 1].finished <= rs[i].started
        BY <1>2, <4>1
      <4> QED BY <1>1, <1>10, <4>1, <4>2
    <3> QED BY <3>1, <3>2
  <2>2. /\ ends[i] = rs[i].finished /\ v[i] = rs[i].finished - rs[i].started
        /\ rs[i].started \in Nat /\ rs[i].finished \in Nat /\ rs[i].started <= rs[i].finished
    BY <1>1, <1>7, <1>10
  <2> QED BY <2>1, <2>2
<1>13. ASSUME NEW i \in 1..L PROVE starts[i - 1] + (IF i \in d THEN w[i] ELSE 0) <= starts[i]
  <2>1. i \in d => i \in P
    BY DEF d, P, Adjacent
  <2>2. CASE i = 1
    <3>1. i \notin P
      BY <1>1, <1>3, <2>2
    <3>2. starts[i - 1] = 0 /\ starts[i] \in Nat
      BY <1>1, <1>10, <2>2
    <3> QED BY <2>1, <3>1, <3>2
  <2>3. CASE i # 1
    <3>1. i - 1 \in 1..L /\ i - 1 <= i
      BY <1>1, <2>3
    <3>2. /\ starts[i - 1] = rs[i - 1].started /\ starts[i] = rs[i].started
          /\ rs[i - 1].started <= rs[i].started /\ rs[i - 1].started \in Nat /\ rs[i].started \in Nat
      BY <1>1, <1>10, <3>1
    <3>3. i \in d => w[i] = rs[i].started - rs[i - 1].started
      BY <1>9, <2>1
    <3> QED BY <3>2, <3>3
  <2> QED BY <2>2, <2>3
<1>14. SumOf(c, v) \in Nat /\ SumOf(c, v) <= ends[L]
  BY <1>7, <1>10, <1>12, SumsBelow
<1>15. SumOf(d, w) \in Nat /\ SumOf(d, w) <= starts[L]
  BY <1>9, <1>10, <1>13, SumsBelow
<1>16. ends[L] \in Nat /\ starts[L] \in Nat /\ ends[L] <= MaxU64 /\ starts[L] <= MaxU64
  BY <1>1, <1>10, <1>11
<1>17. ~ SumOf(c, v) > MaxU64 /\ ~ SumOf(d, w) > MaxU64
  BY <1>1, <1>14, <1>15, <1>16
<1> QED BY <1>7, <1>17 DEF c, d, v, w, L

\* The analysis of the file of a run.
LEMMA RunSummary ==
    ASSUME ProfileConstants, NEW rs, NEW count, GoodRun(rs, count), Len(rs) <= SampleCapacity,
           NEW dropped, NEW b, \A x \in b : ~ x.before > x.after,
           NEW window, NEW through,
           \/ Analyzed(FileOf(rs, dropped, b), window, through).error = "none"
           \/ \A from \in window.from, to \in window.to : ~ from > to
    PROVE  Summary(Analyzed(FileOf(rs, dropped, b), window, through), rs, FileOf(rs, dropped, b),
                   Selected(rs, window, through))
<1> DEFINE f == FileOf(rs, dropped, b)
           a == Analyzed(f, window, through)
           selected == Selected(rs, window, through)
<1>1. /\ f.schema = "v1" /\ f.origin = b /\ f.capacity = SampleCapacity /\ f.captured = Len(rs)
      /\ f.dropped = dropped /\ f.samples = [i \in DOMAIN rs |-> SerializedSample(rs[i])]
  BY DEF FileOf
<1>2. Len(rs) \in Nat /\ DOMAIN rs = 1..Len(rs)
  BY RunTimes
<1>3. Len(f.samples) = Len(rs)
  BY <1>1, <1>2
<1>4. ReadSamples(f) = rs /\ Ordered(rs) /\ \A i \in DOMAIN f.samples : Parses(f.samples[i])
  BY RunReadBack
<1>5. Sound(f)
  <2>1. SampleCapacity # 0 /\ ~ Len(rs) > SampleCapacity
    BY <1>2, ProfileParameters
  <2> HIDE DEF f
  <2> QED BY <1>1, <1>3, <1>4, <2>1 DEF Sound
<1>6. a = Summarized(rs, f, window, through)
  <2>1. a = Summarized(ReadSamples(f), f, window, through)
    BY <1>5, AnalyzedIs
  <2> QED BY <1>4, <2>1
<1>7. selected \in SUBSET (1..Len(rs))
  BY <1>2 DEF Selected
<1>8. /\ ~ SumOf(EndedWith(rs, selected, "completed"), TickTimes(rs)) > MaxU64
      /\ ~ SumOf(Adjacent(rs, selected), Intervals(rs, selected)) > MaxU64
  BY <1>7, RunSums
<1>9. Summary(Summarized(rs, f, window, through), rs, f, selected)
  BY <1>8, SummarizedIs
<1> QED BY <1>6, <1>9

----------------------------------------------------------------------------
(* profile-verify *)

Us(rs) == Microseconds(TickTimes(rs))

LEMMA MicrosecondsAre ==
    ASSUME ProfileConstants, NEW v \in Seq(Nat)
    PROVE  /\ Microseconds(v) \in Seq(Nat) /\ Len(Microseconds(v)) = Len(v)
           /\ \A i \in 1..Len(v) : Microseconds(v)[i] = v[i] \div NsPerUs
<1>1. NsPerUs \in Nat \ {0}
  BY ProfileParameters
<1>2. ASSUME NEW i \in 1..Len(v) PROVE v[i] \div NsPerUs \in Nat
  <2>1. v[i] \in Nat
    OBVIOUS
  <2> QED BY <1>1, <2>1, Quotient
<1>3. Microseconds(v) = [i \in 1..Len(v) |-> v[i] \div NsPerUs]
  BY DEF Microseconds
<1> QED BY <1>2, <1>3

\* What it takes to pass.
LEMMA PassMeans ==
    ASSUME ProfileConstants, NEW us \in 0..MaxU64, NEW n,
           snapshot = [ticks |-> n, duration |-> AsSeconds(us)]
    PROVE  LET a == Analyzed(file, Anything, {n}) IN
           Verified = "pass" <=> /\ a.error = "none" /\ a.dropped = 0 /\ a.selected_ticks = n
                                 /\ a.completed_ticks = n /\ a.duration_us = us
<1> DEFINE a == Analyzed(file, Anything, {n})
           duration == ParseSeconds(snapshot.duration)
<1>1. snapshot.ticks = n /\ duration = {us}
  BY SecondsRoundTrip
<1>2. a.error # "pass"
  BY AnalyzedIs
<1>3. (CHOOSE x \in {us} : TRUE) = us
  OBVIOUS
<1>4. Verified = IF a.error # "none" THEN a.error ELSE Crosscheck(a, n, us)
  BY <1>1, <1>3 DEF Verified
<1> HIDE DEF a
<1>5. Crosscheck(a, n, us) = "pass" <=> /\ a.dropped = 0 /\ a.selected_ticks = n
                                        /\ a.completed_ticks = n /\ a.duration_us = us
  BY DEF Crosscheck
<1> QED BY <1>2, <1>4, <1>5 DEF a

\* The first ticks of a run.
LEMMA RunPrefix ==
    ASSUME ProfileConstants, NEW rs, NEW count \in Nat, GoodRun(rs, count), count <= Len(rs),
           NEW n \in 0..count
    PROVE  /\ Selected(rs, Anything, {n}) = 1..n
           /\ EndedWith(rs, 1..n, "completed") = 1..n
           /\ Cardinality(1..n) = n
<1>1. Len(rs) \in Nat /\ DOMAIN rs = 1..Len(rs) /\ \A i \in 1..Len(rs) : rs[i].id = i
  BY RunTimes
<1>2. \A i \in 1..Len(rs) : rs[i].outcome = "completed" <=> i <= count
  BY DEF GoodRun
<1>3. \A i \in DOMAIN rs : InWindow(rs[i], Anything, {n}) <=> i <= n
  BY <1>1 DEF InWindow, Anything
<1>4. Selected(rs, Anything, {n}) = 1..n
  <2>1. \A i : i \in 1..n <=> i \in DOMAIN rs /\ i <= n
    BY <1>1
  <2> QED BY <1>3, <2>1 DEF Selected
<1>5. EndedWith(rs, 1..n, "completed") = 1..n
  <2>1. \A i \in 1..n : i \in 1..Len(rs) /\ i <= count
    BY <1>1
  <2> QED BY <1>2, <2>1 DEF EndedWith
<1>6. Cardinality(1..n) = n
  BY FS_Interval
<1> QED BY <1>4, <1>5, <1>6

\* An untouched recording passes if it is complete.
LEMMA UntouchedVerified ==
    ASSUME ProfileConstants, NEW rs, NEW count \in Nat, GoodRun(rs, count), Len(rs) <= SampleCapacity,
           NEW dropped \in Nat, NEW b, \A x \in b : ~ x.before > x.after,
           NEW n \in 0..count, NEW us \in 0..MaxU64,
           dropped = 0 => count <= Len(rs) /\ us = SumOf(1..n, Us(rs)),
           snapshot = [ticks |-> n, duration |-> AsSeconds(us)],
           file = FileOf(rs, dropped, b)
    PROVE  Verified = "pass" <=> dropped = 0
<1> DEFINE a == Analyzed(file, Anything, {n})
           selected == Selected(rs, Anything, {n})
<1>1. Summary(a, rs, file, selected)
  <2>1. \A from \in Anything.from, to \in Anything.to : ~ from > to
    BY DEF Anything
  <2> QED BY <2>1, RunSummary
<1>2. file.dropped = dropped
  BY DEF FileOf
<1>3. /\ a.error = "none" /\ a.dropped = dropped /\ a.selected_ticks = Cardinality(selected)
      /\ a.completed_ticks = Cardinality(EndedWith(rs, selected, "completed"))
      /\ a.duration_us = SumOf(EndedWith(rs, selected, "completed"), Us(rs))
  BY <1>1, <1>2 DEF Summary, Us
<1>4. Verified = "pass" <=> /\ a.error = "none" /\ a.dropped = 0 /\ a.selected_ticks = n
                            /\ a.completed_ticks = n /\ a.duration_us = us
  BY PassMeans
<1> HIDE DEF a
<1>5. CASE dropped = 0
  <2>1. selected = 1..n /\ EndedWith(rs, 1..n, "completed") = 1..n /\ Cardinality(1..n) = n
    BY <1>5, RunPrefix
  <2> HIDE DEF selected
  <2> QED BY <1>3, <1>4, <1>5, <2>1
<1>6. CASE dropped # 0
  BY <1>3, <1>4, <1>6
<1> QED BY <1>5, <1>6

\* What a changed recording must have in common with the run.
Holds(f, rs, n) ==
    /\ n <= Len(rs) /\ n <= Len(f.samples)
    /\ \A i \in 1..n : f.samples[i] = SerializedSample(rs[i])
    /\ \A i \in DOMAIN f.samples : f.samples[i].id <= n => i <= n

Copies(ss, rs) ==
    /\ Len(rs) \in Nat /\ Len(ss) = Len(rs)
    /\ ss \in Seq({SerializedSample(rs[i]) : i \in 1..Len(rs)})
    /\ \A i \in 1..Len(rs) : ss[i] = SerializedSample(rs[i]) /\ ss[i].id = i

LEMMA FileSamples ==
    ASSUME ProfileConstants, NEW rs, NEW count, GoodRun(rs, count), NEW dropped, NEW b
    PROVE  Copies(FileOf(rs, dropped, b).samples, rs)
<1> DEFINE ss == FileOf(rs, dropped, b).samples
           S == {SerializedSample(rs[i]) : i \in 1..Len(rs)}
<1>1. Len(rs) \in Nat /\ DOMAIN rs = 1..Len(rs) /\ \A i \in 1..Len(rs) : rs[i].id = i
  BY RunTimes
<1>2. ss = [i \in 1..Len(rs) |-> SerializedSample(rs[i])]
  BY <1>1 DEF FileOf
<1>3. \A i \in 1..Len(rs) : SerializedSample(rs[i]).id = i
  BY <1>1 DEF SerializedSample
<1> HIDE DEF ss
<1>4. \A i \in 1..Len(rs) : SerializedSample(rs[i]) \in S
  OBVIOUS
<1> HIDE DEF S
<1>5. ss \in Seq(S) /\ Len(ss) = Len(rs)
  BY <1>1, <1>2, <1>4
<1>6. \A i \in 1..Len(rs) : ss[i] = SerializedSample(rs[i])
  BY <1>2
<1> QED BY <1>1, <1>3, <1>5, <1>6 DEF ss, S, Copies

\* The ticks up to one, as the tool reads them.
LEMMA SelectedById ==
    ASSUME NEW f, NEW n
    PROVE  Selected(ReadSamples(f), Anything, {n}) = {i \in DOMAIN f.samples : f.samples[i].id <= n}
<1> DEFINE ss == ReadSamples(f)
<1>1. DOMAIN ss = DOMAIN f.samples
  BY DEF ReadSamples
<1>2. \A i \in DOMAIN f.samples : ss[i].id = f.samples[i].id
  BY DEF ReadSamples, ParsedSample
<1>3. \A i \in DOMAIN ss : InWindow(ss[i], Anything, {n}) <=> ss[i].id <= n
  BY DEF InWindow, Anything
<1> HIDE DEF ss
<1>4. \A i \in DOMAIN f.samples : InWindow(ss[i], Anything, {n}) <=> f.samples[i].id <= n
  BY <1>1, <1>2, <1>3
<1>5. Selected(ss, Anything, {n}) = {i \in DOMAIN f.samples : InWindow(ss[i], Anything, {n})}
  BY <1>1 DEF Selected
<1> QED BY <1>4, <1>5 DEF ss

\* Of an analysis up to a tick that succeeds.
LEMMA Succeeded ==
    ASSUME NEW f, NEW n, Analyzed(f, Anything, {n}).error = "none"
    PROVE  /\ Sound(f)
           /\ Summary(Analyzed(f, Anything, {n}), ReadSamples(f), f,
                      Selected(ReadSamples(f), Anything, {n}))
<1>1. Sound(f) /\ Analyzed(f, Anything, {n}) = Summarized(ReadSamples(f), f, Anything, {n})
  BY AnalyzedIs
<1>2. Summary(Summarized(ReadSamples(f), f, Anything, {n}), ReadSamples(f), f,
              Selected(ReadSamples(f), Anything, {n}))
  BY <1>1, SummarizedIs
<1> QED BY <1>1, <1>2

LEMMA RemovedAt ==
    ASSUME NEW S, NEW s \in Seq(S), NEW i \in 1..Len(s)
    PROVE  /\ Len(RemoveAt(s, i)) = Len(s) - 1 /\ DOMAIN RemoveAt(s, i) = 1..(Len(s) - 1)
           /\ \A k \in 1..(Len(s) - 1) : RemoveAt(s, i)[k] = IF k < i THEN s[k] ELSE s[k + 1]
<1> DEFINE a == SubSeq(s, 1, i - 1)
           z == SubSeq(s, i + 1, Len(s))
<1>1. Len(s) \in Nat /\ i \in Nat /\ 1 <= i /\ i <= Len(s)
  OBVIOUS
<1>2. a \in Seq(S) /\ Len(a) = i - 1 /\ \A k \in 1..(i - 1) : a[k] = s[k]
  BY <1>1
<1>3. z \in Seq(S) /\ Len(z) = Len(s) - i /\ \A k \in 1..(Len(s) - i) : z[k] = s[i + k]
  BY <1>1
<1>4. RemoveAt(s, i) = a \o z
  BY DEF RemoveAt
<1> HIDE DEF a, z
<1>5. Len(a \o z) = Len(s) - 1 /\ DOMAIN (a \o z) = 1..(Len(s) - 1)
  BY <1>1, <1>2, <1>3
<1>6. ASSUME NEW k \in 1..(Len(s) - 1) PROVE (a \o z)[k] = IF k < i THEN s[k] ELSE s[k + 1]
  <2>1. CASE k < i
    BY <1>1, <1>2, <1>3, <2>1
  <2>2. CASE ~ k < i
    <3>1. k - (i - 1) \in 1..(Len(s) - i) /\ i + (k - (i - 1)) = k + 1
      BY <1>1, <2>2
    <3>2. (a \o z)[k] = z[k - (i - 1)]
      BY <1>1, <1>2, <1>3, <2>2
    <3>3. z[k - (i - 1)] = s[i + (k - (i - 1))]
      BY <1>3, <3>1
    <3> QED BY <2>2, <3>1, <3>2, <3>3
  <2> QED BY <2>1, <2>2
<1> QED BY <1>4, <1>5, <1>6

\* A tick was taken out of the recording: if it was one of those that were counted, one is
\* missing now.
LEMMA RemovedVerified ==
    ASSUME ProfileConstants, NEW rs, NEW count \in Nat, GoodRun(rs, count), count <= Len(rs),
           NEW dropped, NEW b, NEW n \in 0..count, NEW i \in 1..Len(rs), NEW f,
           f.samples = RemoveAt(FileOf(rs, dropped, b).samples, i),
           Analyzed(f, Anything, {n}).error = "none", Analyzed(f, Anything, {n}).selected_ticks = n
    PROVE  Holds(f, rs, n)
<1> DEFINE ss == FileOf(rs, dropped, b).samples
           S == {SerializedSample(rs[j]) : j \in 1..Len(rs)}
           L == Len(rs)
           selected == {k \in DOMAIN f.samples : f.samples[k].id <= n}
<1>1. /\ L \in Nat /\ Len(ss) = L /\ ss \in Seq(S)
      /\ \A k \in 1..L : ss[k] = SerializedSample(rs[k]) /\ ss[k].id = k
  <2>1. Copies(ss, rs)
    BY FileSamples
  <2> HIDE DEF ss
  <2> QED BY <2>1 DEF Copies
<1> HIDE DEF ss, S
<1>2. /\ Len(f.samples) = L - 1 /\ DOMAIN f.samples = 1..(L - 1)
      /\ \A k \in 1..(L - 1) : f.samples[k] = IF k < i THEN ss[k] ELSE ss[k + 1]
  <2>1. i \in 1..Len(ss) /\ f.samples = RemoveAt(ss, i)
    BY <1>1 DEF ss
  <2> QED BY <1>1, <2>1, RemovedAt
<1>3. \A k \in 1..(L - 1) : f.samples[k].id = IF k < i THEN k ELSE k + 1
  <2>1. \A k \in 1..(L - 1) : k \in 1..L /\ k + 1 \in 1..L
    BY <1>1
  <2> QED BY <1>1, <1>2, <2>1
<1>4. Cardinality(selected) = n
  <2>1. Cardinality(Selected(ReadSamples(f), Anything, {n})) = n
    BY Succeeded DEF Summary
  <2> QED BY <2>1, SelectedById
<1>5. n < i
  <2> SUFFICES ASSUME ~ n < i PROVE FALSE
    OBVIOUS
  <2>1. selected = 1..(n - 1)
    <3>1. \A k : k \in 1..(n - 1) <=> k \in 1..(L - 1) /\ (IF k < i THEN k ELSE k + 1) <= n
      BY <1>1
    <3> QED BY <1>2, <1>3, <3>1
  <2>2. n \in Nat /\ n >= 1
    OBVIOUS
  <2>3. Cardinality(1..(n - 1)) = n - 1
    BY <2>2, FS_Interval
  <2> HIDE DEF selected
  <2> QED BY <1>4, <2>1, <2>2, <2>3
<1>6. \A k \in 1..n : f.samples[k] = SerializedSample(rs[k])
  <2>1. \A k \in 1..n : k \in 1..(L - 1) /\ k < i /\ k \in 1..L
    BY <1>1, <1>5
  <2> QED BY <1>1, <1>2, <2>1
<1>7. ASSUME NEW k \in DOMAIN f.samples, f.samples[k].id <= n PROVE k <= n
  <2>1. k \in 1..(L - 1) /\ (IF k < i THEN k ELSE k + 1) <= n
    BY <1>2, <1>3, <1>7
  <2> QED BY <1>1, <1>5, <2>1
<1>8. n <= L /\ n <= L - 1
  BY <1>1, <1>5
<1> QED BY <1>2, <1>6, <1>7, <1>8 DEF Holds

\* Two ticks were swapped: they are out of order.
LEMMA SwappedVerified ==
    ASSUME ProfileConstants, NEW rs, NEW count, GoodRun(rs, count), NEW dropped, NEW b, NEW n,
           NEW i \in 2..Len(rs), NEW f,
           f.samples = Swapped(FileOf(rs, dropped, b).samples, i)
    PROVE  Analyzed(f, Anything, {n}).error # "none"
<1> DEFINE ss == FileOf(rs, dropped, b).samples
           L == Len(rs)
<1>1. /\ L \in Nat /\ Len(ss) = L /\ DOMAIN ss = 1..L
      /\ \A k \in 1..L : ss[k].id = k
  <2>1. Copies(ss, rs)
    BY FileSamples
  <2> HIDE DEF ss
  <2> QED BY <2>1 DEF Copies
<1>2. i \in 1..L /\ i - 1 \in 1..L /\ i - 1 # i /\ i \in 2..L
  BY <1>1
<1> HIDE DEF ss
<1>3. f.samples[i] = ss[i - 1] /\ f.samples[i - 1] = ss[i] /\ DOMAIN f.samples = 1..L
  <2>1. f.samples = Swapped(ss, i)
    BY DEF ss
  <2> QED BY <1>1, <1>2, <2>1 DEF Swapped
<1>4. f.samples[i].id = i - 1 /\ f.samples[i - 1].id = i
  BY <1>1, <1>2, <1>3
<1> SUFFICES ASSUME Sound(f) PROVE FALSE
  BY AnalyzedIs
<1> DEFINE rd == ReadSamples(f)
<1>5. rd[i].id = i - 1 /\ rd[i - 1].id = i
  BY <1>2, <1>3, <1>4 DEF ReadSamples, ParsedSample
<1>6. Ordered(rd) /\ Len(rd) = L
  <2>1. DOMAIN rd = 1..L
    BY <1>3 DEF ReadSamples
  <2>2. rd = [k \in 1..L |-> rd[k]]
    BY <1>3 DEF ReadSamples
  <2> HIDE DEF rd
  <2>3. Len(rd) = L
    BY <1>1, <2>2
  <2> QED BY <2>3 DEF Sound, rd
<1> HIDE DEF rd
<1>7. rd[i].id > rd[i - 1].id
  BY <1>2, <1>6 DEF Ordered
<1> QED BY <1>2, <1>5, <1>7

LEMMA QuotientGrows ==
    ASSUME NEW c \in Nat \ {0}, NEW x \in Nat, NEW y \in Nat, x + c <= y
    PROVE  x \div c < y \div c
<1> DEFINE q == x \div c
           r == x % c
<1>1. q \in Nat /\ r \in Nat /\ r < c /\ x = c * q + r
  BY Quotient
<1> HIDE DEF q, r
<1>2. (q + 1) * c <= y
  <2>1. (q + 1) * c = c * q + c /\ c * q \in Nat
    BY <1>1
  <2> QED BY <1>1, <2>1
<1>3. q + 1 <= y \div c
  BY <1>1, <1>2, QuotientBelow
<1>4. y \div c \in Nat
  BY Quotient
<1> QED BY <1>1, <1>3, <1>4 DEF q

\* The last tick was made to last for ever: if it was one of those that were counted, the
\* durations do not add up to what was exported.
LEMMA LongerVerified ==
    ASSUME ProfileConstants, NEW rs, NEW count \in Nat, GoodRun(rs, count), count <= Len(rs),
           NEW dropped, NEW b, NEW n \in 0..count, Len(rs) # 0, NEW f,
           f.samples = Lengthened(FileOf(rs, dropped, b).samples, Len(rs)),
           Analyzed(f, Anything, {n}).error = "none",
           Analyzed(f, Anything, {n}).duration_us = SumOf(1..n, Us(rs))
    PROVE  Holds(f, rs, n)
<1> DEFINE ss == FileOf(rs, dropped, b).samples
           L == Len(rs)
           last == [ss[L] EXCEPT !.policy = {MaxU64}, !.finished = MaxU64]
<1>1. /\ L \in Nat \ {0} /\ Len(ss) = L /\ ss \in Seq({SerializedSample(rs[j]) : j \in 1..L})
      /\ \A k \in 1..L : ss[k] = SerializedSample(rs[k]) /\ ss[k].id = k
  <2>1. Copies(ss, rs)
    BY FileSamples
  <2> HIDE DEF ss
  <2> QED BY <2>1 DEF Copies
<1>2. DOMAIN ss = 1..L /\ f.samples = [ss EXCEPT ![L] = last]
  <2>1. f.samples = Lengthened(ss, L) /\ L \in 1..L
    BY <1>1
  <2> HIDE DEF ss
  <2> QED BY <1>1, <2>1 DEF Lengthened
<1>3. /\ last.id = L /\ last.started = rs[L].started /\ last.finished = MaxU64
      /\ last.outcome = rs[L].outcome
  <2> DEFINE v == SerializedSample(rs[L])
  <2>1. L \in 1..L
    BY <1>1
  <2>2. ss[L] = v /\ v.id = L
    BY <1>1, <2>1
  <2>3. v = [id |-> v.id, started |-> rs[L].started, finished |-> v.finished,
             outcome |-> rs[L].outcome, command |-> v.command, session |-> v.session,
             policy |-> v.policy]
    BY DEF SerializedSample
  <2> HIDE DEF v, ss
  <2>4. last = [v EXCEPT !.policy = {MaxU64}, !.finished = MaxU64]
    BY <2>2
  <2> HIDE DEF last
  <2> QED BY <2>2, <2>3, <2>4
<1> HIDE DEF ss, last
<1>4. /\ DOMAIN f.samples = 1..L /\ Len(f.samples) = L /\ f.samples[L] = last
      /\ \A k \in 1..L : k # L => f.samples[k] = ss[k]
  <2>1. L \in 1..L
    BY <1>1
  <2>2. f.samples = [k \in 1..L |-> IF k = L THEN last ELSE ss[k]]
    BY <1>2
  <2>3. Len([k \in 1..L |-> IF k = L THEN last ELSE ss[k]]) = L
    BY <1>1
  <2> QED BY <2>1, <2>2, <2>3
<1>5. \A k \in 1..L : f.samples[k].id = k
  BY <1>1, <1>3, <1>4
<1>6. CASE n < L
  <2>1. \A k \in 1..n : k \in 1..L /\ k # L
    BY <1>1, <1>6
  <2>2. \A k \in 1..n : f.samples[k] = SerializedSample(rs[k])
    BY <1>1, <1>4, <2>1
  <2>3. n <= L
    BY <1>6, <1>1
  <2> QED BY <1>4, <1>5, <2>2, <2>3 DEF Holds
<1>7. CASE ~ n < L
  <2>1. n = L /\ count = L
    BY <1>1, <1>7
  <2> DEFINE rd == ReadSamples(f)
             v == TickTimes(rs)
             w == TickTimes(rd)
             N == NsPerUs
             x == rs[L].finished - rs[L].started
             y == MaxU64 - rs[L].started
  <2>2. DOMAIN rd = 1..L /\ rd = [k \in 1..L |-> rd[k]]
    BY <1>4 DEF ReadSamples
  <2>3. /\ \A k \in 1..L : k # L => rd[k] = rs[k]
        /\ rd[L].started = rs[L].started /\ rd[L].finished = MaxU64 /\ rd[L].outcome = rs[L].outcome
    <3>1. \A k \in 1..L : rd[k] = ParsedSample(f.samples[k])
      BY <1>4 DEF ReadSamples
    <3>2. ASSUME NEW k \in 1..L, k # L PROVE ParsedSample(f.samples[k]) = rs[k]
      <4>1. f.samples[k] = SerializedSample(rs[k])
        BY <1>1, <1>4, <3>2
      <4>2. rs[k] \in Sample /\ IsValidSample(rs[k])
        BY <1>1 DEF GoodRun
      <4> QED BY <4>1, <4>2, SampleRoundTrip
    <3>3. /\ ParsedSample(last).started = last.started /\ ParsedSample(last).finished = last.finished
          /\ ParsedSample(last).outcome = last.outcome
      BY DEF ParsedSample
    <3>4. L \in 1..L
      BY <1>1
    <3> HIDE DEF rd
    <3> QED BY <1>3, <1>4, <3>1, <3>2, <3>3, <3>4
  <2> HIDE DEF rd
  <2>4. ASSUME NEW k \in 1..L
        PROVE  /\ rs[k].started \in Nat /\ rs[k].finished \in Nat /\ rs[k].started <= rs[k].finished
               /\ rs[k].finished + N <= MaxU64 /\ rs[k].outcome = "completed"
    <3>1. IsValidSample(rs[k]) /\ InTime(rs[k].finished) /\ (rs[k].outcome = "completed" <=> k <= count)
      BY DEF GoodRun
    <3> QED BY <1>1, <2>1, <3>1, RunTimes DEF InTime
  <2>5. /\ N \in Nat \ {0} /\ MaxU64 \in Nat /\ L \in 1..L
    BY <1>1, ProfileParameters
  <2>6. x \in Nat /\ y \in Nat /\ x + N <= y
    <3> DEFINE started == rs[L].started
               finished == rs[L].finished
    <3>1. /\ started \in Nat /\ finished \in Nat /\ started <= finished /\ finished + N <= MaxU64
      BY <2>4, <2>5
    <3>2. N \in Nat /\ MaxU64 \in Nat
      BY <2>5
    <3> HIDE DEF started, finished, N
    <3>3. /\ finished - started \in Nat /\ MaxU64 - started \in Nat
          /\ finished - started + N <= MaxU64 - started
      BY ONLY <3>1, <3>2
    <3> QED BY <3>3 DEF started, finished, N
  <2>7. /\ v \in Seq(Nat) /\ Len(v) = L
        /\ \A k \in 1..L : v[k] = rs[k].finished - rs[k].started
    <3>1. {} \in SUBSET (1..L)
      OBVIOUS
    <3> QED BY <3>1, RunSums
  <2>8. w = [k \in 1..L |-> rd[k].finished - rd[k].started]
    BY <2>2 DEF TickTimes
  <2> HIDE DEF v, w, x, y
  <2>9. \A k \in 1..L : rd[k].finished - rd[k].started = IF k = L THEN y ELSE v[k]
    BY <2>3, <2>7 DEF y
  <2>10. \A k \in 1..L : (IF k = L THEN y ELSE v[k]) \in Nat
    BY <2>6, <2>7
  <2>11. w \in Seq(Nat) /\ Len(w) = L /\ \A k \in 1..L : w[k] = IF k = L THEN y ELSE v[k]
    <3>1. w = [k \in 1..L |-> IF k = L THEN y ELSE v[k]]
      BY <2>8, <2>9
    <3> QED BY <1>1, <2>10, <3>1
  <2> DEFINE A == Microseconds(v)
             B == Microseconds(w)
  <2>12. /\ A \in Seq(Nat) /\ Len(A) = L /\ \A k \in 1..L : A[k] = v[k] \div N
         /\ B \in Seq(Nat) /\ Len(B) = L /\ \A k \in 1..L : B[k] = w[k] \div N
    BY <2>7, <2>11, MicrosecondsAre
  <2> HIDE DEF A, B
  <2>13. A[L] = x \div N /\ B[L] = y \div N /\ x \div N \in Nat /\ y \div N \in Nat
    <3>1. v[L] = x /\ w[L] = y
      BY <2>5, <2>7, <2>11 DEF x
    <3> QED BY <2>5, <2>6, <2>12, <3>1, Quotient
  <2>14. x \div N < y \div N
    BY <2>5, <2>6, QuotientGrows
  <2>15. SumsOf(1..L, A)[L - 1] = SumsOf(1..L, B)[L - 1]
    <3>1. L - 1 \in Nat /\ L - 1 <= Len(A) /\ L - 1 <= Len(B)
      BY <1>1, <2>12
    <3>2. ASSUME NEW k \in 1..(L - 1) PROVE A[k] = B[k]
      <4>1. k \in 1..L /\ k # L
        BY <1>1
      <4>2. v[k] = w[k]
        BY <2>11, <4>1
      <4> QED BY <2>12, <4>1, <4>2
    <3> DEFINE m == L - 1
               D == 1..L
    <3>3. m \in Nat /\ m <= Len(A) /\ m <= Len(B)
      BY <3>1
    <3>5. \A k \in 1..m : (k \in D <=> k \in D) /\ (k \in D => A[k] = B[k])
      BY <3>2
    <3>6. A \in Seq(Nat) /\ B \in Seq(Nat)
      BY <2>12
    <3> HIDE DEF m, D
    <3>4. SumsOf(D, A)[m] = SumsOf(D, B)[m]
      BY ONLY <3>3, <3>5, <3>6, SumsAgree
    <3> QED BY <3>4 DEF m, D
  <2>16. /\ SumsOf(1..L, A)[L] = SumsOf(1..L, A)[L - 1] + A[L] /\ SumsOf(1..L, A)[L - 1] \in Nat
         /\ SumsOf(1..L, B)[L] = SumsOf(1..L, B)[L - 1] + B[L]
    <3>1. /\ SumsOf(1..L, A) \in [0..L -> Nat]
          /\ \A k \in 1..L : SumsOf(1..L, A)[k] = SumsOf(1..L, A)[k - 1] + (IF k \in 1..L THEN A[k] ELSE 0)
          /\ \A k \in 1..L : SumsOf(1..L, B)[k] = SumsOf(1..L, B)[k - 1] + (IF k \in 1..L THEN B[k] ELSE 0)
      BY <2>12, SumsAre
    <3>2. L - 1 \in 0..L
      BY <1>1
    <3> QED BY <2>5, <3>1, <3>2
  <2>17. SumOf(1..L, A) # SumOf(1..L, B)
    <3>1. SumOf(1..L, A) = SumsOf(1..L, A)[L] /\ SumOf(1..L, B) = SumsOf(1..L, B)[L]
      BY <2>12 DEF SumOf
    <3> DEFINE s == SumsOf(1..L, A)[L - 1]
               p == x \div N
               q == y \div N
    <3>2. SumOf(1..L, A) = s + p /\ SumOf(1..L, B) = s + q
      BY <2>13, <2>15, <2>16, <3>1
    <3>3. s \in Nat /\ p \in Nat /\ q \in Nat /\ p < q
      BY <2>13, <2>14, <2>16
    <3> HIDE DEF s, p, q
    <3> QED BY <3>2, <3>3
  <2>18. Selected(rd, Anything, {n}) = 1..L
    <3>1. {k \in DOMAIN f.samples : f.samples[k].id <= n} = 1..L
      BY <1>1, <1>4, <1>5, <2>1
    <3> QED BY <3>1, SelectedById DEF rd
  <2>19. EndedWith(rd, 1..L, "completed") = 1..L
    <3>1. \A k \in 1..L : rd[k].outcome = "completed"
      BY <2>3, <2>4, <2>5
    <3> QED BY <3>1 DEF EndedWith
  <2>20. Analyzed(f, Anything, {n}).duration_us = SumOf(1..L, B)
    <3>1. Summary(Analyzed(f, Anything, {n}), rd, f, 1..L)
      <4>1. Summary(Analyzed(f, Anything, {n}), ReadSamples(f), f, Selected(ReadSamples(f), Anything, {n}))
        BY Succeeded
      <4> QED BY <2>18, <4>1 DEF rd
    <3> QED BY <2>19, <3>1 DEF Summary, B, w
  <2>21. Analyzed(f, Anything, {n}).duration_us = SumOf(1..L, A)
    BY <2>1 DEF Us, A, v
  <2> QED BY <2>17, <2>20, <2>21
<1> QED BY <1>6, <1>7

\* A changed recording passes only with what was counted.
LEMMA ChangedVerified ==
    ASSUME ProfileConstants, NEW rs, NEW count \in Nat, GoodRun(rs, count),
           NEW dropped \in Nat, NEW b, NEW n \in 0..count, NEW us \in 0..MaxU64,
           dropped = 0 => count <= Len(rs) /\ us = SumOf(1..n, Us(rs)),
           snapshot = [ticks |-> n, duration |-> AsSeconds(us)],
           Changed(FileOf(rs, dropped, b), file), Verified = "pass"
    PROVE  dropped = 0 /\ Holds(file, rs, n)
<1> DEFINE g == FileOf(rs, dropped, b)
           a == Analyzed(file, Anything, {n})
           ss == g.samples
<1>1. a.error = "none" /\ a.dropped = 0 /\ a.selected_ticks = n /\ a.duration_us = us
  BY PassMeans
<1>2. Sound(file) /\ a.dropped = file.dropped
  BY <1>1, Succeeded DEF Summary
<1>3. g = [schema |-> g.schema, origin |-> g.origin, capacity |-> g.capacity, captured |-> g.captured,
           dropped |-> dropped, samples |-> ss]
  BY DEF FileOf
<1>4. /\ Len(rs) \in Nat /\ Len(ss) = Len(rs) /\ DOMAIN ss = 1..Len(rs)
  <2>1. Copies(ss, rs)
    BY FileSamples
  <2> HIDE DEF ss
  <2> QED BY <2>1 DEF Copies
<1> HIDE DEF g, a
<1>5. \/ file = [g EXCEPT !.schema = "v2"]
      \/ \E i \in DOMAIN ss, m \in {g.captured, g.captured - 1} :
             file = [g EXCEPT !.samples = RemoveAt(ss, i), !.captured = m]
      \/ \E i \in 2..Len(ss) : file = [g EXCEPT !.samples = Swapped(ss, i)]
      \/ \E i \in DOMAIN ss \cap {Len(ss)} :
             file = [g EXCEPT !.samples = Lengthened(ss, i)]
  <2>1. Changed(g, file)
    BY DEF g
  <2> QED BY <2>1, Zenon DEF Changed
<1>6. CASE file = [g EXCEPT !.schema = "v2"]
  <2>1. file.schema = "v2"
    BY <1>3, <1>6
  <2> QED BY <1>2, <2>1 DEF Sound
<1>7. CASE \E i \in DOMAIN ss, m \in {g.captured, g.captured - 1} :
             file = [g EXCEPT !.samples = RemoveAt(ss, i), !.captured = m]
  <2>1. PICK i \in 1..Len(rs), m \in {g.captured, g.captured - 1} :
           file = [g EXCEPT !.samples = RemoveAt(ss, i), !.captured = m]
    BY <1>4, <1>7
  <2>2. file.dropped = dropped /\ file.samples = RemoveAt(ss, i)
    BY <1>3, <2>1
  <2>3. dropped = 0 /\ count <= Len(rs)
    BY <1>1, <1>2, <2>2
  <2>4. file.samples = RemoveAt(FileOf(rs, dropped, b).samples, i)
    BY <2>2 DEF g
  <2>5. Analyzed(file, Anything, {n}).error = "none" /\ Analyzed(file, Anything, {n}).selected_ticks = n
    BY <1>1 DEF a
  <2>6. Holds(file, rs, n)
    BY <2>3, <2>4, <2>5, RemovedVerified
  <2> QED BY <2>3, <2>6
<1>8. CASE \E i \in 2..Len(ss) : file = [g EXCEPT !.samples = Swapped(ss, i)]
  <2>1. PICK i \in 2..Len(rs) : file = [g EXCEPT !.samples = Swapped(ss, i)]
    BY <1>4, <1>8
  <2>2. file.samples = Swapped(ss, i)
    BY <1>3, <2>1
  <2>3. file.samples = Swapped(FileOf(rs, dropped, b).samples, i)
    BY <2>2 DEF g
  <2>4. Analyzed(file, Anything, {n}).error # "none"
    BY <2>3, SwappedVerified
  <2> QED BY <1>1, <2>4 DEF a
<1>9. CASE \E i \in DOMAIN ss \cap {Len(ss)} :
             file = [g EXCEPT !.samples = Lengthened(ss, i)]
  <2>1. Len(rs) # 0 /\ file = [g EXCEPT !.samples = Lengthened(ss, Len(rs))]
    BY <1>4, <1>9
  <2>2. file.dropped = dropped /\ file.samples = Lengthened(ss, Len(rs))
    BY <1>3, <2>1
  <2>3. dropped = 0 /\ count <= Len(rs) /\ us = SumOf(1..n, Us(rs))
    BY <1>1, <1>2, <2>2
  <2>4. file.samples = Lengthened(FileOf(rs, dropped, b).samples, Len(rs))
    BY <2>2 DEF g
  <2>5. Analyzed(file, Anything, {n}).error = "none"
        /\ Analyzed(file, Anything, {n}).duration_us = SumOf(1..n, Us(rs))
    BY <1>1, <2>3 DEF a
  <2>6. Holds(file, rs, n)
    BY <2>1, <2>3, <2>4, <2>5, LongerVerified
  <2> QED BY <2>3, <2>6
<1> QED BY <1>5, <1>6, <1>7, <1>8, <1>9

----------------------------------------------------------------------------
(* profile-report *)

\* A bound of UTC, mapped, is at most as far from the one asked for as the bracket is wide.
LEMMA MappedBounds ==
    ASSUME NEW before \in Nat, NEW after \in Nat, NEW zero \in Nat, before <= zero, zero <= after,
           NEW bound \in Nat, NEW started \in Nat
    PROVE  /\ started >= SubtractOrZero(bound, before) => zero + started >= bound
           /\ zero + started - (after - before) >= bound => started >= SubtractOrZero(bound, before)
           /\ started < SubtractOrZero(bound, after) => zero + started < bound
           /\ zero + started + (after - before) < bound => started < SubtractOrZero(bound, after)
BY DEF SubtractOrZero

LEMMA MappedWindow ==
    ASSUME ProfileConstants, NEW window \in UtcWindows, origin \in Nat, NEW b,
           bracket = {b}, b.before \in Nat, b.after \in Nat, b.before <= origin, origin <= b.after,
           NEW s \in Sample
    PROVE  /\ WellInside(s, window) => InWindow(s, MapUnixWindow(window, b), {})
           /\ InWindow(s, MapUnixWindow(window, b), {}) => Inside(s, window)
<1> DEFINE mapped == MapUnixWindow(window, b)
<1>1. s.started \in Nat
  BY DEF Sample
<1>2. (\A from \in window.from : from \in Nat) /\ (\A to \in window.to : to \in Nat)
  BY DEF ProfileConstants, Optional
<1>3. /\ mapped.from = {SubtractOrZero(from, b.before) : from \in window.from}
      /\ mapped.to = {SubtractOrZero(to, b.after) : to \in window.to}
  BY DEF MapUnixWindow
<1> HIDE DEF mapped
<1>4. InWindow(s, mapped, {}) <=>
        /\ \A from \in window.from : s.started >= SubtractOrZero(from, b.before)
        /\ \A to \in window.to : s.started < SubtractOrZero(to, b.after)
  BY <1>3 DEF InWindow
<1>5. ASSUME WellInside(s, window) PROVE InWindow(s, mapped, {})
  <2>1. ASSUME NEW from \in window.from PROVE s.started >= SubtractOrZero(from, b.before)
    <3>1. origin + s.started - (b.after - b.before) >= from
      <4>1. b \in bracket
        OBVIOUS
      <4>2. StartedAt(s) - (b.after - b.before) >= from
        BY <1>5, <4>1, Zenon DEF WellInside
      <4> QED BY <1>1, <1>2, <4>2 DEF StartedAt
    <3> QED BY <1>1, <1>2, <3>1, MappedBounds
  <2>2. ASSUME NEW to \in window.to PROVE s.started < SubtractOrZero(to, b.after)
    <3>1. origin + s.started + (b.after - b.before) < to
      BY <1>5 DEF WellInside, StartedAt
    <3> QED BY <1>1, <1>2, <3>1, MappedBounds
  <2> QED BY <1>4, <2>1, <2>2
<1>6. ASSUME InWindow(s, mapped, {}) PROVE Inside(s, window)
  <2>1. ASSUME NEW from \in window.from PROVE origin + s.started >= from
    <3>1. s.started >= SubtractOrZero(from, b.before)
      BY <1>4, <1>6
    <3> QED BY <1>1, <1>2, <3>1, MappedBounds
  <2>2. ASSUME NEW to \in window.to PROVE origin + s.started < to
    <3>1. s.started < SubtractOrZero(to, b.after)
      BY <1>4, <1>6
    <3> QED BY <1>1, <1>2, <3>1, MappedBounds
  <2> QED BY <2>1, <2>2 DEF Inside, StartedAt
<1> QED BY <1>5, <1>6 DEF mapped

\* Selected ticks, by how they ended.
LEMMA EndedCounts ==
    ASSUME NEW rs, NEW selected, IsFiniteSet(selected), \A i \in selected : rs[i].outcome \in Outcome
    PROVE  Cardinality(selected) = Cardinality(EndedWith(rs, selected, "completed"))
               + Cardinality(EndedWith(rs, selected, "command_sweep_threw"))
               + Cardinality(EndedWith(rs, selected, "session_sweep_threw"))
               + Cardinality(EndedWith(rs, selected, "policy_evaluate_threw"))
<1> DEFINE a == EndedWith(rs, selected, "completed")
           b == EndedWith(rs, selected, "command_sweep_threw")
           c == EndedWith(rs, selected, "session_sweep_threw")
           d == EndedWith(rs, selected, "policy_evaluate_threw")
<1>1. /\ a \in SUBSET selected /\ b \in SUBSET selected /\ c \in SUBSET selected /\ d \in SUBSET selected
      /\ a \cap b = {} /\ (a \cup b) \cap c = {} /\ ((a \cup b) \cup c) \cap d = {}
      /\ selected = ((a \cup b) \cup c) \cup d
  BY DEF EndedWith, Outcome
<1> HIDE DEF a, b, c, d
<1>2. IsFiniteSet(a) /\ IsFiniteSet(b) /\ IsFiniteSet(c) /\ IsFiniteSet(d)
  BY <1>1, FS_Subset
<1>3. Cardinality({}) = 0 /\ Cardinality(a) \in Nat /\ Cardinality(b) \in Nat
      /\ Cardinality(c) \in Nat /\ Cardinality(d) \in Nat
  BY <1>2, FS_EmptySet, FS_CardinalityType
<1>4. IsFiniteSet(a \cup b) /\ Cardinality(a \cup b) = Cardinality(a) + Cardinality(b)
  <2>1. /\ IsFiniteSet(a \cup b)
        /\ Cardinality(a \cup b) = Cardinality(a) + Cardinality(b) - Cardinality(a \cap b)
    BY <1>2, FS_Union
  <2>2. Cardinality(a \cap b) = 0
    BY <1>1, <1>3
  <2> QED BY <1>3, <2>1, <2>2
<1>5. /\ IsFiniteSet((a \cup b) \cup c)
      /\ Cardinality((a \cup b) \cup c) = Cardinality(a) + Cardinality(b) + Cardinality(c)
  <2>1. /\ IsFiniteSet((a \cup b) \cup c)
        /\ Cardinality((a \cup b) \cup c)
             = Cardinality(a \cup b) + Cardinality(c) - Cardinality((a \cup b) \cap c)
    BY <1>2, <1>4, FS_Union
  <2>2. Cardinality((a \cup b) \cap c) = 0
    BY <1>1, <1>3
  <2> QED BY <1>3, <1>4, <2>1, <2>2
<1>6. Cardinality(((a \cup b) \cup c) \cup d)
        = Cardinality(a) + Cardinality(b) + Cardinality(c) + Cardinality(d)
  <2>1. Cardinality(((a \cup b) \cup c) \cup d)
          = Cardinality((a \cup b) \cup c) + Cardinality(d) - Cardinality(((a \cup b) \cup c) \cap d)
    BY <1>2, <1>5, FS_Union
  <2>2. Cardinality(((a \cup b) \cup c) \cap d) = 0
    BY <1>1, <1>3
  <2> QED BY <1>3, <1>5, <2>1, <2>2
<1>7. Cardinality(selected) = Cardinality(((a \cup b) \cup c) \cup d)
  BY <1>1
<1> QED BY <1>6, <1>7 DEF a, b, c, d

\* Ticks that are selected without a gap between them: each but the first has another before it.
LEMMA PairsOfRange ==
    ASSUME NEW selected \in SUBSET Nat, IsFiniteSet(selected),
           \A i, k \in selected : \A j \in Nat : i <= j /\ j <= k => j \in selected
    PROVE  selected # {} => Cardinality(Pairs(selected)) = Cardinality(selected) - 1
<1> SUFFICES ASSUME selected # {}
             PROVE  Cardinality(Pairs(selected)) = Cardinality(selected) - 1
  OBVIOUS
<1>1. PICK m \in selected : \A i \in selected : m <= i
  BY LeastNumber
<1>2. ASSUME NEW i \in selected PROVE i - 1 \in selected <=> i # m
  <2>1. i \in Nat /\ m \in Nat /\ m <= i
    BY <1>1
  <2>2. CASE i = m
    <3>1. i - 1 \in selected => m <= i - 1
      BY <1>1
    <3> QED BY <2>1, <2>2, <3>1
  <2>3. CASE i # m
    <3>1. i - 1 \in Nat /\ m <= i - 1 /\ i - 1 <= i
      BY <2>1, <2>3
    <3> QED BY <1>1, <2>3, <3>1
  <2> QED BY <2>2, <2>3
<1>3. Pairs(selected) = selected \ {m}
  BY <1>2 DEF Pairs
<1> QED BY <1>1, <1>3, FS_RemoveElement

\* What the summary of a run says of its selected ticks.
LEMMA RunSelection ==
    ASSUME ProfileConstants, NEW rs, NEW count, GoodRun(rs, count), NEW selected,
           NEW window, \A n \in window.from \cup window.to : n \in Nat,
           selected = Selected(rs, window, {})
    PROVE  /\ selected \in SUBSET (1..Len(rs)) /\ IsFiniteSet(selected)
           /\ Adjacent(rs, selected) = Pairs(selected)
           /\ selected # {} => Cardinality(Pairs(selected)) = Cardinality(selected) - 1
           /\ \A i \in selected : rs[i].outcome \in Outcome
<1>1. /\ Len(rs) \in Nat /\ DOMAIN rs = 1..Len(rs)
      /\ \A i \in 1..Len(rs) : rs[i].id = i /\ rs[i].started \in Nat /\ rs[i].outcome \in Outcome
      /\ \A i, j \in 1..Len(rs) : i <= j => rs[i].started <= rs[j].started
  BY RunTimes
<1>2. selected \in SUBSET (1..Len(rs)) /\ selected \in SUBSET Nat
  BY <1>1 DEF Selected
<1>3. IsFiniteSet(selected)
  <2>1. IsFiniteSet(1..Len(rs))
    BY <1>1, FS_Interval
  <2> QED BY <1>2, <2>1, FS_Subset
<1>4. Adjacent(rs, selected) = Pairs(selected)
  <2>1. ASSUME NEW i \in Pairs(selected) PROVE rs[i].id - rs[i - 1].id = 1
    <3>1. i \in 1..Len(rs) /\ i - 1 \in 1..Len(rs)
      BY <1>2 DEF Pairs
    <3>2. rs[i].id = i /\ rs[i - 1].id = i - 1
      BY <1>1, <3>1
    <3> QED BY <3>1, <3>2
  <2> QED BY <2>1 DEF Adjacent
<1>5. ASSUME NEW i \in selected, NEW k \in selected, NEW j \in Nat, i <= j, j <= k
      PROVE  j \in selected
  <2>1. i \in 1..Len(rs) /\ k \in 1..Len(rs) /\ j \in 1..Len(rs)
    BY <1>1, <1>2, <1>5
  <2>2. /\ rs[i].started <= rs[j].started /\ rs[j].started <= rs[k].started
        /\ rs[i].started \in Nat /\ rs[j].started \in Nat /\ rs[k].started \in Nat
    BY <1>1, <1>5, <2>1
  <2>3. InWindow(rs[i], window, {}) /\ InWindow(rs[k], window, {})
    BY DEF Selected
  <2>4. InWindow(rs[j], window, {})
    <3>1. ASSUME NEW n \in window.from PROVE rs[j].started >= n
      <4>1. rs[i].started >= n /\ n \in Nat
        BY <2>3 DEF InWindow
      <4> QED BY <2>2, <4>1
    <3>2. ASSUME NEW n \in window.to PROVE rs[j].started < n
      <4>1. rs[k].started < n /\ n \in Nat
        BY <2>3 DEF InWindow
      <4> QED BY <2>2, <4>1
    <3> QED BY <3>1, <3>2 DEF InWindow
  <2> QED BY <1>1, <2>1, <2>4 DEF Selected
<1>6. selected # {} => Cardinality(Pairs(selected)) = Cardinality(selected) - 1
  BY <1>2, <1>3, <1>5, PairsOfRange
<1> QED BY <1>1, <1>2, <1>3, <1>4, <1>6

\* The file that is reported, and what of it is selected.
LEMMA ReportedIs ==
    ASSUME ProfileConstants, NEW count, GoodRun(recorder.samples, count),
           Len(recorder.samples) <= SampleCapacity, origin \in Nat,
           \A b \in bracket : /\ bracket = {b} /\ b.before \in Nat /\ b.after \in Nat
                              /\ b.before <= origin /\ origin <= b.after,
           file = FileOf(recorder.samples, recorder.dropped, bracket),
           NEW window, Reported(window).error = "none"
    PROVE  \E b \in bracket :
             Summary(Reported(window), recorder.samples, file,
                     Selected(recorder.samples, MapUnixWindow(window, b), {}))
<1> DEFINE rs == recorder.samples
           metadata == Analyzed(file, Anything, {})
           says == Reported(window)
<1>1. \A b \in bracket : ~ b.before > b.after
  OBVIOUS
<1>2. Summary(metadata, rs, file, Selected(rs, Anything, {}))
  <2>1. \A from \in Anything.from, to \in Anything.to : ~ from > to
    BY DEF Anything
  <2> QED BY <1>1, <2>1, RunSummary
<1>3. metadata.error = "none" /\ metadata.origin = bracket
  <2>1. file.origin = bracket
    BY DEF FileOf
  <2> QED BY <1>2, <2>1 DEF Summary
<1>4. Error("no recording_origin_utc").error # "none" /\ Error("no raw interval").error # "none"
  BY DEF Error
<1>5. says = IF metadata.error # "none" THEN metadata
             ELSE IF metadata.origin = {} THEN Error("no recording_origin_utc")
             ELSE LET mapped == MapUnixWindow(window, CHOOSE b \in metadata.origin : TRUE) IN
                  IF \E from \in mapped.from, to \in mapped.to : from > to THEN Error("no raw interval")
                  ELSE Analyzed(file, mapped, {})
  BY DEF Reported
<1> HIDE DEF metadata
<1>6. bracket # {}
  BY <1>3, <1>4, <1>5
<1>7. PICK b \in bracket : bracket = {b}
  BY <1>6
<1>8. (CHOOSE x \in metadata.origin : TRUE) = b
  BY <1>3, <1>7
<1> DEFINE mapped == MapUnixWindow(window, b)
           W == \E from \in mapped.from, to \in mapped.to : from > to
<1>9. says = IF W THEN Error("no raw interval") ELSE Analyzed(file, mapped, {})
  BY <1>3, <1>5, <1>6, <1>8
<1> HIDE DEF W
<1>10. says = Analyzed(file, mapped, {})
  BY <1>4, <1>9
<1> HIDE DEF mapped, says
<1>11. Analyzed(FileOf(rs, recorder.dropped, bracket), mapped, {}).error = "none"
  BY <1>10 DEF says
<1>12. Summary(Analyzed(FileOf(rs, recorder.dropped, bracket), mapped, {}), rs,
               FileOf(rs, recorder.dropped, bracket), Selected(rs, mapped, {}))
  BY <1>1, <1>11, RunSummary
<1> QED BY <1>10, <1>12 DEF mapped, says

\* A report of an untouched file is true.
LEMMA ReportIsTrue ==
    ASSUME ProfileConstants, NEW count, GoodRun(recorder.samples, count),
           Len(recorder.samples) <= SampleCapacity, origin \in Nat,
           \A b \in bracket : /\ bracket = {b} /\ b.before \in Nat /\ b.after \in Nat
                              /\ b.before <= origin /\ origin <= b.after,
           file = FileOf(recorder.samples, recorder.dropped, bracket),
           NEW window \in UtcWindows, Reported(window).error = "none"
    PROVE  SaysTrue(Reported(window), window)
<1> DEFINE rs == recorder.samples
           says == Reported(window)
           sure == {i \in DOMAIN recorder.samples : WellInside(recorder.samples[i], window)}
           inside == {i \in DOMAIN recorder.samples : Inside(recorder.samples[i], window)}
<1>1. PICK b \in bracket : Summary(Reported(window), rs, file,
                                   Selected(rs, MapUnixWindow(window, b), {}))
  BY ReportedIs
<1> DEFINE mapped == MapUnixWindow(window, b)
           selected == Selected(rs, mapped, {})
           completed == EndedWith(rs, selected, "completed")
           adjacent == Adjacent(rs, selected)
<1>2. /\ Len(rs) \in Nat /\ DOMAIN rs = 1..Len(rs)
      /\ \A i \in 1..Len(rs) : /\ rs[i] \in Sample /\ rs[i].started \in Nat /\ rs[i].finished \in Nat
                               /\ rs[i].started <= rs[i].finished /\ rs[i].finished <= MaxU64
      /\ \A i, j \in 1..Len(rs) : i <= j => rs[i].started <= rs[j].started
      /\ MaxU64 \in Nat
  BY RunTimes, ProfileParameters
<1>3. \A n \in mapped.from \cup mapped.to : n \in Nat
  <2>1. \A n \in window.from \cup window.to : n \in Nat
    BY DEF ProfileConstants, Optional
  <2>2. \A x, y \in Nat : SubtractOrZero(x, y) \in Nat
    BY DEF SubtractOrZero
  <2>3. b.before \in Nat /\ b.after \in Nat
    OBVIOUS
  <2>4. /\ mapped.from = {SubtractOrZero(from, b.before) : from \in window.from}
        /\ mapped.to = {SubtractOrZero(to, b.after) : to \in window.to}
    BY DEF MapUnixWindow
  <2> HIDE DEF mapped
  <2>5. ASSUME NEW n \in mapped.from PROVE n \in Nat
    <3>1. PICK from \in window.from : n = SubtractOrZero(from, b.before)
      BY <2>4
    <3> QED BY <2>1, <2>2, <2>3, <3>1
  <2>6. ASSUME NEW n \in mapped.to PROVE n \in Nat
    <3>1. PICK to \in window.to : n = SubtractOrZero(to, b.after)
      BY <2>4
    <3> QED BY <2>1, <2>2, <2>3, <3>1
  <2> QED BY <2>5, <2>6
<1>4. /\ selected \in SUBSET (1..Len(rs)) /\ IsFiniteSet(selected)
      /\ adjacent = Pairs(selected)
      /\ selected # {} => Cardinality(Pairs(selected)) = Cardinality(selected) - 1
      /\ \A i \in selected : rs[i].outcome \in Outcome
  <2> HIDE DEF mapped
  <2> QED BY <1>3, RunSelection
<1>5. ASSUME NEW i \in DOMAIN rs
      PROVE  /\ WellInside(rs[i], window) => InWindow(rs[i], mapped, {})
             /\ InWindow(rs[i], mapped, {}) => Inside(rs[i], window)
  <2>1. rs[i] \in Sample /\ bracket = {b} /\ b.before \in Nat /\ b.after \in Nat
        /\ b.before <= origin /\ origin <= b.after
    BY <1>2
  <2> QED BY <2>1, MappedWindow
<1>6. sure \in SUBSET selected /\ selected \in SUBSET inside /\ inside \in SUBSET (1..Len(rs))
  BY <1>2, <1>5 DEF Selected
<1>7. Cardinality(sure) <= Cardinality(selected) /\ Cardinality(selected) <= Cardinality(inside)
  <2>1. IsFiniteSet(1..Len(rs))
    BY <1>2, FS_Interval
  <2> HIDE DEF sure, inside, selected
  <2>2. IsFiniteSet(inside)
    BY <1>6, <2>1, FS_Subset
  <2> QED BY <1>4, <1>6, <2>2, FS_Subset
<1>8. /\ says.selected_ticks = Cardinality(selected)
      /\ says.completed_ticks = Cardinality(completed)
      /\ \A o \in Outcome \ {"completed"} : says.failures[o] = Cardinality(EndedWith(rs, selected, o))
      /\ says.tick = Distribution(completed, TickTimes(rs))
      /\ says.start_interval = Distribution(adjacent, Intervals(rs, selected))
      /\ says.start_interval_gaps = Cardinality(Pairs(selected) \ adjacent)
  BY <1>1 DEF Summary
<1> HIDE DEF says, sure, inside, selected, mapped
<1>9. says.selected_ticks = says.completed_ticks + says.failures["command_sweep_threw"]
               + says.failures["session_sweep_threw"] + says.failures["policy_evaluate_threw"]
  <2>1. {"command_sweep_threw", "session_sweep_threw", "policy_evaluate_threw"}
           \subseteq Outcome \ {"completed"}
    BY DEF Outcome
  <2>2. Cardinality(selected) = Cardinality(EndedWith(rs, selected, "completed"))
               + Cardinality(EndedWith(rs, selected, "command_sweep_threw"))
               + Cardinality(EndedWith(rs, selected, "session_sweep_threw"))
               + Cardinality(EndedWith(rs, selected, "policy_evaluate_threw"))
    BY <1>4, EndedCounts
  <2> QED BY <1>8, <2>1, <2>2
<1>10. says.start_interval_gaps = 0
  <2>1. Pairs(selected) \ adjacent = {}
    BY <1>4
  <2> HIDE DEF adjacent
  <2> QED BY <1>8, <2>1, FS_EmptySet
<1>11. says.selected_ticks > 0 => says.start_interval.count = says.selected_ticks - 1
  <2>1. adjacent \in SUBSET selected /\ IsFiniteSet(adjacent)
    <3>1. adjacent \in SUBSET selected
      BY <1>4 DEF Pairs
    <3> HIDE DEF adjacent
    <3> QED BY <1>4, <3>1, FS_Subset
  <2>2. \A i \in adjacent : Intervals(rs, selected)[i] \in Nat /\ Intervals(rs, selected)[i] <= MaxU64
    <3> SUFFICES ASSUME NEW i \in adjacent
                 PROVE  Intervals(rs, selected)[i] \in Nat /\ Intervals(rs, selected)[i] <= MaxU64
      OBVIOUS
    <3>1. i \in Pairs(selected) /\ i \in 1..Len(rs) /\ i - 1 \in 1..Len(rs)
      BY <1>4 DEF Pairs
    <3>2. Intervals(rs, selected)[i] = rs[i].started - rs[i - 1].started
      BY <1>2, <3>1 DEF Intervals
    <3>3. i - 1 <= i
      BY <3>1
    <3>4. /\ rs[i - 1].started <= rs[i].started /\ rs[i - 1].started \in Nat /\ rs[i].started \in Nat
          /\ rs[i].finished \in Nat /\ rs[i].started <= rs[i].finished /\ rs[i].finished <= MaxU64
      BY <1>2, <3>1, <3>3
    <3> DEFINE x == rs[i - 1].started
               y == rs[i].started
               z == rs[i].finished
    <3>5. x \in Nat /\ y \in Nat /\ z \in Nat /\ x <= y /\ y <= z /\ z <= MaxU64 /\ MaxU64 \in Nat
      BY <1>2, <3>4
    <3> HIDE DEF x, y, z
    <3>6. y - x \in Nat /\ y - x <= MaxU64
      BY ONLY <3>5
    <3> QED BY <3>2, <3>6 DEF x, y
  <2> HIDE DEF adjacent
  <2>3. says.start_interval.count = Cardinality(adjacent)
    BY <1>2, <1>8, <2>1, <2>2, DistributionIs
  <2>4. Cardinality({}) = 0
    BY FS_EmptySet
  <2>5. says.selected_ticks > 0 => selected # {}
    <3>1. says.selected_ticks = Cardinality(selected)
      BY <1>8
    <3>2. selected = {} => says.selected_ticks = 0
      BY <2>4, <3>1
    <3> QED BY <3>2
  <2> QED BY <1>4, <1>8, <2>3, <2>5
<1>12. \A p \in says.tick.p95, m \in says.tick.max : p <= m
  <2>1. completed \in SUBSET selected /\ IsFiniteSet(completed)
    <3>1. completed \in SUBSET selected
      BY DEF EndedWith
    <3> HIDE DEF completed
    <3> QED BY <1>4, <3>1, FS_Subset
  <2>2. \A i \in completed : TickTimes(rs)[i] \in Nat /\ TickTimes(rs)[i] <= MaxU64
    <3> SUFFICES ASSUME NEW i \in completed
                 PROVE  TickTimes(rs)[i] \in Nat /\ TickTimes(rs)[i] <= MaxU64
      OBVIOUS
    <3>1. i \in 1..Len(rs)
      BY <1>4, <2>1
    <3>2. TickTimes(rs)[i] = rs[i].finished - rs[i].started
      BY <1>2, <3>1 DEF TickTimes
    <3>3. /\ rs[i].started \in Nat /\ rs[i].finished \in Nat /\ rs[i].started <= rs[i].finished
          /\ rs[i].finished <= MaxU64
      BY <1>2, <3>1
    <3> QED BY <1>2, <3>2, <3>3
  <2> HIDE DEF completed
  <2> QED BY <1>2, <1>8, <2>1, <2>2, DistributionIs
<1> QED BY <1>7, <1>8, <1>9, <1>10, <1>11, <1>12 DEF SaysTrue, says, sure, inside

----------------------------------------------------------------------------
(* Sums while the recording grows *)

\* Nothing is added past what is chosen.
LEMMA SumStops ==
    ASSUME NEW v \in Seq(Nat), NEW n \in 0..Len(v)
    PROVE  SumOf(1..n, v) = SumsOf(1..n, v)[n]
<1> DEFINE a == SumsOf(1..n, v)
<1>1. /\ a \in [0..Len(v) -> Nat] /\ Len(v) \in Nat
      /\ \A k \in 1..Len(v) : a[k] = a[k - 1] + (IF k \in 1..n THEN v[k] ELSE 0)
  BY SumsAre
<1> HIDE DEF a
<1> DEFINE S == {k \in Nat : n + k <= Len(v) => a[n + k] = a[n]}
<1>2. 0 \in S
  BY <1>1
<1>3. ASSUME NEW k \in Nat, k \in S PROVE k + 1 \in S
  <2>1. SUFFICES ASSUME n + (k + 1) <= Len(v) PROVE a[n + (k + 1)] = a[n]
    OBVIOUS
  <2>2. n + (k + 1) \in 1..Len(v) /\ n + (k + 1) \notin 1..n /\ n + (k + 1) - 1 = n + k
        /\ n + k \in 0..Len(v) /\ a[n + k] = a[n]
    BY <1>1, <1>3, <2>1
  <2>3. a[n + (k + 1)] = a[n + k] + 0
    BY <1>1, <2>2
  <2>4. a[n + k] \in Nat
    BY <1>1, <2>2
  <2> QED BY <2>2, <2>3, <2>4
<1> HIDE DEF S
<1>4. Nat \subseteq S
  BY <1>2, <1>3, SetInduction
<1>5. Len(v) - n \in Nat /\ n + (Len(v) - n) = Len(v)
  BY <1>1
<1>6. a[Len(v)] = a[n]
  <2>1. PICK k \in Nat : n + k = Len(v)
    BY <1>5
  <2>2. k \in S
    BY <1>4
  <2>3. n + k <= Len(v)
    BY <1>1, <2>1
  <2>4. a[n + k] = a[n]
    BY <2>2, <2>3 DEF S
  <2> QED BY <2>1, <2>4
<1> QED BY <1>6 DEF a, SumOf

\* A sum over the first ones is kept, and grows by the next one.
LEMMA SumExtends ==
    ASSUME NEW v \in Seq(Nat), NEW w \in Seq(Nat), Len(w) = Len(v) + 1,
           \A i \in 1..Len(v) : w[i] = v[i]
    PROVE  /\ \A n \in 0..Len(v) : SumOf(1..n, w) = SumOf(1..n, v)
           /\ SumOf(1..(Len(v) + 1), w) = SumOf(1..Len(v), v) + w[Len(v) + 1]
<1> DEFINE L == Len(v)
<1>1. L \in Nat /\ Len(w) = L + 1
  OBVIOUS
<1>2. ASSUME NEW n \in 0..L PROVE SumOf(1..n, w) = SumOf(1..n, v)
  <2>1. n \in 0..Len(v) /\ n \in 0..Len(w) /\ n \in Nat /\ n <= Len(v) /\ n <= Len(w)
    BY <1>1
  <2>2. SumOf(1..n, w) = SumsOf(1..n, w)[n] /\ SumOf(1..n, v) = SumsOf(1..n, v)[n]
    BY <2>1, SumStops
  <2>3. \A i \in 1..n : (i \in 1..n <=> i \in 1..n) /\ (i \in 1..n => w[i] = v[i])
    BY <2>1
  <2> DEFINE D == 1..n
  <2>4. \A i \in 1..n : (i \in D <=> i \in D) /\ (i \in D => w[i] = v[i])
    BY <2>3
  <2> HIDE DEF D
  <2>5. SumsOf(D, w)[n] = SumsOf(D, v)[n]
    BY ONLY <2>1, <2>4, SumsAgree, v \in Seq(Nat), w \in Seq(Nat)
  <2> QED BY <2>2, <2>5 DEF D
<1>3. SumOf(1..(L + 1), w) = SumOf(1..L, v) + w[L + 1]
  <2> DEFINE D == 1..(L + 1)
             E == 1..L
             c == SumsOf(D, w)
  <2>1. \A k \in 1..Len(w) : c[k] = c[k - 1] + (IF k \in D THEN w[k] ELSE 0)
    BY SumsAre
  <2>2. L + 1 \in 1..Len(w) /\ L + 1 \in D /\ L + 1 - 1 = L
    BY <1>1
  <2> HIDE DEF c
  <2>3. c[L + 1] = c[L] + w[L + 1]
    BY <2>1, <2>2
  <2>4. \A i \in 1..L : (i \in D <=> i \in E) /\ (i \in D => w[i] = v[i])
    BY <1>1
  <2>5. L \in Nat /\ L <= Len(v) /\ L <= Len(w)
    BY <1>1
  <2>6. SumOf(D, w) = c[L + 1] /\ SumOf(E, v) = SumsOf(E, v)[L]
    BY <1>1 DEF SumOf, c
  <2> HIDE DEF D, E, L
  <2>7. SumsOf(D, w)[L] = SumsOf(E, v)[L]
    BY ONLY <2>4, <2>5, SumsAgree, v \in Seq(Nat), w \in Seq(Nat)
  <2> QED BY <2>3, <2>6, <2>7 DEF c, D, E
<1> QED BY <1>2, <1>3

\* The exported sum, when one more sample is recorded.
LEMMA DurationsAre ==
    ASSUME ProfileConstants, NEW rs, NEW count, GoodRun(rs, count)
    PROVE  /\ Us(rs) \in Seq(Nat) /\ Len(Us(rs)) = Len(rs)
           /\ \A i \in 1..Len(rs) : Us(rs)[i] = (rs[i].finished - rs[i].started) \div NsPerUs
<1> DEFINE v == TickTimes(rs)
<1>1. /\ v \in Seq(Nat) /\ Len(v) = Len(rs)
      /\ \A i \in 1..Len(rs) : v[i] = rs[i].finished - rs[i].started
  <2>1. {} \in SUBSET (1..Len(rs))
    OBVIOUS
  <2> QED BY <2>1, RunSums
<1> HIDE DEF v
<1>2. /\ Microseconds(v) \in Seq(Nat) /\ Len(Microseconds(v)) = Len(v)
      /\ \A i \in 1..Len(v) : Microseconds(v)[i] = v[i] \div NsPerUs
  BY <1>1, MicrosecondsAre
<1> QED BY <1>1, <1>2 DEF Us, v

LEMMA RunExtends ==
    ASSUME ProfileConstants, NEW rs, NEW count, GoodRun(rs, count), NEW s \in Sample,
           NEW after, GoodRun(Append(rs, s), after)
    PROVE  /\ \A n \in 0..Len(rs) : SumOf(1..n, Us(Append(rs, s))) = SumOf(1..n, Us(rs))
           /\ SumOf(1..(Len(rs) + 1), Us(Append(rs, s)))
                = SumOf(1..Len(rs), Us(rs)) + ((s.finished - s.started) \div NsPerUs)
<1> DEFINE new == Append(rs, s)
           v == Us(rs)
           w == Us(new)
           L == Len(rs)
<1>1. /\ L \in Nat /\ rs \in Seq(Sample) /\ Len(new) = L + 1 /\ new[L + 1] = s
      /\ \A i \in 1..L : new[i] = rs[i]
  BY DEF GoodRun
<1>2. /\ v \in Seq(Nat) /\ Len(v) = L
      /\ \A i \in 1..L : v[i] = (rs[i].finished - rs[i].started) \div NsPerUs
  BY DurationsAre
<1> HIDE DEF new
<1>3. /\ w \in Seq(Nat) /\ Len(w) = Len(new)
      /\ \A i \in 1..Len(new) : w[i] = (new[i].finished - new[i].started) \div NsPerUs
  BY DurationsAre DEF new
<1> HIDE DEF v, w, L
<1>4. ASSUME NEW i \in 1..L PROVE w[i] = v[i]
  <2>1. i \in 1..Len(new) /\ new[i] = rs[i]
    BY <1>1
  <2> QED BY <1>2, <1>3, <2>1
<1>5. w[L + 1] = (s.finished - s.started) \div NsPerUs
  <2>1. L + 1 \in 1..Len(new)
    BY <1>1
  <2> QED BY <1>1, <1>3, <2>1
<1>6. Len(w) = Len(v) + 1 /\ \A i \in 1..Len(v) : w[i] = v[i]
  BY <1>1, <1>2, <1>3, <1>4
<1>7. /\ \A n \in 0..Len(v) : SumOf(1..n, w) = SumOf(1..n, v)
      /\ SumOf(1..(Len(v) + 1), w) = SumOf(1..Len(v), v) + w[Len(v) + 1]
  BY <1>2, <1>3, <1>6, SumExtends
<1> QED BY <1>2, <1>5, <1>7 DEF new, v, w, L

----------------------------------------------------------------------------
(* The inductive invariant of the measurement *)

\* The origin lies in its bracket.
ClocksOK ==
    /\ run \in {"boot", "running", "ended", "dumped", "changed"}
    /\ clock \in Nat /\ origin \in 0..clock /\ clock - origin <= MaxU64
    /\ \A b \in bracket : /\ bracket = {b} /\ b.before \in Nat /\ b.after \in Nat
                          /\ b.before <= origin /\ origin <= b.after

\* The samples are the ticks in order, up to the capacity; the counted ones are those that
\* were completed.
RecordingOK ==
    /\ recorder = [samples |-> recorder.samples, dropped |-> recorder.dropped]
    /\ recorder.dropped \in Nat
    /\ Len(recorder.samples) <= SampleCapacity
    /\ recorder.dropped # 0 => Len(recorder.samples) = SampleCapacity
    /\ GoodRun(recorder.samples, stats.count)
    /\ \A i \in 1..Len(recorder.samples) : recorder.samples[i].finished <= clock - origin
    /\ stats = [sum_us |-> stats.sum_us, count |-> stats.count]
    /\ stats.count \in Nat /\ stats.count <= Ticks /\ Ticks <= MaxTicks
    /\ run = "running" => stats.count = Ticks
    /\ run = "boot" => Ticks = 0

\* Durations were added one by one, and what was scraped is what they were then.
CountersOK ==
    /\ stats.sum_us \in Nat /\ stats.sum_us <= clock - origin
    /\ run = "boot" => stats.sum_us = 0
    /\ recorder.dropped = 0 => stats.sum_us = SumOf(1..stats.count, Us(recorder.samples))
    /\ scraped \in 0..stats.count
    /\ \E us \in 0..MaxU64 :
         /\ snapshot = [ticks |-> scraped, duration |-> AsSeconds(us)]
         /\ recorder.dropped = 0 => us = SumOf(1..scraped, Us(recorder.samples))

\* Nothing is read before the recording is on disk; then it stays what it was, or is changed.
FileOK ==
    /\ run \in {"boot", "running", "ended"} =>
         file = NoFile /\ verdict = "none" /\ report.says.error # "none"
    /\ run = "dumped" => file \in {NoFile, Serialized}
    /\ run = "changed" => Changed(Serialized, file)

ProfileInv ==
    ClocksOK /\ RecordingOK /\ CountersOK /\ FileOK /\ VerifyTruthful /\ ReportTruthful

LEMMA ProfileStarts == ASSUME ProfileConstants, ProfileInit PROVE ProfileInv
<1>1. /\ run = "boot" /\ clock = 1 /\ origin = 0 /\ bracket = {}
      /\ recorder = [samples |-> <<>>, dropped |-> 0] /\ stats = [sum_us |-> 0, count |-> 0]
      /\ snapshot = [ticks |-> 0, duration |-> AsSeconds(0)] /\ scraped = 0
      /\ file = NoFile /\ verdict = "none" /\ report.says.error = "none yet"
  BY DEF ProfileInit, Error
<1>2. MaxU64 \in Nat \ {0} /\ SampleCapacity \in Nat \ {0} /\ MaxTicks \in Nat \ {0}
  BY DEF ProfileConstants
<1>3. ClocksOK
  <2>3. clock = 1 /\ origin = 0
    BY <1>1
  <2>1. clock \in Nat /\ origin \in 0..clock
    BY ONLY <2>3
  <2>2. clock - origin <= MaxU64
    BY ONLY <1>2, <2>3
  <2> QED BY <1>1, <2>1, <2>2 DEF ClocksOK
<1>4. GoodRun(<<>>, 0)
  BY DEF GoodRun
<1>5. RecordingOK
  <2>1. recorder.samples = <<>> /\ recorder.dropped = 0 /\ stats.count = 0 /\ Len(<<>>) = 0
    BY <1>1
  <2>2. Ticks = 0
    BY <2>1 DEF Ticks
  <2>3. 0 <= MaxTicks /\ 0 <= SampleCapacity
    BY <1>2
  <2>4. /\ recorder = [samples |-> recorder.samples, dropped |-> recorder.dropped]
        /\ stats = [sum_us |-> stats.sum_us, count |-> stats.count]
        /\ run # "running"
    BY <1>1
  <2>5. \A i \in 1..0 : FALSE
    OBVIOUS
  <2>6. GoodRun(recorder.samples, stats.count)
    BY <1>4, <2>1
  <2> QED BY <2>1, <2>2, <2>3, <2>4, <2>5, <2>6 DEF RecordingOK
<1>6. SumOf(1..0, Us(<<>>)) = 0
  <2>1. Us(<<>>) \in Seq(Nat) /\ Len(Us(<<>>)) = 0
    BY <1>4, DurationsAre
  <2>2. SumsOf(1..0, Us(<<>>))[0] = 0
    BY <2>1, SumsAre
  <2> QED BY <2>1, <2>2 DEF SumOf
<1>7. CountersOK
  <2>1. recorder.samples = <<>> /\ stats.count = 0 /\ stats.sum_us = 0
    BY <1>1
  <2>4. clock = 1 /\ origin = 0 /\ scraped = 0 /\ recorder.dropped = 0
    BY <1>1
  <2>2. 0 \in 0..MaxU64 /\ 0 <= clock - origin
    BY ONLY <1>2, <2>4
  <2>3. \E us \in 0..MaxU64 : /\ snapshot = [ticks |-> scraped, duration |-> AsSeconds(us)]
                              /\ recorder.dropped = 0 => us = SumOf(1..scraped, Us(recorder.samples))
    BY <1>1, <1>6, <2>1, <2>2
  <2>5. stats.sum_us = SumOf(1..stats.count, Us(recorder.samples))
    BY <1>6, <2>1
  <2>6. scraped \in 0..stats.count /\ stats.sum_us \in Nat /\ stats.sum_us <= clock - origin
    BY ONLY <2>1, <2>2, <2>4
  <2> QED BY <2>1, <2>3, <2>5, <2>6 DEF CountersOK
<1> QED BY <1>1, <1>3, <1>5, <1>7 DEF ProfileInv, FileOK, VerifyTruthful, ReportTruthful

\* Until the tools read, there is nothing to be wrong about.
LEMMA NothingSaid ==
    ASSUME verdict = "none", report.says.error # "none"
    PROVE  VerifyTruthful /\ ReportTruthful
BY DEF VerifyTruthful, ReportTruthful

LEMMA BootKeeps == ASSUME ProfileConstants, ProfileInv, Boot PROVE ProfileInv'
<1>1. run = "boot" /\ run' = "running"
      /\ recorder' = recorder /\ stats' = stats /\ snapshot' = snapshot /\ scraped' = scraped
      /\ file' = file /\ verdict' = verdict /\ report' = report
  BY DEF Boot
<1>2. PICK start \in 0..1, rest \in 0..1 :
         /\ origin' = clock + start /\ clock' = clock + start + rest
         /\ bracket' \in {{[before |-> clock, after |-> clock']}, {}}
  BY DEF Boot
<1>3. clock \in Nat /\ MaxU64 \in Nat \ {0}
  BY DEF ProfileInv, ClocksOK, ProfileConstants
<1>4. origin' \in Nat /\ clock' \in Nat /\ clock <= origin' /\ origin' <= clock' /\ clock' - origin' <= 1
  BY <1>2, <1>3
<1>5. ClocksOK'
  <2>1. \A b \in bracket' : /\ bracket' = {b} /\ b.before \in Nat /\ b.after \in Nat
                            /\ b.before <= origin' /\ origin' <= b.after
    BY <1>2, <1>3, <1>4
  <2> DEFINE c == clock'
             o == origin'
  <2>4. c \in Nat /\ o \in Nat /\ o <= c /\ c - o <= 1
    BY <1>4
  <2> HIDE DEF c, o
  <2>5. c - o <= MaxU64 /\ o \in 0..c
    BY <1>3, <2>4
  <2>2. clock' - origin' <= MaxU64
    BY <2>5 DEF c, o
  <2>3. origin' \in 0..clock'
    BY <2>5 DEF c, o
  <2> QED BY <1>1, <1>4, <2>1, <2>2, <2>3 DEF ClocksOK
<1>6. Ticks = 0 /\ Len(recorder.samples) = 0 /\ stats.count = 0 /\ Ticks' = Ticks
  <2>1. Len(recorder.samples) \in Nat /\ recorder.dropped \in Nat /\ stats.count \in Nat
        /\ stats.count <= Ticks /\ Ticks = 0
    BY <1>1 DEF ProfileInv, RecordingOK, GoodRun
  <2> QED BY <1>1, <2>1 DEF Ticks
<1>7. RecordingOK'
  <2>1. GoodRun(recorder.samples, stats.count)
    BY DEF ProfileInv, RecordingOK
  <2>2. GoodRun(recorder.samples, stats.count)'
    BY <1>1, <2>1 DEF GoodRun
  <2> QED BY <1>1, <1>6, <2>2 DEF ProfileInv, RecordingOK
<1>8. CountersOK'
  <2>1. CountersOK /\ stats.sum_us = 0
    BY <1>1 DEF ProfileInv, CountersOK
  <2> DEFINE c == clock'
             o == origin'
  <2>3. c \in Nat /\ o \in Nat /\ o <= c
    BY <1>4
  <2> HIDE DEF c, o
  <2>4. 0 <= c - o
    BY <2>3
  <2>2. 0 <= clock' - origin'
    BY <2>4 DEF c, o
  <2> QED BY <1>1, <2>1, <2>2 DEF CountersOK
<1>9. FileOK' /\ VerifyTruthful' /\ ReportTruthful'
  <2>1. file' = NoFile /\ verdict' = "none" /\ report'.says.error # "none"
    BY <1>1 DEF ProfileInv, FileOK
  <2> QED BY <1>1, <2>1 DEF FileOK, VerifyTruthful, ReportTruthful
<1> QED BY <1>5, <1>7, <1>8, <1>9 DEF ProfileInv

\* The samples of a run when one more is recorded.
LEMMA GoodRunExtends ==
    ASSUME ProfileConstants, NEW rs, NEW count \in Nat, GoodRun(rs, count), NEW s \in Sample,
           IsValidSample(s), InTime(s.finished), s.id = Len(rs) + 1,
           \A i \in 1..Len(rs) : rs[i].finished <= s.started,
           count = Len(rs), NEW after \in Nat,
           after = IF s.outcome = "completed" THEN count + 1 ELSE count
    PROVE  GoodRun(Append(rs, s), after)
<1> DEFINE new == Append(rs, s)
           L == Len(rs)
<1>1. /\ L \in Nat /\ rs \in Seq(Sample) /\ new \in Seq(Sample) /\ Len(new) = L + 1
      /\ new[L + 1] = s /\ \A i \in 1..L : new[i] = rs[i]
  BY DEF GoodRun
<1> HIDE DEF new
<1>2. ASSUME NEW i \in 1..Len(new)
      PROVE  /\ new[i].id = i /\ IsValidSample(new[i]) /\ InTime(new[i].finished)
             /\ new[i].outcome = "completed" <=> i <= after
  <2>1. CASE i = L + 1
    BY <1>1, <2>1
  <2>2. CASE i # L + 1
    <3>1. i \in 1..L /\ new[i] = rs[i]
      BY <1>1, <2>2
    <3>2. /\ rs[i].id = i /\ IsValidSample(rs[i]) /\ InTime(rs[i].finished)
          /\ rs[i].outcome = "completed" <=> i <= count
      BY <3>1 DEF GoodRun
    <3>3. i <= count /\ i <= after
      BY <1>1, <3>1
    <3> QED BY <3>1, <3>2, <3>3
  <2> QED BY <2>1, <2>2
<1>3. ASSUME NEW i \in 1..Len(new), NEW j \in 1..Len(new), i < j
      PROVE  new[i].finished <= new[j].started
  <2>1. i \in 1..L /\ new[i] = rs[i]
    BY <1>1, <1>3
  <2>2. CASE j = L + 1
    BY <1>1, <2>1, <2>2
  <2>3. CASE j # L + 1
    <3>1. j \in 1..L /\ new[j] = rs[j]
      BY <1>1, <2>3
    <3> QED BY <1>3, <2>1, <3>1 DEF GoodRun
  <2> QED BY <2>2, <2>3
<1> QED BY <1>1, <1>2, <1>3 DEF GoodRun, new

\* What a tick, completed or not, leaves behind: it took us, and counts as one or as none.
LEMMA TickKeeps ==
    ASSUME ProfileConstants, ProfileInv, NEW s \in Sample, IsValidSample(s), run = "running",
           s.id = Ticks + 1, clock - origin <= s.started, InTime(s.finished), Ticks < MaxTicks,
           clock' = origin + s.finished, Record(s), stats' = [sum_us |-> stats'.sum_us, count |-> stats'.count],
           \/ s.outcome = "completed" /\ run' = "running" /\ stats'.count = stats.count + 1
              /\ stats'.sum_us = stats.sum_us + ((s.finished - s.started) \div NsPerUs)
           \/ s.outcome # "completed" /\ run' = "ended" /\ stats' = stats,
           UNCHANGED <<origin, bracket, snapshot, scraped, file, verdict, report>>
    PROVE  ProfileInv'
<1> DEFINE rs == recorder.samples
           L == Len(rs)
           us == (s.finished - s.started) \div NsPerUs
<1>1. /\ clock \in Nat /\ origin \in 0..clock /\ rs \in Seq(Sample) /\ L \in Nat
      /\ recorder = [samples |-> rs, dropped |-> recorder.dropped]
      /\ recorder.dropped \in Nat /\ L <= SampleCapacity /\ SampleCapacity \in Nat
      /\ recorder.dropped # 0 => L = SampleCapacity
      /\ GoodRun(rs, stats.count) /\ \A i \in 1..L : rs[i].finished <= clock - origin
      /\ stats.count \in Nat /\ stats.count = L + recorder.dropped
      /\ Ticks = L + recorder.dropped /\ MaxTicks \in Nat
  BY DEF ProfileInv, ClocksOK, RecordingOK, Ticks, GoodRun, ProfileConstants
<1>2. /\ s.started \in Nat /\ s.finished \in Nat /\ s.started <= s.finished
      /\ MaxU64 \in Nat /\ NsPerUs \in Nat \ {0} /\ s.finished <= MaxU64
  <2>1. s.started \in Nat /\ s.finished \in Nat
    BY DEF Sample
  <2> QED BY <2>1, ValidOrder, ProfileParameters DEF InTime
<1>3. us \in Nat /\ us <= s.finished - s.started
  <2> DEFINE x == s.finished - s.started
  <2>1. x \in Nat
    BY <1>2
  <2> HIDE DEF x
  <2>2. x \div NsPerUs \in Nat /\ x \div NsPerUs <= x
    BY <1>2, <2>1, Quotient, QuotientBelow
  <2> QED BY <2>2 DEF x
<1> HIDE DEF us, rs
<1>4. /\ stats'.count \in Nat /\ stats'.sum_us \in Nat
      /\ stats'.count = IF s.outcome = "completed" THEN stats.count + 1 ELSE stats.count
      /\ stats'.sum_us = IF s.outcome = "completed" THEN stats.sum_us + us ELSE stats.sum_us
  <2>1. stats.sum_us \in Nat
    BY DEF ProfileInv, CountersOK
  <2>2. CASE s.outcome = "completed"
    <3>1. stats'.count = stats.count + 1 /\ stats'.sum_us = stats.sum_us + us
      BY <2>2 DEF us
    <3>2. stats.count + 1 \in Nat /\ stats.sum_us + us \in Nat
      BY <1>1, <1>3, <2>1
    <3> QED BY <2>2, <3>1, <3>2
  <2>3. CASE s.outcome # "completed"
    <3>1. stats' = stats
      BY <2>3
    <3> QED BY <1>1, <2>1, <2>3, <3>1
  <2> QED BY <2>2, <2>3
<1>5. /\ clock' = origin' + s.finished /\ origin' = origin /\ clock' \in Nat /\ clock' - origin' = s.finished
      /\ run' \in {"running", "ended"} /\ bracket' = bracket /\ scraped' = scraped /\ snapshot' = snapshot
  <2> DEFINE z == s.finished
  <2>1. z \in Nat /\ origin \in Nat
    BY <1>1, <1>2
  <2> HIDE DEF z
  <2>2. origin + z \in Nat /\ (origin + z) - origin = z
    BY ONLY <2>1
  <2>3. clock' = origin + z /\ origin' = origin
    BY DEF z
  <2>4. clock' \in Nat /\ clock' - origin' = z
    BY <2>2, <2>3, Zenon
  <2> QED BY <2>3, <2>4 DEF z
<1>6. ClocksOK'
  <2>1. origin' \in 0..clock'
    BY <1>1, <1>2, <1>5
  <2>2. \A b \in bracket : /\ bracket = {b} /\ b.before \in Nat /\ b.after \in Nat
                            /\ b.before <= origin /\ origin <= b.after
    BY DEF ProfileInv, ClocksOK
  <2> QED BY <1>2, <1>5, <2>1, <2>2 DEF ClocksOK
<1>7. \A i \in 1..L : rs[i].finished \in Nat /\ rs[i].finished <= s.started /\ rs[i].finished <= s.finished
  <2> SUFFICES ASSUME NEW i \in 1..L
               PROVE  rs[i].finished \in Nat /\ rs[i].finished <= s.started /\ rs[i].finished <= s.finished
    OBVIOUS
  <2> DEFINE x == rs[i].finished
  <2>1. x \in Nat /\ x <= clock - origin
    BY <1>1, RunTimes
  <2>2. clock - origin <= s.started
    OBVIOUS
  <2>3. clock \in Nat /\ origin \in Nat
    BY <1>1
  <2> HIDE DEF x
  <2>4. x \in Nat /\ x <= s.started /\ x <= s.finished
    BY ONLY <1>2, <2>1, <2>2, <2>3
  <2> QED BY <2>4 DEF x
<1>8. stats'.sum_us <= clock' - origin'
  <2>1. stats.sum_us \in Nat /\ stats.sum_us <= clock - origin
    BY DEF ProfileInv, CountersOK
  <2>2. clock - origin <= s.started /\ clock \in Nat /\ origin \in Nat
    BY <1>1
  <2> DEFINE x == stats'.sum_us
             y == stats.sum_us
  <2>3. x = y + us \/ x = y
    BY <1>4
  <2>4. y \in Nat /\ y <= clock - origin
    BY <2>1
  <2> HIDE DEF x, y
  <2>5. x <= s.finished
    BY ONLY <1>2, <1>3, <2>2, <2>3, <2>4
  <2> QED BY <1>5, <2>5 DEF x
<1>9. FileOK' /\ VerifyTruthful' /\ ReportTruthful'
  <2>1. file' = NoFile /\ verdict' = "none" /\ report'.says.error # "none"
    BY DEF ProfileInv, FileOK
  <2> QED BY <1>5, <2>1 DEF FileOK, VerifyTruthful, ReportTruthful
<1>10. /\ scraped \in 0..stats.count
       /\ recorder.dropped = 0 => stats.sum_us = SumOf(1..stats.count, Us(rs))
       /\ \E us0 \in 0..MaxU64 : /\ snapshot = [ticks |-> scraped, duration |-> AsSeconds(us0)]
                                 /\ recorder.dropped = 0 => us0 = SumOf(1..scraped, Us(rs))
  BY DEF ProfileInv, CountersOK, rs
<1>11. scraped \in 0..stats'.count
  BY <1>1, <1>4, <1>10
<1>12. CASE L # SampleCapacity
  <2> DEFINE new == Append(rs, s)
  <2>1. /\ recorder.dropped = 0 /\ stats.count = L /\ s.id = L + 1
        /\ recorder' = [samples |-> new, dropped |-> 0]
    <3>1. recorder.dropped = 0
      BY <1>1, <1>12
    <3>2. Ticks = L /\ stats.count = L
      BY <1>1, <3>1
    <3>3. recorder' = [recorder EXCEPT !.samples = new]
      BY <1>12 DEF Record, L, rs
    <3> HIDE DEF new
    <3>4. recorder' = [samples |-> new, dropped |-> 0]
      BY <1>1, <3>1, <3>3
    <3> QED BY <3>1, <3>2, <3>4
  <2>2. /\ new \in Seq(Sample) /\ Len(new) = L + 1 /\ new[L + 1] = s /\ \A i \in 1..L : new[i] = rs[i]
    BY <1>1
  <2>3. GoodRun(new, stats'.count)
    BY <1>1, <1>4, <1>7, <2>1, GoodRunExtends
  <2>4. /\ \A n \in 0..L : SumOf(1..n, Us(new)) = SumOf(1..n, Us(rs))
        /\ SumOf(1..(L + 1), Us(new)) = SumOf(1..L, Us(rs)) + us
    BY <1>1, <2>3, RunExtends DEF us
  <2> HIDE DEF new
  <2>5. Ticks' = L + 1 /\ Ticks' <= MaxTicks
    BY <1>1, <2>1, <2>2 DEF Ticks
  <2>6. RecordingOK'
    <3>1. \A i \in 1..Len(new) : new[i].finished <= clock' - origin'
      <4> SUFFICES ASSUME NEW i \in 1..Len(new) PROVE new[i].finished <= s.finished
        BY <1>5
      <4>1. CASE i = L + 1
        BY <1>2, <2>2, <4>1
      <4>2. CASE i # L + 1
        <5>1. i \in 1..L
          BY <1>1, <2>2, <4>2
        <5> QED BY <1>7, <2>2, <5>1
      <4> QED BY <4>1, <4>2
    <3>2. /\ stats'.count <= Ticks' /\ (run' = "running" => stats'.count = Ticks')
          /\ run' # "boot"
      BY <1>1, <1>4, <2>1, <2>5
    <3>3. Len(new) <= SampleCapacity
      BY <1>1, <1>12, <2>2
    <3> QED BY <1>4, <2>1, <2>3, <2>5, <3>1, <3>2, <3>3 DEF RecordingOK
  <2>7. stats'.sum_us = SumOf(1..stats'.count, Us(new))
    <3>1. stats.sum_us = SumOf(1..L, Us(rs)) /\ L \in 0..L
      BY <1>1, <1>10, <2>1
    <3>2. CASE s.outcome = "completed"
      BY <1>4, <2>1, <2>4, <3>1, <3>2
    <3>3. CASE s.outcome # "completed"
      BY <1>4, <2>1, <2>4, <3>1, <3>3
    <3> QED BY <3>2, <3>3
  <2>8. \E us0 \in 0..MaxU64 : /\ snapshot' = [ticks |-> scraped', duration |-> AsSeconds(us0)]
                               /\ recorder'.dropped = 0 => us0 = SumOf(1..scraped', Us(new))
    BY <1>5, <1>10, <2>1, <2>4
  <2>9. CountersOK'
    BY <1>4, <1>5, <1>8, <1>11, <2>1, <2>7, <2>8 DEF CountersOK
  <2> QED BY <1>6, <1>9, <2>6, <2>9 DEF ProfileInv
<1>13. CASE L = SampleCapacity
  <2>1. recorder' = [samples |-> rs, dropped |-> recorder.dropped + 1]
    BY <1>1, <1>13 DEF Record, rs
  <2>2. Ticks' = L + (recorder.dropped + 1) /\ Ticks' <= MaxTicks
    BY <1>1, <2>1 DEF Ticks
  <2>3. GoodRun(rs, stats'.count)
    <3>1. \A i \in 1..L : i <= stats.count /\ i <= stats'.count
      BY <1>1, <1>4
    <3> QED BY <1>1, <3>1 DEF GoodRun
  <2>4. RecordingOK'
    <3>1. \A i \in 1..L : rs[i].finished <= clock' - origin'
      BY <1>5, <1>7
    <3>2. /\ stats'.count <= Ticks' /\ (run' = "running" => stats'.count = Ticks')
          /\ run' # "boot"
      BY <1>1, <1>4, <2>2
    <3>3. recorder.dropped + 1 \in Nat /\ L <= SampleCapacity
      BY <1>1
    <3>4. recorder'.samples = rs /\ recorder'.dropped = recorder.dropped + 1
          /\ recorder' = [samples |-> recorder'.samples, dropped |-> recorder'.dropped]
      BY <2>1
    <3>5. /\ recorder'.dropped \in Nat /\ Len(recorder'.samples) = SampleCapacity
          /\ Len(recorder'.samples) <= SampleCapacity /\ GoodRun(recorder'.samples, stats'.count)
          /\ \A i \in 1..Len(recorder'.samples) : recorder'.samples[i].finished <= clock' - origin'
      <4>1. recorder'.dropped \in Nat
        BY <3>3, <3>4
      <4>2. recorder'.samples = rs
        BY <3>4
      <4> QED BY <1>13, <2>3, <3>1, <3>3, <4>1, <4>2
    <3>6. recorder' = [samples |-> recorder'.samples, dropped |-> recorder'.dropped]
      BY <3>4
    <3>7. stats'.count \in Nat /\ Ticks' <= MaxTicks
      BY <1>4, <2>2
    <3> QED BY <3>2, <3>5, <3>6, <3>7, Zenon DEF RecordingOK
  <2>5. recorder'.dropped # 0
    BY <1>1, <2>1
  <2>6. \E us0 \in 0..MaxU64 : snapshot' = [ticks |-> scraped', duration |-> AsSeconds(us0)]
    BY <1>5, <1>10
  <2>7. CountersOK'
    BY <1>4, <1>5, <1>8, <1>11, <2>5, <2>6 DEF CountersOK
  <2> QED BY <1>6, <1>9, <2>4, <2>7 DEF ProfileInv
<1> QED BY <1>12, <1>13
LEMMA CompletedTickKeeps ==
    ASSUME ProfileConstants, ProfileInv, NEW gap \in Gaps, NEW d \in Durations, Tick(gap, d)
    PROVE  ProfileInv'
<1> DEFINE started == clock - origin + gap
           command == started + d[1]
           session == command + d[2]
           finished == session + d[3]
           s == [id |-> Ticks + 1, started |-> started, command |-> command,
                 session |-> session, policy |-> finished, finished |-> finished,
                 outcome |-> "completed"]
<1>1. /\ run = "running" /\ Ticks < MaxTicks /\ InTime(finished) /\ clock' = origin + finished
      /\ stats' = [sum_us |-> stats.sum_us + ((finished - started) \div NsPerUs),
                   count |-> stats.count + 1]
      /\ Record(s)
      /\ UNCHANGED <<run, origin, bracket, snapshot, scraped, file, verdict, report>>
  BY DEF Tick
<1>2. /\ clock \in Nat /\ origin \in Nat /\ origin <= clock /\ gap \in Nat
      /\ d[1] \in Nat /\ d[2] \in Nat /\ d[3] \in Nat
  <2>1. d \in Nat \X Nat \X Nat /\ gap \in Nat
    BY DEF ProfileConstants
  <2>2. clock \in Nat /\ origin \in 0..clock
    BY DEF ProfileInv, ClocksOK
  <2> QED BY <2>1, <2>2
<1>3. /\ started \in Nat /\ command \in Nat /\ session \in Nat /\ finished \in Nat
      /\ started <= command /\ command <= session /\ session <= finished
      /\ clock - origin <= started
  <2> DEFINE x == d[1]
             y == d[2]
             z == d[3]
  <2>1. x \in Nat /\ y \in Nat /\ z \in Nat
    BY <1>2
  <2> HIDE DEF x, y, z
  <2>2. /\ clock - origin + gap \in Nat /\ clock - origin + gap + x \in Nat
        /\ clock - origin + gap + x + y \in Nat /\ clock - origin + gap + x + y + z \in Nat
        /\ clock - origin + gap <= clock - origin + gap + x
        /\ clock - origin + gap + x <= clock - origin + gap + x + y
        /\ clock - origin + gap + x + y <= clock - origin + gap + x + y + z
        /\ clock - origin <= clock - origin + gap
    BY <1>2, <2>1
  <2> QED BY <2>2 DEF x, y, z
<1>4. Ticks + 1 \in Nat \ {0}
  <2>1. Len(recorder.samples) \in Nat /\ recorder.dropped \in Nat
    BY DEF ProfileInv, RecordingOK, GoodRun
  <2> QED BY <2>1 DEF Ticks
<1> HIDE DEF started, command, session, finished
<1>5. s \in Sample /\ IsValidSample(s) /\ s.outcome = "completed"
  <2>1. "completed" \in Outcome
    BY DEF Outcome
  <2>2. s \in Sample
    BY <1>3, <1>4, <2>1 DEF Sample
  <2> QED BY <1>3, <1>4, <2>2 DEF IsValidSample
<1>6. /\ s.id = Ticks + 1 /\ s.started = started /\ s.finished = finished
  OBVIOUS
<1> HIDE DEF s
<1>7. /\ clock - origin <= s.started /\ InTime(s.finished) /\ clock' = origin + s.finished
      /\ stats' = [sum_us |-> stats'.sum_us, count |-> stats'.count]
      /\ run' = "running" /\ stats'.count = stats.count + 1
      /\ stats'.sum_us = stats.sum_us + ((s.finished - s.started) \div NsPerUs)
  BY <1>1, <1>3, <1>6
<1>8. UNCHANGED <<origin, bracket, snapshot, scraped, file, verdict, report>>
  BY <1>1
<1> QED BY <1>1, <1>5, <1>6, <1>7, <1>8, TickKeeps

LEMMA ThrowingTickKeeps ==
    ASSUME ProfileConstants, ProfileInv, NEW gap \in Gaps, NEW d \in Durations,
           NEW o \in {"command_sweep_threw", "session_sweep_threw", "policy_evaluate_threw"},
           TickThrows(gap, d, o)
    PROVE  ProfileInv'
<1> DEFINE started == clock - origin + gap
           command == IF "command" \in Completes(o) THEN started + d[1] ELSE 0
           session == IF "session" \in Completes(o) THEN command + d[2] ELSE 0
           finished == started + d[1] + d[2] + d[3]
           s == [id |-> Ticks + 1, started |-> started, command |-> command,
                 session |-> session, policy |-> 0, finished |-> finished, outcome |-> o]
<1>1. /\ run = "running" /\ Ticks < MaxTicks /\ InTime(finished) /\ clock' = origin + finished
      /\ Record(s) /\ run' = "ended"
      /\ UNCHANGED <<origin, bracket, stats, snapshot, scraped, file, verdict, report>>
  BY DEF TickThrows
<1>2. /\ clock \in Nat /\ origin \in Nat /\ origin <= clock /\ gap \in Nat
      /\ d[1] \in Nat /\ d[2] \in Nat /\ d[3] \in Nat
  <2>1. d \in Nat \X Nat \X Nat /\ gap \in Nat
    BY DEF ProfileConstants
  <2>2. clock \in Nat /\ origin \in 0..clock
    BY DEF ProfileInv, ClocksOK
  <2> QED BY <2>1, <2>2
<1>3. /\ started \in Nat /\ started + d[1] \in Nat /\ started + d[1] + d[2] \in Nat /\ finished \in Nat
      /\ started <= started + d[1] /\ started + d[1] <= started + d[1] + d[2]
      /\ started + d[1] + d[2] <= finished /\ clock - origin <= started
  <2> DEFINE x == d[1]
             y == d[2]
             z == d[3]
  <2>1. x \in Nat /\ y \in Nat /\ z \in Nat
    BY <1>2
  <2> HIDE DEF x, y, z
  <2>2. /\ clock - origin + gap \in Nat /\ clock - origin + gap + x \in Nat
        /\ clock - origin + gap + x + y \in Nat /\ clock - origin + gap + x + y + z \in Nat
        /\ clock - origin + gap <= clock - origin + gap + x
        /\ clock - origin + gap + x <= clock - origin + gap + x + y
        /\ clock - origin + gap + x + y <= clock - origin + gap + x + y + z
        /\ clock - origin <= clock - origin + gap
    BY <1>2, <2>1
  <2> QED BY <2>2 DEF x, y, z
<1>4. Ticks + 1 \in Nat \ {0}
  <2>1. Len(recorder.samples) \in Nat /\ recorder.dropped \in Nat
    BY DEF ProfileInv, RecordingOK, GoodRun
  <2> QED BY <2>1 DEF Ticks
<1> DEFINE a == started + d[1]
           b == started + d[1] + d[2]
<1>5. /\ o = "command_sweep_threw" => command = 0 /\ session = 0
      /\ o = "session_sweep_threw" => command = a /\ session = 0
      /\ o = "policy_evaluate_threw" => command = a /\ session = b
  BY DEF Completes
<1>6. started \in Nat /\ a \in Nat /\ b \in Nat /\ finished \in Nat
      /\ started <= a /\ a <= b /\ b <= finished
  BY <1>3
<1> HIDE DEF started, command, session, finished, a, b
<1>7. s \in Sample /\ IsValidSample(s) /\ s.outcome # "completed"
  <2>1. o \in Outcome
    BY DEF Outcome
  <2>2. command \in Nat /\ session \in Nat
    BY <1>5, <1>6
  <2>3. s \in Sample
    BY <1>4, <1>6, <2>1, <2>2 DEF Sample
  <2>4. /\ s.id # 0 /\ s.outcome = o /\ s.started = started /\ s.command = command
        /\ s.session = session /\ s.policy = 0 /\ s.finished = finished
    BY <1>4
  <2> HIDE DEF s
  <2>5. started <= finished /\ a <= finished
    BY <1>6
  <2>6. CASE o = "command_sweep_threw"
    BY <1>5, <2>3, <2>4, <2>5, <2>6 DEF IsValidSample
  <2>7. CASE o = "session_sweep_threw"
    BY <1>5, <1>6, <2>3, <2>4, <2>5, <2>7 DEF IsValidSample
  <2>8. CASE o = "policy_evaluate_threw"
    BY <1>5, <1>6, <2>3, <2>4, <2>8 DEF IsValidSample
  <2> QED BY <2>6, <2>7, <2>8
<1>8. /\ s.id = Ticks + 1 /\ s.started = started /\ s.finished = finished
  OBVIOUS
<1> HIDE DEF s
<1>9. /\ clock - origin <= s.started /\ InTime(s.finished) /\ clock' = origin + s.finished
      /\ run' = "ended" /\ stats' = stats
  BY <1>1, <1>3, <1>8
<1>10. stats' = [sum_us |-> stats'.sum_us, count |-> stats'.count]
  <2>1. stats = [sum_us |-> stats.sum_us, count |-> stats.count]
    BY DEF ProfileInv, RecordingOK
  <2> QED BY <1>9, <2>1
<1>11. UNCHANGED <<origin, bracket, snapshot, scraped, file, verdict, report>>
  BY <1>1
<1> QED BY <1>1, <1>7, <1>8, <1>9, <1>10, <1>11, TickKeeps

\* What the steps after the measurement leave alone.
LEMMA MeasurementKept ==
    ASSUME ProfileInv, UNCHANGED <<clock, origin, bracket, recorder, stats>>,
           run' \in {"ended", "dumped", "changed"} \/ run' = run
    PROVE  /\ ClocksOK' /\ RecordingOK' /\ Serialized' = Serialized
           /\ UNCHANGED <<snapshot, scraped>> => CountersOK'
<1>1. ClocksOK'
  BY DEF ProfileInv, ClocksOK
<1>2. RecordingOK'
  <2>1. Ticks' = Ticks
    BY DEF Ticks
  <2>2. GoodRun(recorder.samples, stats.count)' <=> GoodRun(recorder.samples, stats.count)
    BY DEF GoodRun
  <2> QED BY <2>1, <2>2 DEF ProfileInv, RecordingOK
<1>3. Serialized' = Serialized
  BY DEF Serialized
<1>4. UNCHANGED <<snapshot, scraped>> => CountersOK'
  BY DEF ProfileInv, CountersOK
<1> QED BY <1>1, <1>2, <1>3, <1>4

\* The parts of the invariant the tools depend on.
LEMMA MeasuredRun ==
    ASSUME ProfileConstants, ProfileInv
    PROVE  /\ GoodRun(recorder.samples, stats.count) /\ stats.count \in Nat
           /\ Len(recorder.samples) \in Nat /\ Len(recorder.samples) <= SampleCapacity
           /\ recorder.dropped \in Nat
           /\ recorder.dropped = 0 => stats.count <= Len(recorder.samples)
           /\ origin \in Nat
           /\ \A b \in bracket : /\ bracket = {b} /\ b.before \in Nat /\ b.after \in Nat
                                 /\ b.before <= origin /\ origin <= b.after
           /\ Serialized = FileOf(recorder.samples, recorder.dropped, bracket)
<1>1. /\ GoodRun(recorder.samples, stats.count) /\ stats.count \in Nat
      /\ Len(recorder.samples) \in Nat /\ Len(recorder.samples) <= SampleCapacity
      /\ recorder.dropped \in Nat /\ stats.count <= Len(recorder.samples) + recorder.dropped
  BY DEF ProfileInv, RecordingOK, GoodRun, Ticks
<1>2. recorder.dropped = 0 => stats.count <= Len(recorder.samples)
  BY <1>1
<1>3. Serialized = FileOf(recorder.samples, recorder.dropped, bracket)
  BY DEF Serialized, FileOf
<1> QED BY <1>1, <1>2, <1>3 DEF ProfileInv, ClocksOK

LEMMA ChangeStays ==
    ASSUME file' = file, Serialized' = Serialized
    PROVE  Changed(Serialized, file)' <=> Changed(Serialized, file)
<1>1. Changed(Serialized, file)' <=> Changed(Serialized', file')
  BY Zenon DEF Changed
<1> QED BY <1>1

LEMMA StopKeeps == ASSUME ProfileInv, Stop PROVE ProfileInv'
<1>1. /\ run = "running" /\ run' = "ended"
      /\ UNCHANGED <<clock, origin, bracket, recorder, stats, snapshot, scraped, file, verdict, report>>
  BY DEF Stop
<1>2. ClocksOK' /\ RecordingOK' /\ CountersOK'
  BY <1>1, MeasurementKept
<1>3. file' = NoFile /\ verdict' = "none" /\ report'.says.error # "none"
  BY <1>1 DEF ProfileInv, FileOK
<1> QED BY <1>1, <1>2, <1>3 DEF ProfileInv, FileOK, VerifyTruthful, ReportTruthful

LEMMA ScrapeKeeps == ASSUME ProfileConstants, ProfileInv, Scrape PROVE ProfileInv'
<1>1. /\ run = "running" /\ snapshot' = Scraped /\ scraped' = stats.count
      /\ UNCHANGED <<run, clock, origin, bracket, recorder, stats, file, verdict, report>>
  BY DEF Scrape
<1>2. ClocksOK' /\ RecordingOK'
  BY <1>1, MeasurementKept
<1>3. CountersOK'
  <2>1. /\ stats.sum_us \in Nat /\ stats.sum_us <= clock - origin /\ stats.count \in Nat
        /\ clock - origin <= MaxU64 /\ clock \in Nat /\ origin \in Nat /\ MaxU64 \in Nat
        /\ recorder.dropped = 0 => stats.sum_us = SumOf(1..stats.count, Us(recorder.samples))
    BY DEF ProfileInv, ClocksOK, RecordingOK, CountersOK, ProfileConstants
  <2> DEFINE us == stats.sum_us
  <2>2. us \in 0..MaxU64
    <3>1. us \in Nat /\ us <= clock - origin
      BY <2>1
    <3> HIDE DEF us
    <3> QED BY <2>1, <3>1
  <2>3. snapshot' = [ticks |-> scraped', duration |-> AsSeconds(us)]
    BY <1>1 DEF Scraped
  <2>4. recorder'.dropped = 0 => us = SumOf(1..scraped', Us(recorder'.samples))
    BY <1>1, <2>1
  <2>5. \E x \in 0..MaxU64 : /\ snapshot' = [ticks |-> scraped', duration |-> AsSeconds(x)]
                             /\ recorder'.dropped = 0 => x = SumOf(1..scraped', Us(recorder'.samples))
    <3> HIDE DEF us
    <3> QED BY <2>2, <2>3, <2>4
  <2>6. scraped' \in 0..stats'.count
    BY <1>1, <2>1
  <2>7. /\ stats'.sum_us \in Nat /\ stats'.sum_us <= clock' - origin'
        /\ (run' = "boot" => stats'.sum_us = 0)
        /\ (recorder'.dropped = 0 => stats'.sum_us = SumOf(1..stats'.count, Us(recorder'.samples)))
    BY <1>1, <2>1
  <2> QED BY <2>5, <2>6, <2>7 DEF CountersOK
<1>4. file' = NoFile /\ verdict' = "none" /\ report'.says.error # "none"
  BY <1>1 DEF ProfileInv, FileOK
<1> QED BY <1>1, <1>2, <1>3, <1>4 DEF ProfileInv, FileOK, VerifyTruthful, ReportTruthful

LEMMA DumpKeeps == ASSUME ProfileInv, DumpRecording PROVE ProfileInv'
<1>1. /\ run = "ended" /\ run' = "dumped" /\ file' \in {NoFile, Serialized}
      /\ UNCHANGED <<clock, origin, bracket, recorder, stats, snapshot, scraped, verdict, report>>
  BY DEF DumpRecording
<1>2. ClocksOK' /\ RecordingOK' /\ CountersOK' /\ Serialized' = Serialized
  BY <1>1, MeasurementKept
<1>3. verdict' = "none" /\ report'.says.error # "none"
  BY <1>1 DEF ProfileInv, FileOK
<1> QED BY <1>1, <1>2, <1>3 DEF ProfileInv, FileOK, VerifyTruthful, ReportTruthful

LEMMA ChangeKeeps == ASSUME ProfileInv, Change PROVE ProfileInv'
<1>1. /\ run = "dumped" /\ run' = "changed" /\ file # NoFile /\ Changed(file, file')
      /\ verdict = "none"
      /\ UNCHANGED <<clock, origin, bracket, recorder, stats, snapshot, scraped, verdict, report>>
  BY DEF Change, MayRead
<1>2. ClocksOK' /\ RecordingOK' /\ CountersOK' /\ Serialized' = Serialized
  BY <1>1, MeasurementKept
<1>3. file = Serialized
  BY <1>1 DEF ProfileInv, FileOK
<1>4. Changed(Serialized, file)'
  <2>1. Changed(Serialized, file')
    BY <1>1, <1>3
  <2> QED BY <1>2, <2>1 DEF Changed
<1>5. FileOK'
  BY <1>1, <1>4 DEF FileOK
<1> QED BY <1>1, <1>2, <1>5 DEF ProfileInv, VerifyTruthful, ReportTruthful

\* What profile-verify says is true.
LEMMA VerifiedTruly ==
    ASSUME ProfileConstants, ProfileInv, run \in {"dumped", "changed"}, file # NoFile
    PROVE  /\ run = "dumped" => (Verified = "pass" <=> recorder.dropped = 0)
           /\ Verified = "pass" => recorder.dropped = 0 /\ Holds(file, recorder.samples, scraped)
<1> DEFINE rs == recorder.samples
           g == FileOf(rs, recorder.dropped, bracket)
<1>1. /\ GoodRun(rs, stats.count) /\ stats.count \in Nat
      /\ Len(rs) \in Nat /\ Len(rs) <= SampleCapacity /\ recorder.dropped \in Nat
      /\ recorder.dropped = 0 => stats.count <= Len(rs)
      /\ origin \in Nat
      /\ \A b \in bracket : /\ bracket = {b} /\ b.before \in Nat /\ b.after \in Nat
                            /\ b.before <= origin /\ origin <= b.after
      /\ Serialized = g
  BY MeasuredRun
<1>2. \A b \in bracket : ~ b.before > b.after
  BY <1>1
<1>3. PICK us \in 0..MaxU64 :
         /\ snapshot = [ticks |-> scraped, duration |-> AsSeconds(us)]
         /\ recorder.dropped = 0 => us = SumOf(1..scraped, Us(rs))
  BY DEF ProfileInv, CountersOK
<1>4. scraped \in 0..stats.count
  BY DEF ProfileInv, CountersOK
<1>5. recorder.dropped = 0 => stats.count <= Len(rs) /\ us = SumOf(1..scraped, Us(rs))
  BY <1>1, <1>3
<1>6. CASE run = "dumped"
  <2>1. file = g
    BY <1>1, <1>6 DEF ProfileInv, FileOK
  <2>2. Verified = "pass" <=> recorder.dropped = 0
    BY <1>1, <1>2, <1>3, <1>4, <1>5, <2>1, UntouchedVerified
  <2>3. ASSUME recorder.dropped = 0 PROVE Holds(file, rs, scraped)
    <3>1. Copies(g.samples, rs)
      BY <1>1, FileSamples
    <3> DEFINE ss == g.samples
    <3>2. Copies(ss, rs) /\ file.samples = ss
      BY <2>1, <3>1
    <3> HIDE DEF ss, rs
    <3>3. /\ Len(ss) = Len(rs) /\ Len(rs) \in Nat /\ DOMAIN ss = 1..Len(rs)
          /\ \A i \in 1..Len(rs) : ss[i] = SerializedSample(rs[i]) /\ ss[i].id = i
      BY <3>2 DEF Copies
    <3>4. scraped \in Nat /\ scraped <= Len(rs)
      BY <1>1, <1>4, <2>3 DEF rs
    <3>5. \A i \in 1..scraped : i \in 1..Len(rs)
      BY <3>3, <3>4
    <3>6. Holds(file, rs, scraped)
      BY <3>2, <3>3, <3>4, <3>5 DEF Holds
    <3> QED BY <3>6 DEF rs
  <2> QED BY <2>2, <2>3
<1>7. CASE run = "changed"
  <2>1. Changed(g, file)
    BY <1>1, <1>7 DEF ProfileInv, FileOK
  <2>2. ASSUME Verified = "pass" PROVE recorder.dropped = 0 /\ Holds(file, rs, scraped)
    BY <1>1, <1>3, <1>4, <1>5, <2>1, <2>2, ChangedVerified
  <2> QED BY <1>7, <2>2
<1> QED BY <1>6, <1>7

LEMMA VerifyKeeps == ASSUME ProfileConstants, ProfileInv, Verify PROVE ProfileInv'
<1>1. /\ run \in {"dumped", "changed"} /\ file # NoFile /\ verdict = "none"
      /\ report.says.error = "none yet" /\ verdict' = Verified
      /\ UNCHANGED <<run, clock, origin, bracket, recorder, stats, snapshot, scraped, file, report>>
  BY DEF Verify, MayRead
<1>2. ClocksOK' /\ RecordingOK' /\ CountersOK' /\ Serialized' = Serialized
  BY <1>1, MeasurementKept
<1>3. FileOK'
  <2>1. /\ run = "dumped" => file \in {NoFile, Serialized}
        /\ run = "changed" => Changed(Serialized, file)
    BY DEF ProfileInv, FileOK
  <2>2. Changed(Serialized, file)' <=> Changed(Serialized, file)
    BY <1>1, <1>2, ChangeStays
  <2> QED BY <1>1, <1>2, <2>1, <2>2 DEF FileOK
<1>4. /\ run = "dumped" => (Verified = "pass" <=> recorder.dropped = 0)
      /\ Verified = "pass" => recorder.dropped = 0 /\ Holds(file, recorder.samples, scraped)
  BY <1>1, VerifiedTruly
<1>5. VerifyTruthful'
  BY <1>1, <1>4 DEF VerifyTruthful, Holds
<1>6. ReportTruthful'
  BY <1>1 DEF ReportTruthful
<1> QED BY <1>2, <1>3, <1>5, <1>6 DEF ProfileInv

LEMMA ReportKeeps ==
    ASSUME ProfileConstants, ProfileInv, NEW window \in UtcWindows, Report(window)
    PROVE  ProfileInv'
<1>1. /\ run \in {"dumped", "changed"} /\ file # NoFile /\ verdict = "none"
      /\ report' = [window |-> window, says |-> Reported(window)]
      /\ UNCHANGED <<run, clock, origin, bracket, recorder, stats, snapshot, scraped, file, verdict>>
  BY DEF Report, MayRead
<1>2. ClocksOK' /\ RecordingOK' /\ CountersOK' /\ Serialized' = Serialized
  BY <1>1, MeasurementKept
<1>3. FileOK'
  <2>1. /\ run = "dumped" => file \in {NoFile, Serialized}
        /\ run = "changed" => Changed(Serialized, file)
    BY DEF ProfileInv, FileOK
  <2>2. Changed(Serialized, file)' <=> Changed(Serialized, file)
    BY <1>1, <1>2, ChangeStays
  <2> QED BY <1>1, <1>2, <2>1, <2>2 DEF FileOK
<1>4. VerifyTruthful'
  BY <1>1 DEF VerifyTruthful
<1>5. ASSUME run = "dumped", Reported(window).error = "none"
      PROVE  SaysTrue(Reported(window), window)
  <2>1. file = FileOf(recorder.samples, recorder.dropped, bracket)
    BY <1>1, <1>5, MeasuredRun DEF ProfileInv, FileOK
  <2>2. /\ GoodRun(recorder.samples, stats.count) /\ Len(recorder.samples) <= SampleCapacity
        /\ origin \in Nat
        /\ \A b \in bracket : /\ bracket = {b} /\ b.before \in Nat /\ b.after \in Nat
                              /\ b.before <= origin /\ origin <= b.after
    BY MeasuredRun
  <2> QED BY <1>5, <2>1, <2>2, ReportIsTrue
<1>6. ReportTruthful'
  <2>1. SUFFICES ASSUME run' = "dumped", report'.says.error = "none"
                 PROVE  SaysTrue(report.says, report.window)'
    BY DEF ReportTruthful
  <2>2. SaysTrue(Reported(window), window)
    BY <1>1, <1>5, <2>1
  <2>3. report'.says = Reported(window) /\ report'.window = window
    BY <1>1
  <2>4. SaysTrue(report'.says, report'.window)
    BY <2>2, <2>3
  <2> QED BY <1>1, <2>4 DEF SaysTrue, WellInside, Inside, StartedAt
<1> QED BY <1>2, <1>3, <1>4, <1>6 DEF ProfileInv

LEMMA ProfileStepKeeps == ASSUME ProfileConstants, ProfileInv, [ProfileNext]_profileVars PROVE ProfileInv'
<1>1. CASE Boot
  BY <1>1, BootKeeps
<1>2. CASE \E gap \in Gaps, d \in Durations : Tick(gap, d)
  BY <1>2, CompletedTickKeeps
<1>3. CASE \E gap \in Gaps, d \in Durations,
             o \in {"command_sweep_threw", "session_sweep_threw", "policy_evaluate_threw"} :
                TickThrows(gap, d, o)
  BY <1>3, ThrowingTickKeeps
<1>4. CASE Scrape
  BY <1>4, ScrapeKeeps
<1>5. CASE Stop
  BY <1>5, StopKeeps
<1>6. CASE DumpRecording
  BY <1>6, DumpKeeps
<1>7. CASE Change
  BY <1>7, ChangeKeeps
<1>8. CASE Verify
  BY <1>8, VerifyKeeps
<1>9. CASE \E window \in UtcWindows : Report(window)
  BY <1>9, ReportKeeps
<1>10. CASE UNCHANGED profileVars
  <2>1. /\ UNCHANGED <<clock, origin, bracket, recorder, stats, snapshot, scraped>>
        /\ UNCHANGED <<run, file, verdict, report>>
    BY <1>10 DEF profileVars
  <2>2. ClocksOK' /\ RecordingOK' /\ CountersOK' /\ Serialized' = Serialized
    BY <2>1, MeasurementKept
  <2>3. FileOK'
    <3>1. Changed(Serialized, file)' <=> Changed(Serialized, file)
      BY <2>1, <2>2, ChangeStays
    <3> QED BY <2>1, <2>2, <3>1 DEF ProfileInv, FileOK
  <2>4. VerifyTruthful'
    BY <2>1 DEF ProfileInv, VerifyTruthful
  <2>5. ReportTruthful'
    BY <2>1 DEF ProfileInv, ReportTruthful, SaysTrue, WellInside, Inside, StartedAt
  <2> QED BY <2>2, <2>3, <2>4, <2>5 DEF ProfileInv
<1> QED BY <1>1, <1>2, <1>3, <1>4, <1>5, <1>6, <1>7, <1>8, <1>9, <1>10 DEF ProfileNext

LEMMA ProfileInvMeans == ASSUME ProfileConstants, ProfileInv PROVE ProfilesTruthful
<1>1. /\ Len(recorder.samples) <= SampleCapacity /\ scraped \in 0..stats.count
      /\ stats.count \in Nat /\ stats.count <= Ticks /\ Ticks <= MaxTicks
      /\ Len(recorder.samples) \in Nat /\ recorder.dropped \in Nat
      /\ Ticks = Len(recorder.samples) + recorder.dropped /\ MaxTicks \in Nat
  BY DEF ProfileInv, RecordingOK, CountersOK, GoodRun, Ticks, ProfileConstants
<1> DEFINE c == stats.count
<1>2. c \in Nat /\ c <= Ticks /\ Ticks \in Nat /\ scraped \in 0..c
  BY <1>1
<1> HIDE DEF c
<1>3. c <= MaxTicks /\ scraped <= c
  BY <1>1, <1>2
<1> QED BY <1>1, <1>3 DEF ProfileInv, ClocksOK, ProfilesTruthful, ProfileTypeOK, c

\* What is said about a run of the controller is true of it, whatever its ticks were and
\* whoever changed its recording: a crosscheck passes for exactly the complete runs and for
\* nothing that is not the scraped one, and a report counts what it was asked for.
THEOREM ProfilesAlwaysTruthful ==
    ASSUME ProfileConstants PROVE ProfileSpec => []ProfilesTruthful
<1>1. ProfileInit => ProfileInv
  BY ProfileStarts
<1>2. ProfileInv /\ [ProfileNext]_profileVars => ProfileInv'
  BY ProfileStepKeeps
<1>3. ProfileInv => ProfilesTruthful
  BY ProfileInvMeans
<1> QED BY <1>1, <1>2, <1>3, PTL DEF ProfileSpec
=============================================================================
