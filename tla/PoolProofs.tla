----------------------------- MODULE PoolProofs -----------------------------
(***************************************************************************)
(* Proofs about Pool, for any calls, connections and limits.  The          *)
(* invariant adds to the properties that a connect has nothing on it yet   *)
(* and at most one call behind it, that requests are sent somewhere, and   *)
(* that whoever listens will hear of something.                            *)
(***************************************************************************)
EXTENDS Pool, FiniteSetTheorems, TLAPS

USE PoolAssumption

\* Nothing has been sent to a connection before it is there.
Blank == \A c \in Conns : attempt[c] = "opening" => task[c] = "none" /\ load[c] = 0

\* A call waits for one connect, and a connect has one call.
Owned ==
    \A c \in Conns : opener[c] # None =>
        /\ attempt[c] # "none"
        /\ pc[opener[c]] \in {"opening", "racing"}
        /\ \A d \in Conns : opener[d] = opener[c] => d = c

\* A request has a connection to go to, and only playback is impatient.
Placed ==
    \A k \in Calls : /\ pc[k] \in {"sending", "sent"} => at[k] \in Conns
                     /\ pc[k] = "racing" => k \in Streams

\* Whoever listens will hear of something.
Heard == listening # {} => Stirring

Inv == TypeOK /\ Blank /\ Owned /\ Placed /\ LoadIsRequests /\ WithinLimit /\ Heard

----------------------------------------------------------------------------
\* Counting.

LEMMA SetsFinite ==
    /\ IsFiniteSet(Listed) /\ IsFiniteSet(Connecting) /\ IsFiniteSet(Idle)
    /\ \A c \in Conns : IsFiniteSet(Sending(c)) /\ IsFiniteSet(Connecting \ {c})
<1>1. Listed \in SUBSET Conns /\ Connecting \in SUBSET Conns /\ Idle \in SUBSET Conns
  BY DEF Listed, Connecting, Idle
<1>2. \A c \in Conns : Sending(c) \in SUBSET Calls /\ Connecting \ {c} \in SUBSET Conns
  BY <1>1 DEF Sending
<1>3. QED
  BY <1>1, <1>2, FS_Subset

LEMMA Numbers ==
    /\ Cardinality(Listed) \in Nat /\ Cardinality(Connecting) \in Nat
    /\ Cardinality(Idle) \in Nat /\ Open \in Nat
    /\ \A c \in Conns : Cardinality(Sending(c)) \in Nat /\ Others(c) \in Nat
BY SetsFinite, FS_CardinalityType DEF Open, Others

\* Counted apart, connections and connects are no fewer than together.
LEMMA OpenCounts ==
    /\ IsFiniteSet(Listed \cup Connecting)
    /\ Cardinality(Listed \cup Connecting) \in Nat
    /\ Cardinality(Listed \cup Connecting) <= Open
<1>1. IsFiniteSet(Listed \cup Connecting)
      /\ Cardinality(Listed \cup Connecting) =
           Cardinality(Listed) + Cardinality(Connecting) - Cardinality(Listed \cap Connecting)
  BY SetsFinite, FS_Union
<1>2. Cardinality(Listed \cap Connecting) \in Nat
  BY SetsFinite, FS_Intersection, FS_CardinalityType
<1>3. QED
  BY <1>1, <1>2, Numbers, FS_CardinalityType DEF Open

----------------------------------------------------------------------------
LEMMA InitInv == Init => Inv
<1> SUFFICES ASSUME Init PROVE Inv
  OBVIOUS
<1>1. TypeOK
  <2>1. <<>> \in Seq(Calls)
    OBVIOUS
  <2>2. 0 \in 0 .. MaxRetries /\ 0 \in 0 .. MaxUnanswered /\ 0 \in 0 .. Mishaps
        /\ MaxConnections \in 1 .. MaxConnections
    OBVIOUS
  <2>3. QED
    BY <2>1, <2>2, Zenon DEF Init, TypeOK, Tasks, Attempts, Stages
<1>2. Blank /\ Owned /\ Placed /\ Heard
  BY DEF Init, Blank, Owned, Placed, Heard
<1>3. LoadIsRequests
  <2>1. ASSUME NEW c \in Conns
        PROVE  /\ Cardinality(Sending(c)) = 0 /\ Len(queue[c]) = 0 /\ load[c] = 0 /\ dropping[c] = 0
               /\ attempt[c] = "none"
    <3>1. Sending(c) = {}
      BY DEF Init, Sending
    <3>2. QED
      BY <3>1, FS_EmptySet DEF Init
  <2>2. QED
    BY <2>1 DEF LoadIsRequests
<1>4. WithinLimit
  <2>1. Listed \cup Connecting = {}
    BY DEF Init, Listed, Connecting
  <2>2. QED
    BY <2>1, FS_EmptySet DEF WithinLimit
<1>5. QED
  BY <1>1, <1>2, <1>3, <1>4 DEF Inv

\* A load that is being dropped is counted.
LEMMA DropsCounted ==
    ASSUME TypeOK, LoadIsRequests, NEW c \in Conns
    PROVE  dropping[c] <= load[c]
<1>1. Len(queue[c]) \in Nat /\ dropping[c] \in Nat
  BY DEF TypeOK
<1>2. QED
  BY <1>1, Numbers DEF LoadIsRequests

----------------------------------------------------------------------------
\* Types, in five parts.

ConnTypes ==
    /\ task \in [Conns -> Tasks]
    /\ attempt \in [Conns -> Attempts]
    /\ opener \in [Conns -> Calls \cup {None}]

LoadTypes ==
    /\ load \in [Conns -> Nat]
    /\ queue \in [Conns -> Seq(Calls)]
    /\ dropping \in [Conns -> Nat]

PoolTypes ==
    /\ ringing \in BOOLEAN
    /\ limit \in 1 .. MaxConnections
    /\ down \in BOOLEAN
    /\ mishaps \in 0 .. Mishaps

CallTypes ==
    /\ pc \in [Calls -> Stages]
    /\ at \in [Calls -> Conns \cup {None}]
    /\ listening \subseteq Calls /\ tired \subseteq Streams

TryTypes ==
    /\ failed \in [Calls -> 0 .. MaxRetries]
    /\ unanswered \in [Calls -> 0 .. MaxUnanswered]

LEMMA TypeParts == TypeOK <=> ConnTypes /\ LoadTypes /\ PoolTypes /\ CallTypes /\ TryTypes
BY DEF TypeOK, ConnTypes, LoadTypes, PoolTypes, CallTypes, TryTypes

\* Connections, connects and who connects.
LEMMA KeepsConnTypes ==
    ASSUME ConnTypes, Next
    PROVE  ConnTypes'
<1> USE DEF ConnTypes, Tasks, Attempts, conns, connects, pool, calls, tries
<1>1. ASSUME NEW k \in Calls, FailFast(k) \/ Decline(k) \/ Wait(k) \/ Wake(k) \/ Send(k) \/
             SendFails(k) \/ Leave(k) PROVE ConnTypes'
  BY <1>1 DEF FailFast, Decline, Wait, Wake, Send, SendFails, Leave
<1>2. ASSUME NEW k \in Calls, NEW c \in Conns, Use(k, c) \/ Reserve(k, c) \/ LeaveConnect(k, c) \/
             Tire(k, c) PROVE ConnTypes'
  BY <1>2 DEF Use, Reserve, LeaveConnect, Tire
<1>3. ASSUME NEW c \in Conns, Connected(c) \/ Settle(c) \/ Answer(c) \/ End(c) \/ LoseOne(c) \/
             Close(c) \/ DropLoad(c) PROVE ConnTypes'
  BY <1>3 DEF Connected, Settle, Answer, End, LoseOne, Close, DropLoad
<1>4. ASSUME NEW c \in Conns, NEW why \in {"refused", "failed"}, Unconnected(c, why) PROVE
             ConnTypes'
  BY <1>4 DEF Unconnected
<1>5. ASSUME NEW c \in Conns, NEW reply \in {"closed", "timeout"}, Fail(c, reply) PROVE ConnTypes'
  BY <1>5 DEF Fail
<1>6. ASSUME NEW new \in SUBSET Conns, Prewarm(new) PROVE ConnTypes'
  BY <1>6 DEF Prewarm
<1>7. CASE Ring \/ Regrow \/ Forget \/ CloseIdle
  BY <1>7 DEF Ring, Regrow, Forget, CloseIdle
<1> HIDE DEF ConnTypes, Tasks, Attempts, conns, connects, pool, calls, tries
<1> QED
  BY <1>1, <1>2, <1>3, <1>4, <1>5, <1>6, <1>7 DEF Next, Looks, Connects, Reads

\* What is served goes from the queue to be dropped.
LEMMA ServedTypes ==
    ASSUME TypeOK, NEW c \in Conns, Served(c)
    PROVE  queue' \in [Conns -> Seq(Calls)] /\ dropping' \in [Conns -> Nat]
<1>1. queue[c] \in Seq(Calls) /\ queue[c] # <<>> /\ dropping[c] + 1 \in Nat
  BY DEF Served, TypeOK
<1>2. Tail(queue[c]) \in Seq(Calls)
  BY <1>1
<1>3. QED
  BY <1>1, <1>2 DEF Served, TypeOK

\* A load is never dropped that was not counted.
LEMMA KeepsLoadTypes ==
    ASSUME TypeOK, Placed, LoadIsRequests, Next
    PROVE  LoadTypes'
<1> USE DEF TypeOK, Placed, LoadTypes, Stages, conns, connects, pool, calls, tries
<1>1. ASSUME NEW k \in Calls, FailFast(k) \/ Decline(k) \/ Wait(k) \/ Wake(k) \/ Leave(k) PROVE
             LoadTypes'
  BY <1>1 DEF FailFast, Decline, Wait, Wake, Leave, Move
<1>2. ASSUME NEW k \in Calls, Send(k) PROVE LoadTypes'
  BY <1>2 DEF Send, Move
<1>3. ASSUME NEW k \in Calls, SendFails(k) PROVE LoadTypes'
  BY <1>3 DEF SendFails, Move
<1>4. ASSUME NEW k \in Calls, NEW c \in Conns, Reserve(k, c) \/ LeaveConnect(k, c) \/ Tire(k, c)
             PROVE LoadTypes'
  BY <1>4 DEF Reserve, LeaveConnect, Tire, Move
<1>5. ASSUME NEW k \in Calls, NEW c \in Conns, Use(k, c) PROVE LoadTypes'
  BY <1>5 DEF Use, Move
<1>6. ASSUME NEW c \in Conns, End(c) PROVE LoadTypes'
  BY <1>6 DEF End
<1>7. ASSUME NEW c \in Conns, Connected(c) PROVE LoadTypes'
  BY <1>7 DEF Connected
<1>8. ASSUME NEW c \in Conns, Close(c) PROVE LoadTypes'
  BY <1>8 DEF Close
<1>9. ASSUME NEW c \in Conns, Settle(c) PROVE LoadTypes'
  <2>1. dropping' = dropping \/ dropping' = [dropping EXCEPT ![c] = dropping[c] + 1]
    BY <1>9 DEF Settle
  <2>2. dropping[c] + 1 \in Nat
    OBVIOUS
  <2>3. dropping' \in [Conns -> Nat]
    BY <2>1, <2>2, ZenonT(60)
  <2>4. QED
    BY <1>9, <2>3 DEF Settle
<1>10. ASSUME NEW c \in Conns, Answer(c) PROVE LoadTypes'
  <2>1. queue' \in [Conns -> Seq(Calls)] /\ dropping' \in [Conns -> Nat]
    BY <1>10, ServedTypes DEF Answer
  <2>2. QED
    BY <1>10, <2>1 DEF Answer
<1>11. ASSUME NEW c \in Conns, LoseOne(c) PROVE LoadTypes'
  <2>1. queue' \in [Conns -> Seq(Calls)] /\ dropping' \in [Conns -> Nat]
    BY <1>11, ServedTypes DEF LoseOne
  <2>2. QED
    BY <1>11, <2>1 DEF LoseOne
<1>12. ASSUME NEW c \in Conns, DropLoad(c) PROVE LoadTypes'
  BY <1>12, DropsCounted DEF DropLoad
<1>13. ASSUME NEW c \in Conns, NEW why \in {"refused", "failed"}, Unconnected(c, why) PROVE
             LoadTypes'
  BY <1>13 DEF Unconnected
<1>14. ASSUME NEW c \in Conns, NEW reply \in {"closed", "timeout"}, Fail(c, reply) PROVE LoadTypes'
  <2>1. queue' \in [Conns -> Seq(Calls)] /\ dropping' \in [Conns -> Nat]
    BY <1>14, ServedTypes DEF Fail
  <2>2. QED
    BY <1>14, <2>1 DEF Fail
<1>15. ASSUME NEW new \in SUBSET Conns, Prewarm(new) PROVE LoadTypes'
  BY <1>15 DEF Prewarm
<1>16. CASE Ring \/ Regrow \/ Forget \/ CloseIdle
  BY <1>16 DEF Ring, Regrow, Forget, CloseIdle
<1> HIDE DEF TypeOK, Placed, LoadTypes, Stages, conns, connects, pool, calls, tries
<1> QED
  BY <1>1, <1>2, <1>3, <1>4, <1>5, <1>6, <1>7, <1>8, <1>9, <1>10, <1>11, <1>12, <1>13,
       <1>14, <1>15, <1>16 DEF Next, Looks, Connects, Reads

\* A refused connect leaves room for the others, of which there are some.
LEMMA KeepsPoolTypes ==
    ASSUME TypeOK, Next
    PROVE  PoolTypes'
<1> USE DEF TypeOK, PoolTypes, conns, connects, pool, calls, tries
<1>1. ASSUME NEW k \in Calls, FailFast(k) \/ Decline(k) \/ Wait(k) \/ Wake(k) \/ Send(k) \/
             SendFails(k) \/ Leave(k) PROVE PoolTypes'
  BY <1>1 DEF FailFast, Decline, Wait, Wake, Send, SendFails, Leave
<1>2. ASSUME NEW k \in Calls, NEW c \in Conns, Use(k, c) \/ Reserve(k, c) \/ LeaveConnect(k, c) \/
             Tire(k, c) PROVE PoolTypes'
  BY <1>2 DEF Use, Reserve, LeaveConnect, Tire
<1>3. ASSUME NEW c \in Conns, Connected(c) \/ Settle(c) \/ LoseOne(c) \/ Close(c) \/ DropLoad(c)
             PROVE PoolTypes'
  BY <1>3 DEF Connected, Settle, LoseOne, Close, DropLoad
<1>4. ASSUME NEW c \in Conns, Answer(c) PROVE PoolTypes'
  BY <1>4 DEF Answer, Happens
<1>5. ASSUME NEW c \in Conns, End(c) PROVE PoolTypes'
  BY <1>5 DEF End, Happens
<1>6. ASSUME NEW c \in Conns, NEW why \in {"refused", "failed"}, Unconnected(c, why) PROVE
             PoolTypes'
  <2>1. Others(c) \in Nat
    BY Numbers
  <2>2. limit' \in 1 .. MaxConnections
    BY <1>6, <2>1 DEF Unconnected, AtMost
  <2>3. QED
    BY <1>6, <2>2 DEF Unconnected
<1>7. ASSUME NEW c \in Conns, NEW reply \in {"closed", "timeout"}, Fail(c, reply) PROVE PoolTypes'
  BY <1>7 DEF Fail, Happens
<1>8. ASSUME NEW new \in SUBSET Conns, Prewarm(new) PROVE PoolTypes'
  BY <1>8 DEF Prewarm, Happens
<1>9. CASE Ring
  BY <1>9 DEF Ring
<1>10. CASE Regrow
  BY <1>10 DEF Regrow, Happens
<1>11. CASE Forget
  BY <1>11 DEF Forget
<1>12. CASE CloseIdle
  BY <1>12 DEF CloseIdle, Happens
<1> HIDE DEF TypeOK, PoolTypes, conns, connects, pool, calls, tries
<1> QED
  BY <1>1, <1>2, <1>3, <1>4, <1>5, <1>6, <1>7, <1>8, <1>9, <1>10, <1>11, <1>12 DEF Next,
       Looks, Connects, Reads

\* Where calls are, and which listen or have tired.
LEMMA KeepsCallTypes ==
    ASSUME TypeOK, Placed, Next
    PROVE  CallTypes'
<1> USE DEF TypeOK, Placed, CallTypes, Stages, Attempts, conns, connects, pool, calls, tries
<1>1. ASSUME NEW k \in Calls, FailFast(k) \/ Wait(k) \/ Wake(k) \/ Send(k) PROVE CallTypes'
  BY <1>1 DEF FailFast, Wait, Wake, Send, Move
<1>2. ASSUME NEW k \in Calls, Decline(k) PROVE CallTypes'
  BY <1>2 DEF Decline, Move
<1>3. ASSUME NEW k \in Calls, SendFails(k) PROVE CallTypes'
  BY <1>3 DEF SendFails, Move, AfterLoss
<1>4. ASSUME NEW k \in Calls, Leave(k) PROVE CallTypes'
  BY <1>4 DEF Leave, Move
<1>5. ASSUME NEW k \in Calls, NEW c \in Conns, Reserve(k, c) PROVE CallTypes'
  BY <1>5 DEF Reserve, Move
<1>6. ASSUME NEW k \in Calls, NEW c \in Conns, Use(k, c) PROVE CallTypes'
  BY <1>6 DEF Use, Move
<1>7. ASSUME NEW k \in Calls, NEW c \in Conns, LeaveConnect(k, c) PROVE CallTypes'
  BY <1>7 DEF LeaveConnect, Move
<1>8. ASSUME NEW k \in Calls, NEW c \in Conns, Tire(k, c) PROVE CallTypes'
  BY <1>8 DEF Tire, Move
<1>9. ASSUME NEW c \in Conns, Connected(c) \/ End(c) \/ DropLoad(c) PROVE CallTypes'
  BY <1>9 DEF Connected, End, DropLoad
<1>10. ASSUME NEW c \in Conns, LoseOne(c) PROVE CallTypes'
  BY <1>10 DEF LoseOne, Lose, Awaited, AfterLoss
<1>11. ASSUME NEW c \in Conns, Close(c) PROVE CallTypes'
  BY <1>11 DEF Close, Lose, Awaited, AfterLoss
<1>12. ASSUME NEW c \in Conns, Settle(c) PROVE CallTypes'
  <2>1. /\ AfterConnect(c) \in Stages /\ pc \in [Calls -> Stages]
        /\ at \in [Calls -> Conns \cup {None}]
    BY DEF AfterConnect
  <2>2. pc' = pc \/ \E k \in Calls : pc' = [pc EXCEPT ![k] = AfterConnect(c)]
    BY <1>12 DEF Settle
  <2>3. at' = at \/ \E k \in Calls : at' = [at EXCEPT ![k] = c]
    BY <1>12 DEF Settle
  <2>4. listening' \subseteq Calls /\ tired' \subseteq Streams
    BY <1>12 DEF Settle
  <2> HIDE DEF TypeOK, Placed, Stages
  <2>5. pc' \in [Calls -> Stages]
    BY <2>1, <2>2
  <2>6. at' \in [Calls -> Conns \cup {None}]
    BY <2>1, <2>3
  <2>7. QED
    BY <2>4, <2>5, <2>6
<1>13. ASSUME NEW c \in Conns, Answer(c) PROVE CallTypes'
  BY <1>13, ZenonT(60) DEF Answer, Awaited
<1>14. ASSUME NEW c \in Conns, NEW why \in {"refused", "failed"}, Unconnected(c, why) PROVE
             CallTypes'
  BY <1>14 DEF Unconnected
<1>15. ASSUME NEW c \in Conns, NEW reply \in {"closed", "timeout"}, Fail(c, reply) PROVE CallTypes'
  BY <1>15 DEF Fail, Awaited, AfterFailure
<1>16. ASSUME NEW new \in SUBSET Conns, Prewarm(new) PROVE CallTypes'
  BY <1>16 DEF Prewarm
<1>17. CASE Ring \/ Regrow \/ Forget \/ CloseIdle
  BY <1>17 DEF Ring, Regrow, Forget, CloseIdle
<1> HIDE DEF TypeOK, Placed, CallTypes, Stages, Attempts, conns, connects, pool, calls, tries
<1> QED
  BY <1>1, <1>2, <1>3, <1>4, <1>5, <1>6, <1>7, <1>8, <1>9, <1>10, <1>11, <1>12, <1>13,
       <1>14, <1>15, <1>16, <1>17 DEF Next, Looks, Connects, Reads

\* Retries are counted up to their limits.
LEMMA KeepsTryTypes ==
    ASSUME TypeOK, Next
    PROVE  TryTypes'
<1> USE DEF TypeOK, TryTypes, Stages, conns, connects, pool, calls, tries
<1>1. ASSUME NEW k \in Calls, FailFast(k) \/ Decline(k) \/ Wait(k) \/ Wake(k) \/ Send(k) \/ Leave(k)
             PROVE TryTypes'
  BY <1>1 DEF FailFast, Decline, Wait, Wake, Send, Leave
<1>2. ASSUME NEW k \in Calls, SendFails(k) PROVE TryTypes'
  BY <1>2 DEF SendFails
<1>3. ASSUME NEW k \in Calls, NEW c \in Conns, Use(k, c) \/ Reserve(k, c) \/ LeaveConnect(k, c) \/
             Tire(k, c) PROVE TryTypes'
  BY <1>3 DEF Use, Reserve, LeaveConnect, Tire
<1>4. ASSUME NEW c \in Conns, Connected(c) \/ Settle(c) \/ Answer(c) \/ End(c) \/ DropLoad(c) PROVE
             TryTypes'
  BY <1>4 DEF Connected, Settle, Answer, End, DropLoad
<1>5. ASSUME NEW c \in Conns, LoseOne(c) PROVE TryTypes'
  BY <1>5 DEF LoseOne, Lose
<1>6. ASSUME NEW c \in Conns, Close(c) PROVE TryTypes'
  BY <1>6 DEF Close, Lose
<1>7. ASSUME NEW c \in Conns, NEW why \in {"refused", "failed"}, Unconnected(c, why) PROVE TryTypes'
  BY <1>7 DEF Unconnected
<1>8. ASSUME NEW c \in Conns, NEW reply \in {"closed", "timeout"}, Fail(c, reply) PROVE TryTypes'
  <2>1. PICK k \in Calls : k = Head(queue[c])
    <3>1. queue[c] \in Seq(Calls) /\ queue[c] # <<>>
      BY <1>8 DEF Fail, Served
    <3>2. QED
      BY <3>1
  <2>2. AfterFailure(k, reply) = "start" => failed[k] + 1 \in 0 .. MaxRetries
    BY DEF AfterFailure
  <2>3. \/ failed' = failed
        \/ failed' = [failed EXCEPT ![k] = failed[k] + 1] /\ AfterFailure(k, reply) = "start"
    <3>1. CASE ~Awaited(k, c) \/ AfterFailure(k, reply) # "start"
      BY <1>8, <2>1, <3>1 DEF Fail
    <3>2. CASE Awaited(k, c) /\ AfterFailure(k, reply) = "start"
      BY <1>8, <2>1, <3>2 DEF Fail
    <3>3. QED
      BY <3>1, <3>2
  <2>4. failed' \in [Calls -> 0 .. MaxRetries]
    BY <2>2, <2>3
  <2>5. QED
    BY <1>8, <2>4 DEF Fail
<1>9. ASSUME NEW new \in SUBSET Conns, Prewarm(new) PROVE TryTypes'
  BY <1>9 DEF Prewarm
<1>10. CASE Ring \/ Regrow \/ Forget \/ CloseIdle
  BY <1>10 DEF Ring, Regrow, Forget, CloseIdle
<1> HIDE DEF TypeOK, TryTypes, Stages, conns, connects, pool, calls, tries
<1> QED
  BY <1>1, <1>2, <1>3, <1>4, <1>5, <1>6, <1>7, <1>8, <1>9, <1>10 DEF Next, Looks, Connects,
       Reads

----------------------------------------------------------------------------
\* Who owns what.


\* Where the end of a request leaves its call; the others stay.
LEMMA ReplyMoves ==
    ASSUME TypeOK, NEW c \in Conns,
           \/ Answer(c) \/ LoseOne(c) \/ Close(c)
           \/ \E reply \in {"closed", "timeout"} : Fail(c, reply)
    PROVE  \A k \in Calls : \/ pc'[k] = pc[k] /\ at'[k] = at[k]
                            \/ pc[k] = "sent" /\ pc'[k] \in {"start", "done"}
<1>1. CASE LoseOne(c) \/ Close(c)
  <2>1. PICK lost : Lose(lost, c)
    BY <1>1 DEF LoseOne, Close
  <2>2. QED
    BY <2>1 DEF Lose, Awaited, AfterLoss
<1>2. CASE Answer(c) \/ \E reply \in {"closed", "timeout"} : Fail(c, reply)
  <2>1. Served(c)
    BY <1>2 DEF Answer, Fail
  <2>2. PICK k \in Calls : k = Head(queue[c])
    <3>1. queue[c] \in Seq(Calls) /\ queue[c] # <<>>
      BY <2>1 DEF Served, TypeOK
    <3>2. QED
      BY <3>1
  <2>3. \/ pc' = pc /\ at' = at
        \/ /\ pc[k] = "sent" /\ at' = [at EXCEPT ![k] = None]
           /\ \E stage \in {"start", "done"} : pc' = [pc EXCEPT ![k] = stage]
    BY <1>2, <2>2 DEF Answer, Fail, Awaited, AfterFailure
  <2>4. QED
    BY <2>3 DEF TypeOK
<1>3. QED
  BY <1>1, <1>2

LEMMA PlacedStays ==
    ASSUME Placed, \A k \in Calls : \/ pc'[k] = pc[k] /\ at'[k] = at[k]
                                    \/ pc'[k] \in {"start", "done"}
    PROVE  Placed'
BY DEF Placed

\* Nothing is sent to a connection before it is there.
LEMMA KeepsBlank ==
    ASSUME TypeOK, Blank, LoadIsRequests, Next
    PROVE  Blank'
<1> USE DEF TypeOK, Blank, Tasks, Attempts, Suits, Usable, Listed, Idle, Unused, NextUnused, conns,
           connects, pool, calls, tries
<1>1. ASSUME NEW k \in Calls, FailFast(k) \/ Decline(k) \/ Wait(k) \/ Wake(k) \/ Send(k) \/
             SendFails(k) \/ Leave(k) PROVE Blank'
  BY <1>1 DEF FailFast, Decline, Wait, Wake, Send, SendFails, Leave
<1>2. ASSUME NEW k \in Calls, NEW c \in Conns, Use(k, c) \/ Reserve(k, c) \/ LeaveConnect(k, c) \/
             Tire(k, c) PROVE Blank'
  BY <1>2 DEF Use, Reserve, LeaveConnect, Tire
<1>3. ASSUME NEW c \in Conns, Connected(c) \/ Answer(c) \/ End(c) \/ LoseOne(c) PROVE Blank'
  BY <1>3 DEF Connected, Answer, End, LoseOne, Served
<1>4. ASSUME NEW c \in Conns, Settle(c) PROVE Blank'
  BY <1>4 DEF Settle
<1>5. ASSUME NEW c \in Conns, Close(c) PROVE Blank'
  BY <1>5 DEF Close
<1>6. ASSUME NEW c \in Conns, DropLoad(c) PROVE Blank'
  BY <1>6, DropsCounted DEF DropLoad
<1>7. ASSUME NEW c \in Conns, NEW why \in {"refused", "failed"}, Unconnected(c, why) PROVE Blank'
  BY <1>7 DEF Unconnected
<1>8. ASSUME NEW c \in Conns, NEW reply \in {"closed", "timeout"}, Fail(c, reply) PROVE Blank'
  BY <1>8 DEF Fail, Served
<1>9. ASSUME NEW new \in SUBSET Conns, Prewarm(new) PROVE Blank'
  BY <1>9 DEF Prewarm
<1>10. CASE Ring \/ Regrow \/ Forget \/ CloseIdle
  BY <1>10 DEF Ring, Regrow, Forget, CloseIdle
<1> HIDE DEF TypeOK, Blank, Tasks, Attempts, Suits, Usable, Listed, Idle, Unused, NextUnused, conns,
            connects, pool, calls, tries
<1> QED
  BY <1>1, <1>2, <1>3, <1>4, <1>5, <1>6, <1>7, <1>8, <1>9, <1>10 DEF Next, Looks, Connects,
       Reads

LEMMA OwnedStays ==
    ASSUME TypeOK, Owned, attempt' = attempt, opener' = opener,
           \A j \in Calls : pc[j] \in {"opening", "racing"} => pc'[j] = pc[j]
    PROVE  Owned'
BY DEF TypeOK, Owned

\* A call keeps to its connect.
LEMMA KeepsOwned ==
    ASSUME TypeOK, Owned, Next
    PROVE  Owned'
<1> USE DEF TypeOK, Owned, Attempts, Stages, Unused, NextUnused, conns, connects, pool, calls, tries
<1>1. ASSUME NEW k \in Calls, FailFast(k) PROVE Owned'
  BY <1>1 DEF FailFast, Move
<1>2. ASSUME NEW k \in Calls, Decline(k) PROVE Owned'
  BY <1>2 DEF Decline, Move
<1>3. ASSUME NEW k \in Calls, Send(k) PROVE Owned'
  BY <1>3 DEF Send, Move
<1>4. ASSUME NEW k \in Calls, SendFails(k) PROVE Owned'
  BY <1>4 DEF SendFails, Move, AfterLoss
<1>5. ASSUME NEW k \in Calls, Leave(k) PROVE Owned'
  BY <1>5 DEF Leave, Move
<1>6. ASSUME NEW k \in Calls, Wait(k) PROVE Owned'
  <2>1. \A j \in Calls : pc[j] \in {"opening", "racing"} => pc'[j] = pc[j]
    BY <1>6 DEF Wait, Move
  <2>2. attempt' = attempt /\ opener' = opener
    BY <1>6 DEF Wait, Move
  <2>3. QED
    BY <2>1, <2>2, OwnedStays
<1>7. ASSUME NEW k \in Calls, Wake(k) PROVE Owned'
  <2>1. \A j \in Calls : pc[j] \in {"opening", "racing"} => pc'[j] = pc[j]
    BY <1>7 DEF Wake, Move
  <2>2. attempt' = attempt /\ opener' = opener
    BY <1>7 DEF Wake, Move
  <2>3. QED
    BY <2>1, <2>2, OwnedStays
<1>8. ASSUME NEW k \in Calls, NEW c \in Conns, Use(k, c) PROVE Owned'
  BY <1>8 DEF Use, Move
<1>9. ASSUME NEW k \in Calls, NEW c \in Conns, Reserve(k, c) PROVE Owned'
  BY <1>9 DEF Reserve, Move
<1>10. ASSUME NEW k \in Calls, NEW c \in Conns, LeaveConnect(k, c) PROVE Owned'
  BY <1>10 DEF LeaveConnect, Move
<1>11. ASSUME NEW k \in Calls, NEW c \in Conns, Tire(k, c) PROVE Owned'
  BY <1>11 DEF Tire, Move
<1>12. ASSUME NEW c \in Conns, Connected(c) \/ End(c) \/ DropLoad(c) PROVE Owned'
  BY <1>12 DEF Connected, End, DropLoad
<1>13. ASSUME NEW c \in Conns, Settle(c) PROVE Owned'
  BY <1>13 DEF Settle, AfterConnect
<1>14. ASSUME NEW c \in Conns, Answer(c) PROVE Owned'
  <2>1. attempt' = attempt /\ opener' = opener
    BY <1>14 DEF Answer
  <2>2. QED
    BY <1>14, <2>1, ReplyMoves, OwnedStays
<1>15. ASSUME NEW c \in Conns, LoseOne(c) PROVE Owned'
  <2>1. attempt' = attempt /\ opener' = opener
    BY <1>15 DEF LoseOne
  <2>2. QED
    BY <1>15, <2>1, ReplyMoves, OwnedStays
<1>16. ASSUME NEW c \in Conns, Close(c) PROVE Owned'
  <2>1. attempt' = attempt /\ opener' = opener
    BY <1>16 DEF Close
  <2>2. QED
    BY <1>16, <2>1, ReplyMoves, OwnedStays
<1>17. ASSUME NEW c \in Conns, NEW why \in {"refused", "failed"}, Unconnected(c, why) PROVE Owned'
  BY <1>17 DEF Unconnected
<1>18. ASSUME NEW c \in Conns, NEW reply \in {"closed", "timeout"}, Fail(c, reply) PROVE Owned'
  <2>1. \E r \in {"closed", "timeout"} : Fail(c, r)
    BY <1>18
  <2>2. attempt' = attempt /\ opener' = opener
    BY <1>18 DEF Fail
  <2>3. QED
    BY <2>1, <2>2, ReplyMoves, OwnedStays
<1>19. ASSUME NEW new \in SUBSET Conns, Prewarm(new) PROVE Owned'
  BY <1>19 DEF Prewarm
<1>20. CASE Ring \/ Regrow \/ Forget \/ CloseIdle
  BY <1>20 DEF Ring, Regrow, Forget, CloseIdle
<1> HIDE DEF TypeOK, Owned, Attempts, Stages, Unused, NextUnused, conns, connects, pool, calls,
            tries
<1> QED
  BY <1>1, <1>2, <1>3, <1>4, <1>5, <1>6, <1>7, <1>8, <1>9, <1>10, <1>11, <1>12, <1>13,
       <1>14, <1>15, <1>16, <1>17, <1>18, <1>19, <1>20 DEF Next, Looks, Connects, Reads

\* Requests keep their connection.
LEMMA KeepsPlaced ==
    ASSUME TypeOK, Placed, Owned, Next
    PROVE  Placed'
<1> USE DEF TypeOK, Placed, Owned, Stages, Suits, Usable, Listed, conns, connects, pool, calls,
           tries
<1>1. ASSUME NEW k \in Calls, FailFast(k) \/ Decline(k) \/ Wait(k) \/ Wake(k) \/ Send(k) PROVE
             Placed'
  BY <1>1 DEF FailFast, Decline, Wait, Wake, Send, Move
<1>2. ASSUME NEW k \in Calls, SendFails(k) PROVE Placed'
  BY <1>2 DEF SendFails, Move, AfterLoss
<1>3. ASSUME NEW k \in Calls, Leave(k) PROVE Placed'
  BY <1>3 DEF Leave, Move
<1>4. ASSUME NEW k \in Calls, NEW c \in Conns, LeaveConnect(k, c) \/ Tire(k, c) PROVE Placed'
  BY <1>4 DEF LeaveConnect, Tire, Move
<1>5. ASSUME NEW k \in Calls, NEW c \in Conns, Use(k, c) PROVE Placed'
  BY <1>5 DEF Use, Move
<1>6. ASSUME NEW k \in Calls, NEW c \in Conns, Reserve(k, c) PROVE Placed'
  BY <1>6 DEF Reserve, Move
<1>7. ASSUME NEW c \in Conns, Connected(c) \/ End(c) \/ DropLoad(c) PROVE Placed'
  BY <1>7 DEF Connected, End, DropLoad
<1>8. ASSUME NEW c \in Conns, Settle(c) PROVE Placed'
  BY <1>8, SMTT(30) DEF Settle, AfterConnect
<1>9. ASSUME NEW c \in Conns, Answer(c) PROVE Placed'
  BY <1>9, ReplyMoves, PlacedStays
<1>10. ASSUME NEW c \in Conns, LoseOne(c) PROVE Placed'
  BY <1>10, ReplyMoves, PlacedStays
<1>11. ASSUME NEW c \in Conns, Close(c) PROVE Placed'
  BY <1>11, ReplyMoves, PlacedStays
<1>12. ASSUME NEW c \in Conns, NEW why \in {"refused", "failed"}, Unconnected(c, why) PROVE Placed'
  BY <1>12 DEF Unconnected
<1>13. ASSUME NEW c \in Conns, NEW reply \in {"closed", "timeout"}, Fail(c, reply) PROVE Placed'
  <2>1. \E r \in {"closed", "timeout"} : Fail(c, r)
    BY <1>13
  <2>2. QED
    BY <2>1, ReplyMoves, PlacedStays
<1>14. ASSUME NEW new \in SUBSET Conns, Prewarm(new) PROVE Placed'
  BY <1>14 DEF Prewarm
<1>15. CASE Ring \/ Regrow \/ Forget \/ CloseIdle
  BY <1>15 DEF Ring, Regrow, Forget, CloseIdle
<1> HIDE DEF TypeOK, Placed, Owned, Stages, Suits, Usable, Listed, conns, connects, pool, calls,
            tries
<1> QED
  BY <1>1, <1>2, <1>3, <1>4, <1>5, <1>6, <1>7, <1>8, <1>9, <1>10, <1>11, <1>12, <1>13,
       <1>14, <1>15 DEF Next, Looks, Connects, Reads

----------------------------------------------------------------------------
\* What is not added to stays within the limit.
LEMMA Within ==
    ASSUME WithinLimit, (Listed \cup Connecting)' \subseteq Listed \cup Connecting
    PROVE  WithinLimit'
<1> DEFINE before == Listed \cup Connecting
           after == (Listed \cup Connecting)'
<1>1. IsFiniteSet(before) /\ after \in SUBSET before
  BY OpenCounts
<1>2. IsFiniteSet(after) /\ Cardinality(after) <= Cardinality(before)
  <2> HIDE DEF before, after
  <2>1. QED
    BY <1>1, FS_Subset
<1>3. Cardinality(before) <= MaxConnections
  BY DEF WithinLimit
<1>4. Cardinality(after) <= MaxConnections
  <2> HIDE DEF before, after
  <2>1. QED
    BY <1>1, <1>2, <1>3, FS_CardinalityType
<1>5. QED
  BY <1>4 DEF WithinLimit

\* Only Reserve and Prewarm add to what is counted.
LEMMA KeepsLimit ==
    ASSUME TypeOK, WithinLimit, Next
    PROVE  WithinLimit'
<1> USE DEF conns, connects, pool, calls, tries
<1>1. ASSUME NEW k \in Calls, FailFast(k) \/ Decline(k) \/ Wait(k) \/ Wake(k) \/ Send(k) \/
             SendFails(k) \/ Leave(k) PROVE WithinLimit'
  <2>1. (Listed \cup Connecting)' \subseteq Listed \cup Connecting
BY <1>1 DEF TypeOK, Listed, Connecting, Idle, FailFast, Decline, Wait, Wake, Send, SendFails, Leave
  <2>2. QED
    BY <2>1, Within
<1>2. ASSUME NEW k \in Calls, NEW c \in Conns, Use(k, c) \/ LeaveConnect(k, c) \/ Tire(k, c) PROVE
             WithinLimit'
  <2>1. (Listed \cup Connecting)' \subseteq Listed \cup Connecting
    BY <1>2 DEF TypeOK, Listed, Connecting, Idle, Use, LeaveConnect, Tire
  <2>2. QED
    BY <2>1, Within
<1>3. ASSUME NEW k \in Calls, NEW c \in Conns, Reserve(k, c) PROVE WithinLimit'
  <2> DEFINE before == Listed \cup Connecting
  <2>1. (Listed \cup Connecting)' = before \cup {c}
    BY <1>3 DEF TypeOK, Reserve, Listed, Connecting, Unused, NextUnused
  <2>2. Open < limit /\ limit \in Nat /\ limit <= MaxConnections
    BY <1>3 DEF TypeOK, Reserve, Spare
  <2>3. IsFiniteSet(before) /\ Cardinality(before) \in Nat /\ Cardinality(before) <= Open
    BY OpenCounts
  <2>4. Cardinality(before \cup {c}) <= MaxConnections
    <3> HIDE DEF before
    <3>1. Cardinality(before \cup {c}) =
            IF c \in before THEN Cardinality(before) ELSE Cardinality(before) + 1
      BY <2>3, FS_AddElement, Zenon
    <3>2. QED
      BY <2>2, <2>3, <3>1, Numbers
  <2>5. QED
    BY <2>1, <2>4 DEF WithinLimit
<1>4. ASSUME NEW c \in Conns, Connected(c) \/ Settle(c) \/ Answer(c) \/ End(c) \/ LoseOne(c) \/
             Close(c) \/ DropLoad(c) PROVE WithinLimit'
  <2>1. (Listed \cup Connecting)' \subseteq Listed \cup Connecting
BY <1>4 DEF TypeOK, Listed, Connecting, Idle, Connected, Settle, Answer, End, LoseOne, Close,
         DropLoad
  <2>2. QED
    BY <2>1, Within
<1>5. ASSUME NEW c \in Conns, NEW why \in {"refused", "failed"}, Unconnected(c, why) PROVE
             WithinLimit'
  <2>1. (Listed \cup Connecting)' \subseteq Listed \cup Connecting
    BY <1>5 DEF TypeOK, Listed, Connecting, Idle, Unconnected
  <2>2. QED
    BY <2>1, Within
<1>6. ASSUME NEW c \in Conns, NEW reply \in {"closed", "timeout"}, Fail(c, reply) PROVE WithinLimit'
  <2>1. (Listed \cup Connecting)' \subseteq Listed \cup Connecting
    BY <1>6 DEF TypeOK, Listed, Connecting, Idle, Fail
  <2>2. QED
    BY <2>1, Within
<1>7. ASSUME NEW new \in SUBSET Conns, Prewarm(new) PROVE WithinLimit'
  <2> DEFINE before == Listed \cup Connecting
             after == (Listed \cup Connecting)'
  <2>1. after = before \cup new
    BY <1>7 DEF TypeOK, Prewarm, Listed, Connecting, Attempts
  <2>2. IsFiniteSet(before) /\ Cardinality(before) \in Nat /\ Cardinality(before) <= Open
        /\ Cardinality(before) <= MaxConnections
    BY OpenCounts DEF WithinLimit
  <2>3. IsFiniteSet(new) /\ Cardinality(new) \in Nat
    BY FS_Subset, FS_CardinalityType
  <2>4. Cardinality(new) <= (IF Open < limit THEN limit - Open ELSE 0)
        /\ limit \in Nat /\ limit <= MaxConnections
    BY <1>7 DEF TypeOK, Prewarm, Unopened
  <2>5. Cardinality(after) <= MaxConnections
    <3> HIDE DEF before, after
    <3>1. Cardinality(before \cap new) \in Nat
      BY <2>2, FS_Intersection, FS_CardinalityType
    <3>2. Cardinality(before \cup new) =
            Cardinality(before) + Cardinality(new) - Cardinality(before \cap new)
      BY <2>2, <2>3, FS_Union, Zenon
    <3>3. QED
      BY <2>1, <2>2, <2>3, <2>4, <3>1, <3>2, Numbers
  <2>6. QED
    BY <2>5 DEF WithinLimit
<1>8. CASE Ring \/ Regrow \/ Forget
  <2>1. (Listed \cup Connecting)' \subseteq Listed \cup Connecting
    BY <1>8 DEF TypeOK, Listed, Connecting, Idle, Ring, Regrow, Forget
  <2>2. QED
    BY <2>1, Within
<1>9. CASE CloseIdle
  <2>1. (Listed \cup Connecting)' \subseteq Listed \cup Connecting
    BY <1>9 DEF TypeOK, Listed, Connecting, Idle, CloseIdle
  <2>2. QED
    BY <2>1, Within
<1> QED
  BY <1>1, <1>2, <1>3, <1>4, <1>5, <1>6, <1>7, <1>8, <1>9 DEF Next, Looks, Connects, Reads

----------------------------------------------------------------------------
(***************************************************************************)
(* A look that finds nothing to use, though no connect is under way and no *)
(* connection has a load, cannot be: either there is a slot or every       *)
(* connection is idle, and headroom is kept from two connections up.       *)
(***************************************************************************)
LEMMA DeclineHears ==
    ASSUME TypeOK, NEW k \in Calls, \A c \in Conns : ~Suits(k, c), ~Spare(k)
    PROVE  Connecting # {} \/ \E c \in Conns : load[c] > 0
<1> SUFFICES ASSUME Connecting = {}, \A c \in Conns : load[c] = 0
             PROVE  FALSE
  BY DEF TypeOK
<1>1. Idle = Listed
  BY DEF Idle, Listed
<1>2. Open = Cardinality(Listed) /\ Cardinality(Listed) \in Nat
  BY Numbers, FS_EmptySet DEF Open
<1>3. limit \in Nat /\ limit > 0
  BY DEF TypeOK
<1>4. ~HoldHeadroom(k)
  BY <1>1, <1>2, <1>3 DEF HoldHeadroom, Unopened
<1>5. Open >= limit
  BY <1>2, <1>3, <1>4 DEF Spare
<1>6. Listed # {}
  BY <1>2, <1>3, <1>5, FS_EmptySet
<1>7. PICK c \in Listed : TRUE
  BY <1>6
<1>8. c \in Conns /\ Usable(k) = Listed /\ \A d \in Usable(k) : load[c] <= load[d]
  BY <1>4, <1>7 DEF Usable, Listed
<1>9. QED
  BY <1>7, <1>8 DEF Suits

\* What stirs goes on stirring, rings, or has rung.
LEMMA KeepsHeard ==
    ASSUME TypeOK, Heard, Next
    PROVE  Heard'
<1> USE DEF TypeOK, Heard, Stirring, Listed, Connecting, Idle, Attempts, Unused, NextUnused, conns,
           connects, pool, calls, tries
<1>1. ASSUME NEW k \in Calls, FailFast(k) \/ Wait(k) \/ Wake(k) \/ Send(k) \/ SendFails(k) \/
             Leave(k) PROVE Heard'
  BY <1>1 DEF FailFast, Wait, Wake, Send, SendFails, Leave
<1>2. ASSUME NEW k \in Calls, Decline(k) PROVE Heard'
  BY <1>2, DeclineHears DEF Decline
<1>3. ASSUME NEW k \in Calls, NEW c \in Conns, Reserve(k, c) \/ Tire(k, c) PROVE Heard'
  BY <1>3 DEF Reserve, Tire
<1>4. ASSUME NEW k \in Calls, NEW c \in Conns, Use(k, c) PROVE Heard'
  BY <1>4 DEF Use
<1>5. ASSUME NEW k \in Calls, NEW c \in Conns, LeaveConnect(k, c) PROVE Heard'
  BY <1>5 DEF LeaveConnect
<1>6. ASSUME NEW c \in Conns, Connected(c) \/ Settle(c) \/ Answer(c) \/ End(c) \/ LoseOne(c) \/
             DropLoad(c) PROVE Heard'
  BY <1>6 DEF Connected, Settle, Answer, End, LoseOne, DropLoad
<1>7. ASSUME NEW c \in Conns, Close(c) PROVE Heard'
  BY <1>7 DEF Close
<1>8. ASSUME NEW c \in Conns, NEW why \in {"refused", "failed"}, Unconnected(c, why) PROVE Heard'
  BY <1>8 DEF Unconnected
<1>9. ASSUME NEW c \in Conns, NEW reply \in {"closed", "timeout"}, Fail(c, reply) PROVE Heard'
  BY <1>9 DEF Fail
<1>10. ASSUME NEW new \in SUBSET Conns, Prewarm(new) PROVE Heard'
  BY <1>10 DEF Prewarm
<1>11. CASE Regrow \/ Forget
  BY <1>11 DEF Regrow, Forget
<1>12. CASE Ring
  BY <1>12 DEF Ring
<1>13. CASE CloseIdle
  BY <1>13 DEF CloseIdle
<1> HIDE DEF TypeOK, Heard, Stirring, Listed, Connecting, Idle, Attempts, Unused, NextUnused, conns,
            connects, pool, calls, tries
<1> QED
  BY <1>1, <1>2, <1>3, <1>4, <1>5, <1>6, <1>7, <1>8, <1>9, <1>10, <1>11, <1>12, <1>13 DEF
       Next, Looks, Connects, Reads

----------------------------------------------------------------------------
LEMMA Shifted ==
    ASSUME NEW s \in Nat, NEW q \in Nat, NEW d \in Nat, NEW j \in Nat,
           NEW r \in Nat, NEW e \in Nat, r + e = q + d
    PROVE  s + r + e + j = s + q + d + j
OBVIOUS

\* Requests that go from the queue to be dropped are counted all along.
LEMMA LoadsStay ==
    ASSUME TypeOK, LoadIsRequests, load' = load,
           \A c \in Conns : Len(queue'[c]) + dropping'[c] = Len(queue[c]) + dropping[c],
           \A c \in Conns : dropping'[c] \in Nat /\ Len(queue'[c]) \in Nat,
           \A c \in Conns : attempt'[c] = "joined" <=> attempt[c] = "joined",
           \A c \in Conns : Sending(c)' = Sending(c)
    PROVE  LoadIsRequests'
<1> SUFFICES ASSUME NEW c \in Conns
             PROVE  load'[c] = Cardinality(Sending(c)') + Len(queue'[c]) + dropping'[c]
                                 + (IF attempt'[c] = "joined" THEN 1 ELSE 0)
  BY DEF LoadIsRequests
<1> DEFINE sends == Cardinality(Sending(c))
           joins == IF attempt[c] = "joined" THEN 1 ELSE 0
           waits == Len(queue[c])
           waitsNext == Len(queue'[c])
           drops == dropping[c]
           dropsNext == dropping'[c]
<1>1. load[c] = sends + waits + drops + joins
  BY DEF LoadIsRequests
<1>2. sends \in Nat /\ joins \in Nat /\ waits \in Nat /\ drops \in Nat
  BY Numbers DEF TypeOK
<1>3. Cardinality(Sending(c)') = sends /\ (IF attempt'[c] = "joined" THEN 1 ELSE 0) = joins
  OBVIOUS
<1>4. waitsNext \in Nat /\ dropsNext \in Nat /\ waitsNext + dropsNext = waits + drops
  OBVIOUS
<1>5. sends + waitsNext + dropsNext + joins = sends + waits + drops + joins
  <2> HIDE DEF sends, joins, waits, waitsNext, drops, dropsNext
  <2>1. QED
    BY <1>2, <1>4, Shifted
<1>6. QED
  BY <1>1, <1>3, <1>5

LEMMA LoadsQuiet ==
    ASSUME TypeOK, LoadIsRequests, UNCHANGED <<load, queue, dropping>>,
           \A c \in Conns : attempt'[c] = "joined" <=> attempt[c] = "joined",
           \A c \in Conns : Sending(c)' = Sending(c)
    PROVE  LoadIsRequests'
<1>1. \A c \in Conns : dropping[c] \in Nat /\ Len(queue[c]) \in Nat
  BY DEF TypeOK
<1>2. QED
  BY <1>1, LoadsStay

\* What is served goes from the queue to be dropped.
LEMMA ServedMoves ==
    ASSUME TypeOK, NEW c \in Conns, Served(c), NEW d \in Conns
    PROVE  Len(queue'[d]) + dropping'[d] = Len(queue[d]) + dropping[d]
<1>1. CASE d # c
  <2>1. queue'[d] = queue[d] /\ dropping'[d] = dropping[d]
    BY <1>1 DEF Served, TypeOK
  <2>2. QED
    BY <2>1
<1>2. CASE d = c
  <2>1. queue[c] \in Seq(Calls) /\ queue[c] # <<>> /\ dropping[c] \in Nat
    BY DEF Served, TypeOK
  <2>2. queue'[c] = Tail(queue[c]) /\ dropping'[c] = dropping[c] + 1
    BY DEF Served, TypeOK
  <2>3. Len(Tail(queue[c])) = Len(queue[c]) - 1 /\ Len(queue[c]) \in Nat
    BY <2>1
  <2>4. QED
    BY <1>2, <2>1, <2>2, <2>3
<1>3. QED
  BY <1>1, <1>2

\* A request that is put on a connection is one more, one that is taken off it one less.
LEMMA SendingCounts ==
    ASSUME NEW c \in Conns
    PROVE  /\ \A k : k \notin Sending(c) =>
                 Cardinality(Sending(c) \cup {k}) = Cardinality(Sending(c)) + 1
           /\ \A k : k \in Sending(c) =>
                 Cardinality(Sending(c) \ {k}) = Cardinality(Sending(c)) - 1
<1> DEFINE sent == Sending(c)
<1>1. IsFiniteSet(sent)
  BY SetsFinite
<1> HIDE DEF sent
<1>2. ASSUME NEW k, k \notin sent PROVE Cardinality(sent \cup {k}) = Cardinality(sent) + 1
  BY <1>1, <1>2, FS_AddElement
<1>3. ASSUME NEW k, k \in sent PROVE Cardinality(sent \ {k}) = Cardinality(sent) - 1
  BY <1>1, <1>3, FS_RemoveElement
<1>4. QED
  BY <1>2, <1>3 DEF sent

\* What changes the load of a connection changes its requests alike.
LEMMA KeepsLoads ==
    ASSUME TypeOK, Blank, Owned, Placed, LoadIsRequests, Next
    PROVE  LoadIsRequests'
<1> USE DEF TypeOK, Stages, Attempts, conns, connects, pool, calls, tries
<1>1. ASSUME NEW k \in Calls, FailFast(k) \/ Decline(k) \/ Wait(k) \/ Wake(k) \/ Leave(k) PROVE
             LoadIsRequests'
  <2>1. UNCHANGED <<load, queue, dropping>>
    BY <1>1 DEF FailFast, Decline, Wait, Wake, Leave, Move
  <2>2. \A d \in Conns : Sending(d)' = Sending(d)
    BY <1>1 DEF Sending, FailFast, Decline, Wait, Wake, Leave, Move
  <2>3. \A d \in Conns : attempt'[d] = "joined" <=> attempt[d] = "joined"
    BY <1>1 DEF FailFast, Decline, Wait, Wake, Leave, Move
  <2>4. QED
    BY <2>1, <2>2, <2>3, LoadsQuiet
<1>2. ASSUME NEW k \in Calls, Send(k) PROVE LoadIsRequests'
  <2> SUFFICES ASSUME NEW d \in Conns
               PROVE  load'[d] = Cardinality(Sending(d)') + Len(queue'[d]) + dropping'[d]
                                   + (IF attempt'[d] = "joined" THEN 1 ELSE 0)
    BY DEF LoadIsRequests
  <2>0. /\ load[d] = Cardinality(Sending(d)) + Len(queue[d]) + dropping[d]
                       + (IF attempt[d] = "joined" THEN 1 ELSE 0)
        /\ Cardinality(Sending(d)) \in Nat /\ Len(queue[d]) \in Nat /\ dropping[d] \in Nat
    BY Numbers DEF LoadIsRequests
  <2>1. at[k] \in Conns /\ load' = load /\ attempt' = attempt
    BY <1>2 DEF Placed, Send, Move
  <2>2. CASE d # at[k]
    <3>1. queue'[d] = queue[d] /\ dropping'[d] = dropping[d] /\ Sending(d)' = Sending(d)
      BY <1>2, <2>2 DEF Sending, Send, Move
    <3>2. QED
      BY <2>0, <2>1, <3>1
  <2>3. CASE d = at[k]
    <3>1. Sending(d)' = Sending(d) \ {k} /\ k \in Sending(d)
      BY <1>2, <2>3 DEF Sending, Send, Move
    <3>2. Cardinality(Sending(d)') = Cardinality(Sending(d)) - 1
      BY <3>1, SendingCounts
    <3>3. Len(queue'[d]) = Len(queue[d]) + 1 /\ dropping'[d] = dropping[d]
      BY <1>2, <2>1, <2>3 DEF Send, Move
    <3>4. QED
      BY <2>0, <2>1, <3>2, <3>3
  <2>4. QED
    BY <2>2, <2>3
<1>3. ASSUME NEW k \in Calls, SendFails(k) PROVE LoadIsRequests'
  <2> SUFFICES ASSUME NEW d \in Conns
               PROVE  load'[d] = Cardinality(Sending(d)') + Len(queue'[d]) + dropping'[d]
                                   + (IF attempt'[d] = "joined" THEN 1 ELSE 0)
    BY DEF LoadIsRequests
  <2>0. /\ load[d] = Cardinality(Sending(d)) + Len(queue[d]) + dropping[d]
                       + (IF attempt[d] = "joined" THEN 1 ELSE 0)
        /\ Cardinality(Sending(d)) \in Nat /\ Len(queue[d]) \in Nat /\ dropping[d] \in Nat
    BY Numbers DEF LoadIsRequests
  <2>1. at[k] \in Conns /\ load' = load /\ attempt' = attempt
    BY <1>3 DEF Placed, SendFails, Move, AfterLoss
  <2>2. CASE d # at[k]
    <3>1. queue'[d] = queue[d] /\ dropping'[d] = dropping[d] /\ Sending(d)' = Sending(d)
      BY <1>3, <2>2 DEF Sending, SendFails, Move, AfterLoss
    <3>2. QED
      BY <2>0, <2>1, <3>1
  <2>3. CASE d = at[k]
    <3>1. Sending(d)' = Sending(d) \ {k} /\ k \in Sending(d)
      BY <1>3, <2>3 DEF Sending, SendFails, Move, AfterLoss
    <3>2. Cardinality(Sending(d)') = Cardinality(Sending(d)) - 1
      BY <3>1, SendingCounts
    <3>3. Len(queue'[d]) = Len(queue[d]) /\ dropping'[d] = dropping[d] + 1
      BY <1>3, <2>1, <2>3 DEF SendFails, Move, AfterLoss
    <3>4. QED
      BY <2>0, <2>1, <3>2, <3>3
  <2>4. QED
    BY <2>2, <2>3
<1>4. ASSUME NEW k \in Calls, NEW c \in Conns, LeaveConnect(k, c) PROVE LoadIsRequests'
  <2>1. UNCHANGED <<load, queue, dropping>>
    BY <1>4 DEF LeaveConnect, Move
  <2>2. \A d \in Conns : Sending(d)' = Sending(d)
    BY <1>4 DEF Sending, LeaveConnect, Move
  <2>3. \A d \in Conns : attempt'[d] = "joined" <=> attempt[d] = "joined"
    BY <1>4 DEF LeaveConnect, Move
  <2>4. QED
    BY <2>1, <2>2, <2>3, LoadsQuiet
<1>5. ASSUME NEW k \in Calls, NEW c \in Conns, Tire(k, c) PROVE LoadIsRequests'
  <2>1. UNCHANGED <<load, queue, dropping>>
    BY <1>5 DEF Tire, Move
  <2>2. \A d \in Conns : Sending(d)' = Sending(d)
    BY <1>5 DEF Sending, Tire, Move
  <2>3. \A d \in Conns : attempt'[d] = "joined" <=> attempt[d] = "joined"
    BY <1>5 DEF Tire, Move
  <2>4. QED
    BY <2>1, <2>2, <2>3, LoadsQuiet
<1>6. ASSUME NEW k \in Calls, NEW c \in Conns, Use(k, c) PROVE LoadIsRequests'
  <2> SUFFICES ASSUME NEW d \in Conns
               PROVE  load'[d] = Cardinality(Sending(d)') + Len(queue'[d]) + dropping'[d]
                                   + (IF attempt'[d] = "joined" THEN 1 ELSE 0)
    BY DEF LoadIsRequests
  <2>0. /\ load[d] = Cardinality(Sending(d)) + Len(queue[d]) + dropping[d]
                       + (IF attempt[d] = "joined" THEN 1 ELSE 0)
        /\ Cardinality(Sending(d)) \in Nat /\ Len(queue[d]) \in Nat /\ dropping[d] \in Nat
    BY Numbers DEF LoadIsRequests
  <2>1. queue' = queue /\ dropping' = dropping /\ attempt' = attempt
    BY <1>6 DEF Use, Move
  <2>2. CASE d # c
    <3>1. load'[d] = load[d] /\ Sending(d)' = Sending(d)
      BY <1>6, <2>2 DEF Sending, Use, Move
    <3>2. QED
      BY <2>0, <2>1, <3>1
  <2>3. CASE d = c
    <3>1. load'[d] = load[d] + 1 /\ Sending(d)' = Sending(d) \cup {k} /\ k \notin Sending(d)
      BY <1>6, <2>3 DEF Sending, Use, Move
    <3>2. Cardinality(Sending(d)') = Cardinality(Sending(d)) + 1
      BY <3>1, SendingCounts
    <3>3. QED
      BY <2>0, <2>1, <3>1, <3>2, SMTT(30)
  <2>4. QED
    BY <2>2, <2>3
<1>7. ASSUME NEW k \in Calls, NEW c \in Conns, Reserve(k, c) PROVE LoadIsRequests'
  <2>1. UNCHANGED <<load, queue, dropping>>
    BY <1>7 DEF Reserve, Move, Unused, NextUnused
  <2>2. \A d \in Conns : Sending(d)' = Sending(d)
    BY <1>7 DEF Sending, Reserve, Move, Unused, NextUnused
  <2>3. \A d \in Conns : attempt'[d] = "joined" <=> attempt[d] = "joined"
    BY <1>7 DEF Reserve, Move, Unused, NextUnused
  <2>4. QED
    BY <2>1, <2>2, <2>3, LoadsQuiet
<1>8. ASSUME NEW c \in Conns, End(c) PROVE LoadIsRequests'
  <2>1. UNCHANGED <<load, queue, dropping>>
    BY <1>8 DEF End, Happens
  <2>2. \A d \in Conns : Sending(d)' = Sending(d)
    BY <1>8 DEF Sending, End, Happens
  <2>3. \A d \in Conns : attempt'[d] = "joined" <=> attempt[d] = "joined"
    BY <1>8 DEF End, Happens
  <2>4. QED
    BY <2>1, <2>2, <2>3, LoadsQuiet
<1>9. ASSUME NEW c \in Conns, Connected(c) PROVE LoadIsRequests'
  <2> SUFFICES ASSUME NEW d \in Conns
               PROVE  load'[d] = Cardinality(Sending(d)') + Len(queue'[d]) + dropping'[d]
                                   + (IF attempt'[d] = "joined" THEN 1 ELSE 0)
    BY DEF LoadIsRequests
  <2>0. /\ load[d] = Cardinality(Sending(d)) + Len(queue[d]) + dropping[d]
                       + (IF attempt[d] = "joined" THEN 1 ELSE 0)
        /\ Cardinality(Sending(d)) \in Nat /\ Len(queue[d]) \in Nat /\ dropping[d] \in Nat
    BY Numbers DEF LoadIsRequests
  <2>1. queue' = queue /\ dropping' = dropping /\ Sending(d)' = Sending(d)
    BY <1>9 DEF Sending, Connected
  <2>2. CASE d # c
    <3>1. load'[d] = load[d] /\ attempt'[d] = attempt[d]
      BY <1>9, <2>2 DEF Connected
    <3>2. QED
      BY <2>0, <2>1, <3>1
  <2>3. CASE d = c
    <3>1. load[d] = 0 /\ attempt[d] = "opening" /\ load'[d] = 1 /\ attempt'[d] = "joined"
      BY <1>9, <2>3 DEF Blank, Connected
    <3>2. QED
      BY <2>0, <2>1, <3>1
  <2>4. QED
    BY <2>2, <2>3
<1>10. ASSUME NEW c \in Conns, Settle(c) PROVE LoadIsRequests'
  <2> SUFFICES ASSUME NEW d \in Conns
               PROVE  load'[d] = Cardinality(Sending(d)') + Len(queue'[d]) + dropping'[d]
                                   + (IF attempt'[d] = "joined" THEN 1 ELSE 0)
    BY DEF LoadIsRequests
  <2>0. /\ load[d] = Cardinality(Sending(d)) + Len(queue[d]) + dropping[d]
                       + (IF attempt[d] = "joined" THEN 1 ELSE 0)
        /\ Cardinality(Sending(d)) \in Nat /\ Len(queue[d]) \in Nat /\ dropping[d] \in Nat
    BY Numbers DEF LoadIsRequests
  <2>1. load' = load /\ queue' = queue /\ attempt'[c] = "none" /\ attempt[c] # "none"
    BY <1>10 DEF Settle
  <2>2. CASE d # c
    <3>1. dropping'[d] = dropping[d] /\ attempt'[d] = attempt[d]
      BY <1>10, <2>2 DEF Settle
    <3>2. Sending(d)' = Sending(d)
      BY <1>10, <2>2 DEF Owned, Sending, Settle, AfterConnect
    <3>3. QED
      BY <2>0, <2>1, <3>1, <3>2
  <2>3. CASE d = c /\ attempt[c] = "joined" /\ opener[c] # None
    <3> DEFINE k == opener[c]
    <3>0. /\ k \in Calls /\ pc[k] \in {"opening", "racing"} /\ dropping' = dropping
          /\ pc' = [pc EXCEPT ![k] = "sending"] /\ at' = [at EXCEPT ![k] = c]
      BY <1>10, <2>3 DEF Owned, Settle, AfterConnect
    <3> HIDE DEF k
    <3>1. Sending(c)' = Sending(c) \cup {k} /\ k \notin Sending(c)
      BY <3>0 DEF Sending
    <3>2. Cardinality(Sending(c)') = Cardinality(Sending(c)) + 1
      BY <3>1, SendingCounts
    <3>3. QED
      BY <2>0, <2>1, <2>3, <3>0, <3>1, <3>2, SMTT(30)
  <2>4. CASE d = c /\ attempt[c] = "joined" /\ opener[c] = None
    <3>1. Sending(c)' = Sending(c) /\ dropping'[c] = dropping[c] + 1
      BY <1>10, <2>4 DEF Sending, Settle
    <3>2. QED
      BY <2>0, <2>1, <2>4, <3>1
  <2>5. CASE d = c /\ attempt[c] # "joined"
    <3>1. Sending(c)' = Sending(c) /\ dropping' = dropping
      BY <1>10, <2>5 DEF Owned, Sending, Settle, AfterConnect
    <3>2. QED
      BY <2>0, <2>1, <2>5, <3>1
  <2>6. QED
    BY <2>2, <2>3, <2>4, <2>5
<1>11. ASSUME NEW c \in Conns, Answer(c) PROVE LoadIsRequests'
  <2>1. load' = load /\ attempt' = attempt
    BY <1>11 DEF Answer, Served, Happens, Awaited
  <2>2. \A d \in Conns : Sending(d)' = Sending(d)
    BY <1>11, ReplyMoves DEF Sending
  <2>3. \A d \in Conns : dropping'[d] \in Nat /\ Len(queue'[d]) \in Nat
    BY KeepsLoadTypes DEF LoadTypes
  <2>4. \A d \in Conns : Len(queue'[d]) + dropping'[d] = Len(queue[d]) + dropping[d]
    BY <1>11, ServedMoves DEF Answer
  <2>5. QED
    BY <2>1, <2>2, <2>3, <2>4, LoadsStay
<1>12. ASSUME NEW c \in Conns, LoseOne(c) PROVE LoadIsRequests'
  <2>1. load' = load /\ attempt' = attempt
    BY <1>12 DEF LoseOne, Served, Lose, Awaited, AfterLoss
  <2>2. \A d \in Conns : Sending(d)' = Sending(d)
    BY <1>12, ReplyMoves DEF Sending
  <2>3. \A d \in Conns : dropping'[d] \in Nat /\ Len(queue'[d]) \in Nat
    BY KeepsLoadTypes DEF LoadTypes
  <2>4. \A d \in Conns : Len(queue'[d]) + dropping'[d] = Len(queue[d]) + dropping[d]
    BY <1>12, ServedMoves DEF LoseOne
  <2>5. QED
    BY <2>1, <2>2, <2>3, <2>4, LoadsStay
<1>13. ASSUME NEW c \in Conns, Close(c) PROVE LoadIsRequests'
  <2>1. load' = load /\ attempt' = attempt
    BY <1>13 DEF Close, Lose, Awaited, AfterLoss
  <2>2. \A d \in Conns : Sending(d)' = Sending(d)
    BY <1>13, ReplyMoves DEF Sending
  <2>3. \A d \in Conns : dropping'[d] \in Nat /\ Len(queue'[d]) \in Nat
    BY KeepsLoadTypes DEF LoadTypes
  <2>4. \A d \in Conns : Len(queue'[d]) + dropping'[d] = Len(queue[d]) + dropping[d]
    BY <1>13 DEF Close, Lose, Awaited, AfterLoss
  <2>5. QED
    BY <2>1, <2>2, <2>3, <2>4, LoadsStay
<1>14. ASSUME NEW c \in Conns, DropLoad(c) PROVE LoadIsRequests'
  <2> SUFFICES ASSUME NEW d \in Conns
               PROVE  load'[d] = Cardinality(Sending(d)') + Len(queue'[d]) + dropping'[d]
                                   + (IF attempt'[d] = "joined" THEN 1 ELSE 0)
    BY DEF LoadIsRequests
  <2>0. /\ load[d] = Cardinality(Sending(d)) + Len(queue[d]) + dropping[d]
                       + (IF attempt[d] = "joined" THEN 1 ELSE 0)
        /\ Cardinality(Sending(d)) \in Nat /\ Len(queue[d]) \in Nat /\ dropping[d] \in Nat
    BY Numbers DEF LoadIsRequests
  <2>1. queue' = queue /\ attempt' = attempt /\ Sending(d)' = Sending(d)
    BY <1>14 DEF Sending, DropLoad
  <2>2. CASE d # c
    <3>1. load'[d] = load[d] /\ dropping'[d] = dropping[d]
      BY <1>14, <2>2 DEF DropLoad
    <3>2. QED
      BY <2>0, <2>1, <3>1
  <2>3. CASE d = c
    <3>1. load'[d] = load[d] - 1 /\ dropping'[d] = dropping[d] - 1 /\ dropping[d] > 0
      BY <1>14, <2>3 DEF DropLoad
    <3>2. QED
      BY <2>0, <2>1, <3>1
  <2>4. QED
    BY <2>2, <2>3
<1>15. ASSUME NEW c \in Conns, NEW why \in {"refused", "failed"}, Unconnected(c, why) PROVE
             LoadIsRequests'
  <2>1. UNCHANGED <<load, queue, dropping>>
    BY <1>15 DEF Unconnected
  <2>2. \A d \in Conns : Sending(d)' = Sending(d)
    BY <1>15 DEF Sending, Unconnected
  <2>3. \A d \in Conns : attempt'[d] = "joined" <=> attempt[d] = "joined"
    BY <1>15 DEF Unconnected
  <2>4. QED
    BY <2>1, <2>2, <2>3, LoadsQuiet
<1>16. ASSUME NEW c \in Conns, NEW reply \in {"closed", "timeout"}, Fail(c, reply) PROVE
             LoadIsRequests'
  <2>1. load' = load /\ attempt' = attempt
    BY <1>16 DEF Fail, Served, Happens, Awaited, AfterFailure
  <2>2. \A d \in Conns : Sending(d)' = Sending(d)
    <3>1. \E r \in {"closed", "timeout"} : Fail(c, r)
      BY <1>16
    <3>2. QED
      BY <3>1, ReplyMoves DEF Sending
  <2>3. \A d \in Conns : dropping'[d] \in Nat /\ Len(queue'[d]) \in Nat
    BY KeepsLoadTypes DEF LoadTypes
  <2>4. \A d \in Conns : Len(queue'[d]) + dropping'[d] = Len(queue[d]) + dropping[d]
    BY <1>16, ServedMoves DEF Fail
  <2>5. QED
    BY <2>1, <2>2, <2>3, <2>4, LoadsStay
<1>17. ASSUME NEW new \in SUBSET Conns, Prewarm(new) PROVE LoadIsRequests'
  <2>1. UNCHANGED <<load, queue, dropping>>
    BY <1>17 DEF Prewarm, Happens, Unused
  <2>2. \A d \in Conns : Sending(d)' = Sending(d)
    BY <1>17 DEF Sending, Prewarm, Happens, Unused
  <2>3. \A d \in Conns : attempt'[d] = "joined" <=> attempt[d] = "joined"
    BY <1>17 DEF Prewarm, Happens, Unused
  <2>4. QED
    BY <2>1, <2>2, <2>3, LoadsQuiet
<1>18. CASE Ring \/ Regrow \/ Forget
  <2>1. UNCHANGED <<load, queue, dropping>>
    BY <1>18 DEF Ring, Regrow, Forget, Happens
  <2>2. \A d \in Conns : Sending(d)' = Sending(d)
    BY <1>18 DEF Sending, Ring, Regrow, Forget, Happens
  <2>3. \A d \in Conns : attempt'[d] = "joined" <=> attempt[d] = "joined"
    BY <1>18 DEF Ring, Regrow, Forget, Happens
  <2>4. QED
    BY <2>1, <2>2, <2>3, LoadsQuiet
<1>19. CASE CloseIdle
  <2>1. UNCHANGED <<load, queue, dropping>>
    BY <1>19 DEF CloseIdle, Happens
  <2>2. \A d \in Conns : Sending(d)' = Sending(d)
    BY <1>19 DEF Sending, CloseIdle, Happens
  <2>3. \A d \in Conns : attempt'[d] = "joined" <=> attempt[d] = "joined"
    BY <1>19 DEF CloseIdle, Happens
  <2>4. QED
    BY <2>1, <2>2, <2>3, LoadsQuiet
<1> HIDE DEF TypeOK, Stages, Attempts, conns, connects, pool, calls, tries
<1> QED
  BY <1>1, <1>2, <1>3, <1>4, <1>5, <1>6, <1>7, <1>8, <1>9, <1>10, <1>11, <1>12, <1>13,
       <1>14, <1>15, <1>16, <1>17, <1>18, <1>19 DEF Next, Looks, Connects, Reads

----------------------------------------------------------------------------
LEMMA NextInv == Inv /\ [Next]_vars => Inv'
<1> SUFFICES ASSUME Inv, [Next]_vars PROVE Inv'
  OBVIOUS
<1> USE DEF Inv
<1>1. CASE Next
  <2>1. TypeOK'
    BY <1>1, TypeParts, KeepsConnTypes, KeepsLoadTypes, KeepsPoolTypes, KeepsCallTypes,
       KeepsTryTypes DEF TypeOK, ConnTypes, LoadTypes, PoolTypes, CallTypes, TryTypes
  <2>2. QED
    BY <1>1, <2>1, KeepsBlank, KeepsOwned, KeepsPlaced, KeepsLoads, KeepsLimit, KeepsHeard
<1>2. CASE UNCHANGED vars
  <2>1. UNCHANGED <<task, attempt, opener, load, queue, dropping, ringing, limit, down, pc,
                    at, listening, tired, failed, unanswered, mishaps>>
    BY <1>2 DEF vars, conns, connects, pool, calls, tries
  <2>2. TypeOK' /\ Blank' /\ Owned' /\ Placed'
    BY <2>1 DEF TypeOK, Blank, Owned, Placed
  <2>3. WithinLimit' /\ Heard'
    BY <2>1 DEF WithinLimit, Heard, Stirring, Listed, Connecting
  <2>4. LoadIsRequests'
    BY <2>1 DEF LoadIsRequests, Sending
  <2>5. QED
    BY <2>2, <2>3, <2>4
<1>3. QED
  BY <1>1, <1>2

\* The pool keeps its invariant (pool.rs).
THEOREM Invariance == Spec => []Inv
BY InitInv, NextInv, PTL DEF Spec

\* The pool's variables keep their types (pool.rs, State and Worker).
THEOREM TypeCorrect == Spec => []TypeOK
<1>1. Inv => TypeOK
  BY DEF Inv
<1>2. QED
  BY <1>1, Invariance, PTL

\* However calls, prewarming and connects left alone come together, there are never more
\* connections and connects than max_connections (pool.rs, worker, prewarm and open).
THEOREM LimitKept == Spec => []WithinLimit
<1>1. Inv => WithinLimit
  BY DEF Inv
<1>2. QED
  BY <1>1, Invariance, PTL

\* Every request that goes to a connection counts in its load until it is dropped, however
\* the connection ends (pool.rs, Load, Ticket, dispatch and run).
THEOREM LoadsCounted == Spec => []LoadIsRequests
<1>1. Inv => LoadIsRequests
  BY DEF Inv
<1>2. QED
  BY <1>1, Invariance, PTL

\* No call waits for a wake-up nobody will give (pool.rs, worker, Load::drop and
\* Connecting::drop).
THEOREM NobodyStranded == Spec => []NoStranded
<1>1. Inv => NoStranded
  BY DEF Inv, Heard, NoStranded
<1>2. QED
  BY <1>1, Invariance, PTL
=============================================================================
