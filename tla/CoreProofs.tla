------------------------------ MODULE CoreProofs ------------------------------
(***************************************************************************)
(* Proofs about the two services of the core that every module relies on:  *)
(* SharedState as the browsers follow it (Broadcast), for any keys,        *)
(* clients, sizes of marks, message and queue; and the main loop under its *)
(* watchdogs with the update of its firmware (Supervision), for any        *)
(* modules, timeouts and limits.                                           *)
(***************************************************************************)
EXTENDS Broadcast, Supervision, TLAPS

-----------------------------------------------------------------------------
(* What the browsers show                                                  *)

Message == [fd : Fds, data : Data]
Marked(k) == k \in changed \/ forceFull
OnOut(fd, k) == out # None /\ k \in DOMAIN out.data /\ (out.to = None \/ fd \in out.to)

\* A message under way is up to date, or its key is marked again.
Carried == out # None => \A k \in DOMAIN out.data : Marked(k) \/ out.data[k] = map[k]

\* So is a snapshot that was taken, unless a message under way will follow it.
Greeted ==
  greet # None /\ greet.data # None =>
    /\ DOMAIN greet.data = Keys
    /\ greet.fd \in Live =>
         \A k \in Keys : \/ <<greet.fd, k>> \in lost \/ Marked(k) \/ OnOut(greet.fd, k)
                         \/ greet.data[k] = map[k]

BroadcastInv == BroadcastTypeOK /\ Carried /\ Greeted /\ Mirrored

-----------------------------------------------------------------------------
(* What a client ends up showing                                           *)

LEMMA DataType ==
  ASSUME NEW d
  PROVE d \in Data <=> \E S \in SUBSET Keys : d \in [S -> Values]
  BY DEF Data

\* Neither the queue nor what fd shows is touched.
LEMMA SameEnd ==
  ASSUME NEW fd, NEW k, NEW v, queue' = queue, shown'[fd] = shown[fd]
  PROVE EndsWith(fd, k, v)' <=> EndsWith(fd, k, v)
  BY DEF EndsWith, InQueue

\* A message that is queued has the last word on its keys, and on no others.
LEMMA AppendEnd ==
  ASSUME queue \in Seq(Message), NEW m \in Message, queue' = Append(queue, m), shown' = shown,
         NEW fd, NEW k, NEW v
  PROVE /\ m.fd = fd /\ k \in DOMAIN m.data /\ m.data[k] = v => EndsWith(fd, k, v)'
        /\ m.fd # fd \/ k \notin DOMAIN m.data => (EndsWith(fd, k, v) => EndsWith(fd, k, v)')
<1> DEFINE n == Len(queue)
<1>1. n \in Nat /\ DOMAIN queue = 1..n  OBVIOUS
<1>2. DOMAIN queue' = 1..n + 1 /\ queue'[n + 1] = m /\ \A i \in 1..n : queue'[i] = queue[i]  OBVIOUS
<1> HIDE DEF n
<1>3. ASSUME m.fd = fd, k \in DOMAIN m.data, m.data[k] = v
      PROVE EndsWith(fd, k, v)'
  <2>1. n + 1 \in InQueue(fd, k)'  BY <1>1, <1>2, <1>3 DEF InQueue
  <2>2. \A j \in InQueue(fd, k)' : j <= n + 1  BY <1>1, <1>2 DEF InQueue
  <2> QED BY <1>2, <1>3, <2>1, <2>2 DEF EndsWith
<1>4. ASSUME m.fd # fd \/ k \notin DOMAIN m.data, EndsWith(fd, k, v)
      PROVE EndsWith(fd, k, v)'
  <2>1. InQueue(fd, k)' = InQueue(fd, k)  BY <1>1, <1>2, <1>4 DEF InQueue
  <2>2. \A i \in InQueue(fd, k) : queue'[i] = queue[i]  BY <1>1, <1>2 DEF InQueue
  <2> QED BY <1>4, <2>1, <2>2 DEF EndsWith
<1> QED BY <1>3, <1>4

\* Sending the head of the queue brings fd there, and what is for others does
\* not disturb it.
LEMMA TailEnd ==
  ASSUME queue \in Seq(Message), queue # <<>>, queue' = Tail(queue), NEW fd, NEW k, NEW v,
         shown'[fd] = IF Head(queue).fd = fd THEN Overlay(shown[fd], Head(queue).data) ELSE shown[fd],
         EndsWith(fd, k, v)
  PROVE EndsWith(fd, k, v)'
<1> DEFINE n == Len(queue)
           m == queue[1]
<1>1. n \in Nat /\ n > 0 /\ DOMAIN queue = 1..n /\ Head(queue) = m  OBVIOUS
<1>2. DOMAIN queue' = 1..n - 1 /\ \A i \in 1..n - 1 : queue'[i] = queue[i + 1]  OBVIOUS
<1>3. shown'[fd] = IF m.fd = fd THEN Overlay(shown[fd], m.data) ELSE shown[fd]  BY <1>1
<1> HIDE DEF n, m
<1>4. \A i \in 1..n - 1 : i \in InQueue(fd, k)' <=> i + 1 \in InQueue(fd, k)
  BY <1>1, <1>2 DEF InQueue
<1>5. InQueue(fd, k) \subseteq 1..n /\ InQueue(fd, k)' \subseteq 1..n - 1
  BY <1>1, <1>2 DEF InQueue
<1>6. 1 \in InQueue(fd, k) <=> m.fd = fd /\ k \in DOMAIN m.data  BY <1>1 DEF InQueue, m
<1>7. CASE InQueue(fd, k) = {}
  <2>1. InQueue(fd, k)' = {}  BY <1>1, <1>4, <1>5, <1>7
  <2>2. k \in DOMAIN shown[fd] /\ shown[fd][k] = v  BY <1>7 DEF EndsWith
  <2>3. m.fd = fd => k \notin DOMAIN m.data  BY <1>6, <1>7
  <2>4. k \in DOMAIN shown'[fd] /\ shown'[fd][k] = v  BY <1>3, <2>2, <2>3 DEF Overlay
  <2> QED BY <2>1, <2>4 DEF EndsWith
<1>8. ASSUME NEW i \in InQueue(fd, k), queue[i].data[k] = v, \A j \in InQueue(fd, k) : j <= i
      PROVE EndsWith(fd, k, v)'
  <2>1. CASE i = 1
    <3>1. InQueue(fd, k)' = {}  BY <1>1, <1>4, <1>5, <1>8, <2>1
    <3>2. m.fd = fd /\ k \in DOMAIN m.data /\ m.data[k] = v  BY <1>6, <1>8, <2>1 DEF m
    <3>3. k \in DOMAIN shown'[fd] /\ shown'[fd][k] = v  BY <1>3, <3>2 DEF Overlay
    <3> QED BY <3>1, <3>3 DEF EndsWith
  <2>2. CASE i # 1
    <3>1. i - 1 \in 1..n - 1 /\ (i - 1) + 1 = i  BY <1>1, <1>5, <1>8, <2>2
    <3>2. i - 1 \in InQueue(fd, k)' /\ queue'[i - 1].data[k] = v  BY <1>2, <1>4, <1>8, <3>1
    <3>3. ASSUME NEW j \in InQueue(fd, k)'  PROVE j <= i - 1
      <4>1. j \in 1..n - 1 /\ j + 1 \in InQueue(fd, k)  BY <1>4, <1>5
      <4> QED BY <1>1, <1>5, <1>8, <4>1
    <3> QED BY <3>2, <3>3 DEF EndsWith
  <2> QED BY <2>1, <2>2
<1> QED BY <1>7, <1>8 DEF EndsWith

-----------------------------------------------------------------------------
(* Each action keeps the invariant                                         *)

\* What is owed to fd about k.
Owed(fd, k) == <<fd, k>> \in lost \/ OnItsWay(fd, k) \/ EndsWith(fd, k, map[k])

LEMMA MirroredIs == Mirrored <=> \A fd \in Live, k \in Keys : Owed(fd, k)
  BY DEF Mirrored, Owed

\* A key that is set is marked, and marks stay.
LEMMA SetInv ==
  ASSUME BroadcastInv, NEW k \in Keys, NEW v \in Values, Set(k, v)
  PROVE BroadcastInv'
<1>1. UNCHANGED <<clients, server, out, lost, opens>> /\ sets < MaxSets /\ sets' = sets + 1
  BY DEF Set
<1>2. map' = [map EXCEPT ![k] = v] /\ Track(k)  BY DEF Set
<1>3. changed' \subseteq changed \cup {k} /\ forceFull' \in BOOLEAN  BY <1>2 DEF Track, BroadcastInv, BroadcastTypeOK
<1>4. BroadcastTypeOK'  BY <1>1, <1>2, <1>3, BroadcastConstants DEF BroadcastInv, BroadcastTypeOK, server
<1>5. Marked(k)' /\ \A j : Marked(j) => Marked(j)'  BY <1>2 DEF Track, Marked
<1>6. map \in [Keys -> Values] /\ \A j \in Keys : Marked(j)' \/ map'[j] = map[j]
  BY <1>2, <1>5 DEF BroadcastInv, BroadcastTypeOK
<1>7. out # None => DOMAIN out.data \subseteq Keys  BY DEF BroadcastInv, BroadcastTypeOK, Data
<1>8. Carried'
  BY <1>1, <1>5, <1>6, <1>7 DEF BroadcastInv, Carried
<1>9. Greeted'
  BY <1>1, <1>5, <1>6 DEF BroadcastInv, Greeted, OnOut, Live, server
<1>10. ASSUME NEW fd \in Live', NEW j \in Keys  PROVE Owed(fd, j)'
  <2>1. fd \in Live /\ Owed(fd, j)  BY <1>1, MirroredIs DEF BroadcastInv, Live, server
  <2>2. CASE Marked(j)'  BY <2>2 DEF Owed, OnItsWay, Marked
  <2>3. CASE ~Marked(j)'
    <3>1. map'[j] = map[j] /\ ~Marked(j)  BY <1>5, <1>6, <2>3
    <3>2. EndsWith(fd, j, map[j])' <=> EndsWith(fd, j, map[j])
      BY <1>1, <3>1 DEF EndsWith, InQueue, server
    <3> QED BY <1>1, <2>1, <3>1, <3>2 DEF Owed, OnItsWay, Marked, EndsWith, server
  <2> QED BY <2>2, <2>3
<1> QED BY <1>4, <1>8, <1>9, <1>10, MirroredIs DEF BroadcastInv, Mirrored, Owed

\* The marks become a message to all; what a full one leaves out is lost.
LEMMA TakeDeltaInv ==
  ASSUME BroadcastInv, TakeDelta
  PROVE BroadcastInv'
<1>1. UNCHANGED <<map, clients, server, sets, opens>> /\ changed' = {} /\ forceFull' = FALSE /\ out = None
  BY DEF TakeDelta
<1>2. PICK S \in Taken :
        /\ out' = [data |-> Pick(map, S), to |-> None]
        /\ lost' = lost \cup (IF forceFull THEN Fds \X (Keys \ S) ELSE {})
  BY DEF TakeDelta
<1>3. S \subseteq Keys /\ (~forceFull => S = changed)  BY <1>2 DEF Taken, BroadcastInv, BroadcastTypeOK
<1>4. Pick(map, S) \in Data /\ DOMAIN Pick(map, S) = S /\ \A j \in S : Pick(map, S)[j] = map[j]
  <2>1. Pick(map, S) \in [S -> Values]  BY <1>3 DEF Pick, BroadcastInv, BroadcastTypeOK
  <2> QED BY <1>3, <2>1, DataType DEF Pick
<1>5. out' \in [data : Data, to : {None} \cup SUBSET Fds] /\ out' # None /\ lost' \subseteq Fds \X Keys
  BY <1>2, <1>3, <1>4, NoneIsNothing DEF BroadcastInv, BroadcastTypeOK
<1>6. BroadcastTypeOK'  BY <1>1, <1>5 DEF BroadcastInv, BroadcastTypeOK, server
<1>7. Carried'  BY <1>1, <1>2, <1>4 DEF Carried
<1>8. \A fd \in Fds, j \in Keys : Marked(j) => <<fd, j>> \in lost' \/ OnOut(fd, j)'
  BY <1>2, <1>3, <1>4, <1>5 DEF Marked, OnOut
<1>9. \A fd, j : ~OnOut(fd, j)  BY <1>1 DEF OnOut
<1>10. Live' = Live /\ Live \subseteq Fds  BY <1>1 DEF Live, server, BroadcastInv, BroadcastTypeOK
<1>11. Greeted'
  BY <1>1, <1>2, <1>8, <1>9, <1>10 DEF BroadcastInv, Greeted, server
<1>12. ASSUME NEW fd \in Live', NEW j \in Keys  PROVE Owed(fd, j)'
  <2>1. fd \in Live /\ fd \in Fds /\ Owed(fd, j)  BY <1>10, MirroredIs DEF BroadcastInv
  <2>2. EndsWith(fd, j, map[j])' <=> EndsWith(fd, j, map[j])
    BY <1>1 DEF EndsWith, InQueue, server
  <2> QED BY <1>1, <1>2, <1>8, <2>1, <2>2 DEF Owed, OnItsWay, Marked, OnOut, server
<1> QED BY <1>6, <1>7, <1>11, <1>12, MirroredIs DEF BroadcastInv, Mirrored, Owed

\* Fewer clients, and nothing else.
LEMMA FewerInv ==
  ASSUME BroadcastInv, clients' \subseteq clients, sessions' \subseteq sessions,
         UNCHANGED <<state, queue, greet, shown, out, lost, sets, opens>>
  PROVE BroadcastInv'
<1>1. Live' \subseteq Live  BY DEF Live
<1>2. BroadcastTypeOK' /\ Carried'  BY DEF BroadcastInv, BroadcastTypeOK, Carried, Marked, state
<1>3. Greeted'  BY <1>1 DEF BroadcastInv, Greeted, Marked, OnOut, state
<1>4. ASSUME NEW fd \in Live', NEW k \in Keys  PROVE Owed(fd, k)'
  <2>1. EndsWith(fd, k, map[k])' <=> EndsWith(fd, k, map[k])  BY DEF EndsWith, InQueue, state
  <2> QED BY <1>1, <2>1, MirroredIs DEF BroadcastInv, Owed, OnItsWay, state
<1> QED BY <1>2, <1>3, <1>4, MirroredIs DEF BroadcastInv, Mirrored, Owed

LEMMA SelectClientsInv ==
  ASSUME BroadcastInv, SelectClients
  PROVE BroadcastInv'
<1>1. UNCHANGED <<state, server, lost, sets, opens>> /\ clients' = Live /\ out # None /\ out.to = None
  BY DEF SelectClients
<1>2. out' = IF Live = {} THEN None ELSE [out EXCEPT !.to = Live]  BY DEF SelectClients
<1>3. Live' = Live /\ Live \subseteq clients /\ Live \subseteq Fds
  BY <1>1 DEF Live, server, BroadcastInv, BroadcastTypeOK
<1>4. out \in [data : Data, to : {None} \cup SUBSET Fds]  BY <1>1 DEF BroadcastInv, BroadcastTypeOK
<1>5. out' # None => out' = [data |-> out.data, to |-> Live]  BY <1>2, <1>4
<1>6. BroadcastTypeOK'
  BY <1>1, <1>2, <1>3, <1>4, <1>5 DEF BroadcastInv, BroadcastTypeOK, state, server
<1>7. Carried'  BY <1>1, <1>5 DEF BroadcastInv, Carried, Marked, state
<1>8. \A fd \in Live : \A k : OnOut(fd, k) => OnOut(fd, k)'
  <2>1. Live # {} => [data |-> out.data, to |-> Live]
                       \in [data : Data, to : {None} \cup SUBSET Fds]  BY <1>3, <1>4
  <2>2. Live # {} => out' # None  BY <1>2, <1>4, <2>1, NoneIsNothing
  <2> QED BY <1>5, <2>2 DEF OnOut
<1>9. Greeted'  BY <1>1, <1>3, <1>8 DEF BroadcastInv, Greeted, Marked, state, server
<1>10. ASSUME NEW fd \in Live', NEW k \in Keys  PROVE Owed(fd, k)'
  <2>1. fd \in Live /\ Owed(fd, k)  BY <1>3, MirroredIs DEF BroadcastInv
  <2>2. EndsWith(fd, k, map[k])' <=> EndsWith(fd, k, map[k])
    BY <1>1 DEF EndsWith, InQueue, state, server
  <2> QED BY <1>1, <1>8, <2>1, <2>2 DEF Owed, OnItsWay, OnOut, state, server
<1> QED BY <1>6, <1>7, <1>9, <1>10, MirroredIs DEF BroadcastInv, Mirrored, Owed

\* A message for one client: passed over, the client removed, or queued.
LEMMA SendOneInv ==
  ASSUME BroadcastInv, SendOne
  PROVE BroadcastInv'
<1>1. UNCHANGED <<state, sessions, greet, shown, sets, opens>> /\ out # None /\ out.to # None
  BY DEF SendOne
<1>2. PICK fd \in out.to :
        /\ SkipOne(fd) \/ DropOne(fd) \/ QueueOne(fd)
        /\ out' = IF out.to = {fd} THEN None ELSE [out EXCEPT !.to = @ \ {fd}]
  BY DEF SendOne
<1>3. out \in [data : Data, to : SUBSET Fds] /\ fd \in Fds
  BY <1>1, <1>2 DEF BroadcastInv, BroadcastTypeOK
<1>4. [fd |-> fd, data |-> out.data] \in Message /\ DOMAIN out.data \subseteq Keys
  BY <1>3, DataType DEF Message
<1>5. out' = None \/ out' = [data |-> out.data, to |-> out.to \ {fd}]  BY <1>2, <1>3
<1>6. \A g \in Fds \ {fd} : \A k : OnOut(g, k) => OnOut(g, k)'
  <2>1. [data |-> out.data, to |-> out.to \ {fd}] \in [data : Data, to : {None} \cup SUBSET Fds]
    BY <1>3
  <2>2. ASSUME NEW g \in Fds \ {fd}, NEW k, OnOut(g, k)  PROVE OnOut(g, k)'
    <3>1. g \in out.to /\ k \in DOMAIN out.data  BY <1>1, <2>2 DEF OnOut
    <3>2. out' = [data |-> out.data, to |-> out.to \ {fd}]  BY <1>2, <1>3, <3>1
    <3>3. out' # None  BY <2>1, <3>2, NoneIsNothing
    <3> QED BY <3>1, <3>2, <3>3 DEF OnOut
  <2> QED BY <2>2
<1>7. /\ clients' \subseteq clients
      /\ queue' = queue \/ queue' = Append(queue, [fd |-> fd, data |-> out.data])
      /\ lost' \subseteq Fds \X Keys
      /\ \A g \in Fds \ {fd}, k \in Keys : <<g, k>> \in lost => <<g, k>> \in lost'
  BY <1>2, <1>3, <1>4 DEF SkipOne, DropOne, QueueOne, BroadcastInv, BroadcastTypeOK
<1>8. queue \in Seq(Message) /\ queue' \in Seq(Message)
  <2>1. queue \in Seq(Message)  BY DEF BroadcastInv, BroadcastTypeOK, Message
  <2> QED BY <1>4, <1>7, <2>1
<1>9. out' \in {None} \cup [data : Data, to : {None} \cup SUBSET Fds]  BY <1>3, <1>5
<1>10. BroadcastTypeOK'  BY <1>1, <1>7, <1>8, <1>9 DEF BroadcastInv, BroadcastTypeOK, Message, state
<1>11. Carried'  BY <1>1, <1>5 DEF BroadcastInv, Carried, Marked, state
<1>12. Live' \subseteq Live /\ Live \subseteq Fds  BY <1>1, <1>7 DEF Live, BroadcastInv, BroadcastTypeOK
<1>13. \A k : OnOut(fd, k) => k \in DOMAIN out.data  BY DEF OnOut
\* What this client is owed of the message it was on.
<1>14. ASSUME NEW k \in Keys, fd \in Live'
       PROVE \/ <<fd, k>> \in lost'
             \/ /\ k \notin DOMAIN out.data /\ <<fd, k>> \notin lost
                /\ SkipOne(fd) \/ QueueOne(fd)
             \/ /\ k \in DOMAIN out.data /\ QueueOne(fd)
                /\ ~(greet # None /\ greet.fd = fd /\ greet.data # None)
  <2>1. ~DropOne(fd)  BY <1>14 DEF DropOne, Live
  <2> QED BY <1>2, <1>4, <2>1 DEF SkipOne, QueueOne
<1>15. Greeted'
  <2>1. ASSUME greet # None, greet.data # None, greet.fd \in Live', NEW k \in Keys
        PROVE \/ <<greet.fd, k>> \in lost' \/ Marked(k)' \/ OnOut(greet.fd, k)'
              \/ greet.data[k] = map[k]
    <3>1. \/ <<greet.fd, k>> \in lost \/ Marked(k) \/ OnOut(greet.fd, k)
          \/ greet.data[k] = map[k]
      BY <1>12, <2>1 DEF BroadcastInv, Greeted
    <3>2. Marked(k)' <=> Marked(k)  BY <1>1 DEF Marked, state
    <3>3. CASE greet.fd # fd
      <4>1. greet.fd \in Fds \ {fd}  BY <1>12, <2>1, <3>3
      <4>2. OnOut(greet.fd, k) => OnOut(greet.fd, k)'  BY <1>1, <1>6, <4>1 DEF OnOut
      <4>3. <<greet.fd, k>> \in lost => <<greet.fd, k>> \in lost'  BY <1>7, <2>1, <4>1
      <4> QED BY <3>1, <3>2, <4>2, <4>3
    <3>4. CASE greet.fd = fd  BY <1>13, <1>14, <2>1, <3>1, <3>2, <3>4
    <3> QED BY <3>3, <3>4
  <2> QED BY <1>1, <2>1 DEF BroadcastInv, Greeted, state
<1>16. ASSUME NEW g \in Live', NEW k \in Keys  PROVE Owed(g, k)'
  <2>1. g \in Live /\ g \in Fds /\ Owed(g, k)  BY <1>12, MirroredIs DEF BroadcastInv
  <2>2. map' = map /\ shown' = shown /\ greet' = greet /\ changed' = changed /\ forceFull' = forceFull
    BY <1>1 DEF state
  <2>3. g # fd \/ k \notin DOMAIN out.data =>
          (EndsWith(g, k, map[k]) => EndsWith(g, k, map[k])')
    <3>1. queue' = queue => (EndsWith(g, k, map[k]) <=> EndsWith(g, k, map[k])')
      BY <2>2 DEF EndsWith, InQueue
    <3>2. CASE queue' = Append(queue, [fd |-> fd, data |-> out.data])
      <4>1. \A v : g # fd \/ k \notin DOMAIN out.data => (EndsWith(g, k, v) => EndsWith(g, k, v)')
        BY <1>4, <1>8, <2>2, <3>2, AppendEnd
      <4>2. EndsWith(g, k, map[k])' <=> \E v : v = map[k] /\ EndsWith(g, k, v)'
        BY <2>2 DEF EndsWith, InQueue
      <4> QED BY <4>1, <4>2
    <3> QED BY <1>7, <3>1, <3>2
  <2>4. CASE g # fd
    BY <1>6, <1>7, <2>1, <2>2, <2>3, <2>4 DEF Owed, OnItsWay, OnOut
  <2>5. CASE g = fd /\ k \notin DOMAIN out.data
    BY <1>13, <1>14, <2>1, <2>2, <2>3, <2>5 DEF Owed, OnItsWay, OnOut
  <2>6. CASE g = fd /\ k \in DOMAIN out.data /\ QueueOne(fd)
    <3>1. Marked(k) \/ out.data[k] = map[k]  BY <1>1, <2>6 DEF BroadcastInv, Carried
    <3>2. out.data[k] = map[k] => EndsWith(fd, k, map[k])'
      <4>1. queue' = Append(queue, [fd |-> fd, data |-> out.data])  BY <2>6 DEF QueueOne
      <4>2. \A v : out.data[k] = v => EndsWith(fd, k, v)'
        BY <1>4, <1>8, <2>2, <2>6, <4>1, AppendEnd
      <4>3. EndsWith(fd, k, map[k])' <=> \E v : v = map[k] /\ EndsWith(fd, k, v)'
        BY <2>2 DEF EndsWith, InQueue
      <4> QED BY <4>2, <4>3
    <3> QED BY <2>2, <2>6, <3>1, <3>2 DEF Owed, OnItsWay, Marked
  <2> QED BY <1>14, <2>4, <2>5, <2>6 DEF Owed
<1> QED BY <1>10, <1>11, <1>15, <1>16, MirroredIs DEF BroadcastInv, Mirrored, Owed

\* A new session owes its client everything, in whatever slot of the list.
LEMMA HandshakeInv ==
  ASSUME BroadcastInv, NEW fd \in Fds, Handshake(fd)
  PROVE BroadcastInv'
<1>1. /\ UNCHANGED <<state, queue, out, sets>> /\ greet = None
      /\ opens < MaxOpens /\ opens' = opens + 1 /\ sessions' = sessions \cup {fd}
      /\ greet' = [fd |-> fd, data |-> None]
      /\ shown' = [shown EXCEPT ![fd] = Empty] /\ lost' = lost \cup ({fd} \X Keys)
  BY DEF Handshake
<1>2. clients' \in {clients, Live \cup {fd}, Live}  BY DEF Handshake
<1>3. Live' \subseteq Live \cup {fd} /\ clients' \subseteq Fds
  BY <1>1, <1>2 DEF Live, BroadcastInv, BroadcastTypeOK
<1>4. Empty \in Data  BY DEF Empty, Data
<1>5. shown' \in [Fds -> Data] /\ \A g \in Fds \ {fd} : shown'[g] = shown[g]
  BY <1>1, <1>4 DEF BroadcastInv, BroadcastTypeOK
<1>6. greet' \in [fd : Fds, data : {None} \cup Data] /\ greet'.data = None  BY <1>1
<1>7. BroadcastTypeOK'
  <2>1. opens' \in 0..MaxOpens  BY <1>1, BroadcastConstants DEF BroadcastInv, BroadcastTypeOK
  <2> QED BY <1>1, <1>3, <1>5, <1>6, <2>1 DEF BroadcastInv, BroadcastTypeOK, state
<1>8. Carried'  BY <1>1 DEF BroadcastInv, Carried, Marked, state
<1>9. Greeted'  BY <1>6 DEF Greeted
<1>10. ASSUME NEW g \in Live', NEW k \in Keys  PROVE Owed(g, k)'
  <2>1. CASE g = fd  BY <1>1, <2>1 DEF Owed
  <2>2. CASE g # fd
    <3>1. g \in Live /\ g \in Fds \ {fd} /\ Owed(g, k)
      BY <1>3, <2>2, MirroredIs DEF BroadcastInv, Live, BroadcastTypeOK
    <3>2. EndsWith(g, k, map[k])' <=> EndsWith(g, k, map[k])
      BY <1>1, <1>5, <3>1 DEF EndsWith, InQueue, state
    <3> QED BY <1>1, <3>1, <3>2 DEF Owed, OnItsWay, state
  <2> QED BY <2>1, <2>2
<1> QED BY <1>7, <1>8, <1>9, <1>10, MirroredIs DEF BroadcastInv, Mirrored, Owed

LEMMA TakeSnapshotInv ==
  ASSUME BroadcastInv, TakeSnapshot
  PROVE BroadcastInv'
<1>1. /\ UNCHANGED <<state, clients, sessions, queue, shown, out, sets, opens>>
      /\ greet # None /\ greet.data = None /\ greet' = [greet EXCEPT !.data = map]
      /\ lost' = lost \ ({greet.fd} \X Keys)
  BY DEF TakeSnapshot
<1>2. greet \in [fd : Fds, data : {None} \cup Data]  BY <1>1 DEF BroadcastInv, BroadcastTypeOK
<1>3. map \in Data /\ DOMAIN map = Keys  BY DEF BroadcastInv, BroadcastTypeOK, Data
<1>4. greet' = [fd |-> greet.fd, data |-> map]
      /\ greet' \in [fd : Fds, data : {None} \cup Data] /\ greet' # None
  BY <1>1, <1>2, <1>3, NoneIsNothing
<1>5. BroadcastTypeOK' /\ Carried' /\ Greeted'
  BY <1>1, <1>3, <1>4 DEF BroadcastInv, BroadcastTypeOK, Carried, Greeted, Marked, state
<1>6. ASSUME NEW g \in Live', NEW k \in Keys  PROVE Owed(g, k)'
  <2>1. g \in Live /\ Owed(g, k)  BY <1>1, MirroredIs DEF BroadcastInv, Live
  <2>2. EndsWith(g, k, map[k])' <=> EndsWith(g, k, map[k])  BY <1>1 DEF EndsWith, InQueue, state
  <2>3. g # greet.fd => (<<g, k>> \in lost => <<g, k>> \in lost')  BY <1>1
  <2> QED BY <1>1, <1>4, <2>1, <2>2, <2>3 DEF Owed, OnItsWay, state
<1> QED BY <1>5, <1>6, MirroredIs DEF BroadcastInv, Mirrored, Owed

LEMMA NoSnapshotInv ==
  ASSUME BroadcastInv, NoSnapshot
  PROVE BroadcastInv'
<1>1. /\ UNCHANGED <<state, clients, sessions, queue, shown, out, sets, opens>>
      /\ greet # None /\ greet' = None /\ lost' = lost \cup ({greet.fd} \X Keys)
  BY DEF NoSnapshot
<1>2. greet.fd \in Fds  BY <1>1 DEF BroadcastInv, BroadcastTypeOK
<1>3. BroadcastTypeOK' /\ Carried' /\ Greeted'
  BY <1>1, <1>2 DEF BroadcastInv, BroadcastTypeOK, Carried, Greeted, Marked, state
<1>4. ASSUME NEW g \in Live', NEW k \in Keys  PROVE Owed(g, k)'
  <2>1. g \in Live /\ Owed(g, k)  BY <1>1, MirroredIs DEF BroadcastInv, Live
  <2>2. EndsWith(g, k, map[k])' <=> EndsWith(g, k, map[k])  BY <1>1 DEF EndsWith, InQueue, state
  <2> QED BY <1>1, <2>1, <2>2 DEF Owed, OnItsWay, state
<1> QED BY <1>3, <1>4, MirroredIs DEF BroadcastInv, Mirrored, Owed

\* The snapshot is queued behind all that is there, and is up to date.
LEMMA QueueSnapshotInv ==
  ASSUME BroadcastInv, QueueSnapshot
  PROVE BroadcastInv'
<1> DEFINE m == [fd |-> greet.fd, data |-> greet.data]
<1>1. /\ UNCHANGED <<state, clients, sessions, shown, out, lost, sets, opens>>
      /\ greet # None /\ greet.data # None /\ queue' = Append(queue, m) /\ greet' = None
  BY DEF QueueSnapshot
<1>2. m \in Message /\ DOMAIN m.data = Keys
  BY <1>1 DEF BroadcastInv, BroadcastTypeOK, Greeted, Message
<1>3. queue \in Seq(Message)  BY DEF BroadcastInv, BroadcastTypeOK, Message
<1>4. queue' \in Seq(Message)  BY <1>1, <1>2, <1>3
<1>5. m.fd = greet.fd /\ m.data = greet.data  OBVIOUS
<1> HIDE DEF m
<1>6. BroadcastTypeOK' /\ Carried' /\ Greeted'
  BY <1>1, <1>4 DEF BroadcastInv, BroadcastTypeOK, Carried, Greeted, Marked, Message, state
<1>7. ASSUME NEW g \in Live', NEW k \in Keys  PROVE Owed(g, k)'
  <2>1. g \in Live /\ Owed(g, k)  BY <1>1, MirroredIs DEF BroadcastInv, Live
  <2>2. map' = map  BY <1>1 DEF state
  <2>3. EndsWith(g, k, map[k])' <=> \E v : v = map[k] /\ EndsWith(g, k, v)'
    BY <2>2 DEF EndsWith, InQueue
  <2>4. CASE g # greet.fd
    <3>1. \A v : EndsWith(g, k, v) => EndsWith(g, k, v)'
      BY <1>1, <1>2, <1>3, <1>5, <2>4, AppendEnd
    <3> QED BY <1>1, <2>1, <2>3, <2>4, <3>1 DEF Owed, OnItsWay, state
  <2>5. CASE g = greet.fd
    <3>1. <<g, k>> \in lost \/ Marked(k) \/ OnOut(g, k) \/ m.data[k] = map[k]
      BY <1>1, <1>5, <2>1, <2>5 DEF BroadcastInv, Greeted
    <3>2. \A v : m.data[k] = v => EndsWith(g, k, v)'
      BY <1>1, <1>2, <1>3, <1>5, <2>5, AppendEnd
    <3> QED BY <1>1, <2>3, <3>1, <3>2 DEF Owed, OnItsWay, Marked, OnOut, state
  <2> QED BY <2>4, <2>5
<1> QED BY <1>6, <1>7, MirroredIs DEF BroadcastInv, Mirrored, Owed

\* One message is sent, dropped, or its client with it.
LEMMA WorkInv ==
  ASSUME BroadcastInv, Work
  PROVE BroadcastInv'
<1> DEFINE m == Head(queue)
<1>1. /\ UNCHANGED <<state, greet, out, lost, sets, opens>>
      /\ greet = None /\ queue # <<>> /\ queue' = Tail(queue)
  BY DEF Work
<1>2. queue \in Seq(Message)  BY DEF BroadcastInv, BroadcastTypeOK, Message
<1>3. m \in Message /\ queue' \in Seq(Message)  BY <1>1, <1>2
<1>4. /\ clients' \subseteq clients /\ sessions' \subseteq sessions
      /\ \/ shown' = shown /\ m.fd \notin Live'
         \/ shown' = [shown EXCEPT ![m.fd] = Overlay(@, m.data)]
  BY DEF Work, Live
<1> HIDE DEF m
<1>5. ASSUME NEW f \in Data, NEW g \in Data  PROVE Overlay(f, g) \in Data
  <2>1. PICK S \in SUBSET Keys, T \in SUBSET Keys : f \in [S -> Values] /\ g \in [T -> Values]
    BY <1>5, DataType
  <2>2. Overlay(f, g) \in [S \cup T -> Values]  BY <2>1 DEF Overlay
  <2>3. S \cup T \in SUBSET Keys  BY <2>1
  <2> QED BY <2>2, <2>3, DataType
<1>6. shown \in [Fds -> Data] /\ m.fd \in Fds /\ m.data \in Data
  BY <1>3 DEF BroadcastInv, BroadcastTypeOK, Message
<1>7. shown' \in [Fds -> Data]  BY <1>4, <1>5, <1>6
<1>8. Live' \subseteq Live /\ Live \subseteq Fds  BY <1>4 DEF Live, BroadcastInv, BroadcastTypeOK
<1>9. BroadcastTypeOK' /\ Carried' /\ Greeted'
  BY <1>1, <1>3, <1>4, <1>7 DEF BroadcastInv, BroadcastTypeOK, Carried, Greeted, Marked, Message, state
<1>10. ASSUME NEW g \in Live', NEW k \in Keys  PROVE Owed(g, k)'
  <2>1. g \in Live /\ g \in Fds /\ Owed(g, k)  BY <1>8, MirroredIs DEF BroadcastInv
  <2>2. shown'[g] = IF m.fd = g THEN Overlay(shown[g], m.data) ELSE shown[g]
    BY <1>4, <1>6, <1>10, <2>1
  <2>3. \A v : EndsWith(g, k, v) => EndsWith(g, k, v)'
    BY <1>1, <1>2, <2>2, TailEnd DEF m
  <2>4. EndsWith(g, k, map[k])' <=> \E v : v = map[k] /\ EndsWith(g, k, v)'
    BY <1>1 DEF EndsWith, InQueue, state
  <2> QED BY <1>1, <2>1, <2>3, <2>4 DEF Owed, OnItsWay, state
<1> QED BY <1>9, <1>10, MirroredIs DEF BroadcastInv, Mirrored, Owed

-----------------------------------------------------------------------------
LEMMA BroadcastInitInv == BroadcastInit => BroadcastInv
<1> SUFFICES ASSUME BroadcastInit PROVE BroadcastInv  OBVIOUS
<1>1. Live = {} /\ Empty \in Data  BY DEF BroadcastInit, Live, Empty, Data
<1>2. sets \in 0..MaxSets /\ opens \in 0..MaxOpens  BY BroadcastConstants DEF BroadcastInit
<1>3. map \in [Keys -> Values] /\ shown \in [Fds -> Data]  BY <1>1, BroadcastConstants DEF BroadcastInit
<1>4. queue \in Seq([fd : Fds, data : Data])  BY DEF BroadcastInit
<1>5. BroadcastTypeOK  BY <1>2, <1>3, <1>4 DEF BroadcastInit, BroadcastTypeOK
<1> QED BY <1>1, <1>5 DEF BroadcastInit, BroadcastInv, Carried, Greeted, Mirrored

LEMMA BroadcastNextInv == BroadcastInv /\ [BroadcastNext]_broadcastVars => BroadcastInv'
<1> SUFFICES ASSUME BroadcastInv, [BroadcastNext]_broadcastVars PROVE BroadcastInv'  OBVIOUS
<1>1. CASE UNCHANGED broadcastVars  BY <1>1, FewerInv DEF broadcastVars, state, server
<1>2. ASSUME NEW k \in Keys, NEW v \in Values, Set(k, v)  PROVE BroadcastInv'  BY <1>2, SetInv
<1>3. CASE TakeDelta  BY <1>3, TakeDeltaInv
<1>4. CASE Heartbeat  BY <1>4, FewerInv DEF Heartbeat, Live, server
<1>5. CASE Broadcasting  BY <1>5, SelectClientsInv, SendOneInv DEF Broadcasting
<1>6. ASSUME NEW fd \in Fds, Handshake(fd) \/ Leave(fd) \/ Close(fd)  PROVE BroadcastInv'
  <2>1. CASE Leave(fd)  BY <2>1, FewerInv DEF Leave, server
  <2>2. CASE Close(fd)  BY <2>2, FewerInv DEF Close, Live
  <2> QED BY <1>6, <2>1, <2>2, HandshakeInv
<1>7. CASE Greet  BY <1>7, TakeSnapshotInv, NoSnapshotInv, QueueSnapshotInv DEF Greet
<1>8. CASE Work  BY <1>8, WorkInv
<1> QED BY <1>1, <1>2, <1>3, <1>4, <1>5, <1>6, <1>7, <1>8 DEF BroadcastNext

-----------------------------------------------------------------------------
(* Theorems                                                                *)

\* Every variable has its type, for any keys, clients and sizes.
THEOREM BroadcastTypes == BroadcastSpec => []BroadcastTypeOK
<1>1. BroadcastInv => BroadcastTypeOK  BY DEF BroadcastInv
<1> QED BY <1>1, BroadcastInitInv, BroadcastNextInv, PTL DEF BroadcastSpec

\* For any number of keys and clients and any sizes of marks, message and
\* queue: what a listed client is shown in the end is what SharedState holds,
\* or a message with that key is still to be queued, or the value is one the
\* code gives up knowingly.
THEOREM MirroredTheorem == BroadcastSpec => []Mirrored
<1>1. BroadcastInv => Mirrored  BY DEF BroadcastInv
<1> QED BY <1>1, BroadcastInitInv, BroadcastNextInv, PTL DEF BroadcastSpec

-----------------------------------------------------------------------------
(* The main loop and the firmware                                          *)

-----------------------------------------------------------------------------
(* The inductive invariant                                                 *)

\* How old a heartbeat gets: a module updated in this pass is younger than the
\* hardware watchdog's last reset; one that is not was updated in the pass
\* before, which that watchdog kept short as well.
HeartbeatsFresh ==
  Watched =>
    /\ fed < Wdt
    /\ at > 0 => since <= fed
    /\ \A m \in Modules : status[m] = "RUNNING" => age[m] <= fed + Wdt - 1
    /\ \A i \in 1..Len(Order) : i < at /\ status[Order[i]] = "RUNNING" => age[Order[i]] <= fed

\* What runs is intact, and validated or in its trial; the other partition is
\* selected only with new firmware, and is there to fall back on during a trial.
Other == 1 - running
Proven(s) == image[s][1] \in confirmed \cup {0}
SlotsSound ==
  /\ Intact(running)
  /\ mark[running] \in {"valid", "pending"}
  /\ mark[running] = "valid" => Proven(running)
  /\ mark[running] = "pending" =>
       /\ selected = running
       /\ mark[Other] = "valid" /\ Intact(Other) /\ Proven(Other)
       /\ \A w \in Writers : writer[w].at = "idle"
  /\ selected # running => mark[selected] = "new"

SupervisionInv == TypeOK /\ HeartbeatsFresh /\ SlotsSound

-----------------------------------------------------------------------------
LEMMA Facts ==
  /\ Wdt \in Nat /\ Wdt >= 1 /\ Horizon \in Nat /\ Horizon >= 2 * Wdt
  /\ MaxRestarts \in Nat /\ Len(Order) \in Nat
  /\ \A i \in 1..Len(Order) : Order[i] \in Modules
  /\ Timeout \in [0..3 -> Nat] /\ Priority \in [Modules -> 0..3]
<1>1. /\ Wdt \in Nat \ {0} /\ Horizon \in Nat /\ MaxRestarts \in Nat
      /\ Timeout \in [0..3 -> Nat] /\ Priority \in [Modules -> 0..3]
  BY SupervisionConstants
<1>2. Horizon >= 2 * Wdt
  BY TimeoutsApart
<1>3. Len(Order) \in Nat /\ \A i \in 1..Len(Order) : Order[i] \in Modules
  BY OrderEnumerates
<1> QED
  BY <1>1, <1>2, <1>3

LEMMA OlderType ==
  ASSUME NEW n \in Nat
  PROVE  Older(n) \in Nat /\ Older(n) <= n + 1
  BY Facts DEF Older

LEMMA SupervisionInitInv == Init => SupervisionInv
<1> SUFFICES ASSUME Init PROVE SupervisionInv
  OBVIOUS
<1> USE Facts
<1>1. TypeOK
  <2>1. /\ at \in 0..Halted /\ since \in Nat /\ fed \in Nat
        /\ age \in [Modules -> Nat] /\ restarts \in [Modules -> Nat]
        /\ running \in Slots /\ selected \in Slots /\ uploads \in Nat
    BY DEF Init, Slots, End, Halted
  <2>2. status \in [Modules -> {"RUNNING", "STOPPED", "ERROR"}]
    BY DEF Init
  <2>3. /\ image \in [Slots -> [{1, 2} -> Nat]]
        /\ mark \in [Slots -> {"valid", "new", "pending", "aborted"}]
        /\ pending = (mark[running] = "pending")
    BY DEF Init, Slots, Factory
  <2>4. writer \in [Writers -> [at : {"idle", "uploads", "restarts"}, fw : Nat, halves : 0..2]]
    BY DEF Init, Idle
  <2> QED
    BY <2>1, <2>2, <2>3, <2>4 DEF TypeOK
<1>2. HeartbeatsFresh
  BY DEF Init, HeartbeatsFresh
<1>3. SlotsSound
  BY DEF Init, SlotsSound, Slots, Factory, Intact, Other, Proven, Idle
<1> QED
  BY <1>1, <1>2, <1>3 DEF SupervisionInv

-----------------------------------------------------------------------------
(* A boot                                                                  *)

LEMMA SlotFacts ==
  ASSUME TypeOK
  PROVE  /\ running \in Slots /\ selected \in Slots /\ Other \in Slots /\ Other # running
         /\ \A x \in Slots : x = running \/ x = Other
         /\ \A x \in Slots : 1 - x \in Slots /\ 1 - (1 - x) = x
         /\ Aborted \in [Slots -> {"valid", "new", "aborted"}]
         /\ \A x \in Slots : mark[x] # "pending" => Aborted[x] = mark[x]
         /\ \A x \in Slots : mark[x] = "pending" => Aborted[x] = "aborted"
<1>1. running \in {0, 1} /\ selected \in {0, 1}
  BY DEF TypeOK, Slots
<1>2. Aborted \in [Slots -> {"valid", "new", "aborted"}]
  BY DEF TypeOK, Aborted
<1> QED
  BY <1>1, <1>2 DEF Slots, Other, Aborted

\* What the boot loader chooses is validated, or new with a proven fallback.
LEMMA ChoiceSound ==
  ASSUME TypeOK, SlotsSound, NEW s, s = Choice(Aborted)
  PROVE  /\ s \in Slots /\ Usable(s, Aborted)
         /\ \/ Aborted[s] = "valid" /\ Proven(s)
            \/ /\ Aborted[s] = "new" /\ s = Other
               /\ mark[running] = "valid" /\ Intact(running) /\ Proven(running)
<1> USE SlotFacts
<1>1. CASE mark[running] = "pending"
  <2>1. selected = running /\ Aborted[running] = "aborted" /\ Aborted[Other] = "valid"
    BY <1>1 DEF SlotsSound
  <2>2. s = Other
    BY <2>1 DEF Choice, Usable, Other
  <2> QED
    BY <1>1, <2>1, <2>2 DEF SlotsSound, Usable
<1>2. CASE mark[running] = "valid"
  <2>1. Aborted[running] = "valid" /\ Usable(running, Aborted) /\ Proven(running)
    BY <1>2 DEF SlotsSound, Usable
  <2>2. CASE s = running
    BY <2>1, <2>2
  <2>3. CASE s # running
    <3>1. s = selected /\ selected = Other /\ Usable(s, Aborted)
      BY <2>1, <2>3 DEF Choice, Other
    <3>2. mark[selected] = "new"
      BY <2>3, <3>1 DEF SlotsSound
    <3> QED
      BY <1>2, <3>1, <3>2, <2>1 DEF SlotsSound
  <2> QED
    BY <2>2, <2>3
<1> QED
  BY <1>1, <1>2 DEF SlotsSound

LEMMA BootSound == SupervisionInv /\ Reboot => SupervisionInv'
<1> SUFFICES ASSUME SupervisionInv, Reboot PROVE SupervisionInv'
  OBVIOUS
<1> DEFINE s == Choice(Aborted)
<1>0. TypeOK /\ SlotsSound
  BY DEF SupervisionInv
<1>1. /\ s \in Slots /\ Usable(s, Aborted)
      /\ \/ Aborted[s] = "valid" /\ Proven(s)
         \/ /\ Aborted[s] = "new" /\ s = Other
            /\ mark[running] = "valid" /\ Intact(running) /\ Proven(running)
  BY <1>0, ChoiceSound
<1>2. /\ running' = s /\ selected' = s /\ image' = image /\ confirmed' = confirmed
      /\ uploads' = uploads
      /\ mark' = [Aborted EXCEPT ![s] = IF @ = "new" THEN "pending" ELSE @]
      /\ pending' = (mark'[s] = "pending")
      /\ writer' = [w \in Writers |-> Idle]
      /\ age' = [m \in Modules |-> 0] /\ since' = 0 /\ fed' = 0 /\ at' \in {0, Halted}
      /\ restarts' = [m \in Modules |-> 0]
      /\ \E failed \in SUBSET CanFail :
           status' = [m \in Modules |-> IF m \in failed THEN "ERROR" ELSE "RUNNING"]
  BY DEF Reboot, Booted
<1> HIDE DEF s
<1>3. TypeOK'
  <2>1. /\ at' \in 0..Halted /\ since' \in Nat /\ fed' \in Nat
        /\ age' \in [Modules -> Nat] /\ restarts' \in [Modules -> Nat]
        /\ running' \in Slots /\ selected' \in Slots /\ uploads' \in Nat
        /\ image' \in [Slots -> [{1, 2} -> Nat]]
    BY <1>0, <1>1, <1>2, Facts DEF TypeOK, End, Halted
  <2>2. status' \in [Modules -> {"RUNNING", "STOPPED", "ERROR"}]
    BY <1>2
  <2>3. mark' \in [Slots -> {"valid", "new", "pending", "aborted"}]
    BY <1>0, <1>1, <1>2, SlotFacts
  <2>4. writer' \in [Writers -> [at : {"idle", "uploads", "restarts"}, fw : Nat, halves : 0..2]]
    BY <1>2 DEF Idle
  <2> QED
    BY <1>2, <2>1, <2>2, <2>3, <2>4 DEF TypeOK, End, Halted
<1>4. HeartbeatsFresh'
  BY <1>2, Facts DEF HeartbeatsFresh
<1>5. SlotsSound'
  <2>1. image[s][1] = image[s][2]
    BY <1>1 DEF Usable, Intact
  <2>2. \A w \in Writers : writer'[w].at = "idle"
    BY <1>2 DEF Idle
  <2>3. CASE Aborted[s] = "valid" /\ Proven(s)
    <3>1. mark'[s] = "valid"
      BY <1>0, <1>1, <1>2, <2>3, SlotFacts
    <3>2. image[s][1] \in confirmed \cup {0}
      BY <2>3 DEF Proven
    <3> QED
      BY <1>2, <2>1, <3>1, <3>2 DEF SlotsSound, Intact, Proven
  <2>4. CASE /\ Aborted[s] = "new" /\ s = Other
             /\ mark[running] = "valid" /\ Intact(running) /\ Proven(running)
    <3>1. running \in Slots /\ running # s /\ 1 - s = running
      BY <1>0, <2>4, SlotFacts DEF Other
    <3>2. mark'[s] = "pending"
      BY <1>0, <1>1, <1>2, <2>4, SlotFacts
    <3>3. mark'[running] = "valid"
      BY <1>0, <1>1, <1>2, <2>4, <3>1, SlotFacts
    <3>4. /\ image[running][1] = image[running][2]
          /\ image[running][1] \in confirmed \cup {0}
      BY <2>4 DEF Intact, Proven
    <3> QED
      BY <1>2, <2>1, <2>2, <3>1, <3>2, <3>3, <3>4 DEF SlotsSound, Intact, Proven, Other
  <2> QED
    BY <1>1, <2>3, <2>4
<1> QED
  BY <1>3, <1>4, <1>5 DEF SupervisionInv

-----------------------------------------------------------------------------
(* Time and the main loop                                                  *)

LEMMA SlotsSame ==
  ASSUME SlotsSound, UNCHANGED <<running, selected, image, mark, confirmed, writer>>
  PROVE  SlotsSound'
BY DEF SlotsSound, Intact, Other, Proven

LEMMA TickInv == SupervisionInv /\ Tick => SupervisionInv'
<1> SUFFICES ASSUME SupervisionInv, Tick PROVE SupervisionInv'
  OBVIOUS
<1> USE Facts
<1>0. TypeOK /\ HeartbeatsFresh /\ SlotsSound
  BY DEF SupervisionInv
<1>1. /\ since' \in Nat /\ fed' \in Nat /\ since' <= since + 1
      /\ \A m \in Modules : age'[m] \in Nat /\ age'[m] <= age[m] + 1
      /\ age' \in [Modules -> Nat]
  BY <1>0, OlderType DEF Tick, TypeOK
<1>2. TypeOK'
  BY <1>0, <1>1 DEF Tick, TypeOK, modules, flash, session, End, Halted
<1>3. HeartbeatsFresh'
  <2> SUFFICES ASSUME Watched PROVE HeartbeatsFresh'
    BY DEF HeartbeatsFresh, Watched, Tick
  <2>1. fed + 1 < Wdt /\ fed' = fed + 1
    BY <1>0, SupervisionConstants DEF Tick, TypeOK, Older
  <2>2. at' = at /\ status' = status
    BY DEF Tick
  <2>3. age \in [Modules -> Nat] /\ fed \in Nat /\ since \in Nat
    BY <1>0 DEF TypeOK
  <2>4. at' > 0 => since' <= fed'
    BY <1>0, <1>1, <2>1, <2>2, <2>3 DEF HeartbeatsFresh
  <2>5. \A m \in Modules : status'[m] = "RUNNING" => age'[m] <= fed' + Wdt - 1
    BY <1>0, <1>1, <2>1, <2>2, <2>3 DEF HeartbeatsFresh
  <2>6. \A i \in 1..Len(Order) : i < at' /\ status'[Order[i]] = "RUNNING" => age'[Order[i]] <= fed'
    BY <1>0, <1>1, <2>1, <2>2, <2>3 DEF HeartbeatsFresh
  <2> QED
    BY <2>1, <2>4, <2>5, <2>6 DEF HeartbeatsFresh
<1>4. SlotsSound'
  BY <1>0, SlotsSame DEF Tick, flash, session
<1> QED
  BY <1>2, <1>3, <1>4 DEF SupervisionInv

LEMMA MinuteInv == SupervisionInv /\ Minute => SupervisionInv'
<1> SUFFICES ASSUME SupervisionInv, Minute PROVE SupervisionInv'
  OBVIOUS
<1>1. UNCHANGED <<loop, modules, flash, running, pending, writer>>
  BY DEF Minute
<1>2. TypeOK'
  BY <1>1 DEF SupervisionInv, TypeOK, loop, modules, flash, End, Halted
<1>3. HeartbeatsFresh'
  BY <1>1 DEF SupervisionInv, HeartbeatsFresh, Watched, Halted, End, loop, modules
<1>4. SlotsSound'
  BY <1>1, SlotsSame DEF SupervisionInv, flash
<1> QED
  BY <1>2, <1>3, <1>4 DEF SupervisionInv

LEMMA DriversInv == SupervisionInv /\ Drivers => SupervisionInv'
<1> SUFFICES ASSUME SupervisionInv, Drivers PROVE SupervisionInv'
  OBVIOUS
<1> USE Facts
<1>1. TypeOK'
  BY DEF SupervisionInv, Drivers, TypeOK, modules, flash, session, End, Halted
<1>2. HeartbeatsFresh'
  BY DEF SupervisionInv, Drivers, HeartbeatsFresh, Watched, Halted, End, TypeOK, modules
<1>3. SlotsSound'
  BY SlotsSame DEF SupervisionInv, Drivers, flash, session
<1> QED
  BY <1>1, <1>2, <1>3 DEF SupervisionInv

\* An update leaves a module running or not, and gives heartbeats of this pass.
LEMMA UpdateFacts ==
  ASSUME SupervisionInv, UpdateModule
  PROVE  /\ status' \in [Modules -> {"RUNNING", "STOPPED", "ERROR"}]
         /\ age' \in [Modules -> Nat] /\ restarts' \in [Modules -> Nat]
         /\ \A m \in Modules :
              /\ status'[m] = "RUNNING" => status[m] = "RUNNING"
              /\ age'[m] \in {0, since, age[m]}
         /\ status'[Order[at]] = "RUNNING" => age'[Order[at]] = since
<1> USE Facts
<1>0. TypeOK /\ at \in 1..Len(Order) /\ Order[at] \in Modules
  BY DEF SupervisionInv, UpdateModule
<1>1. CASE status[Order[at]] = "RUNNING" /\ Order[at] = Watchdog /\ Check
  <2>1. PICK failed :
          /\ restarts' = [m \in Modules |-> IF m \in Due /\ restarts[m] <= MaxRestarts
                                              THEN restarts[m] + 1 ELSE restarts[m]]
          /\ status' = [m \in Modules |-> IF m \in failed THEN "ERROR" ELSE status[m]]
          /\ age' = [m \in Modules |-> IF m \in Again THEN 0
                                       ELSE IF m = Watchdog THEN since ELSE age[m]]
    BY <1>1 DEF Check
  <2>2. Watchdog \in Modules /\ Watchdog \notin Again
    BY SupervisionConstants DEF Again, Due
  <2>3. since \in Nat /\ \A m \in Modules : restarts[m] \in Nat /\ age[m] \in Nat
    BY <1>0 DEF TypeOK
  <2>4. status' \in [Modules -> {"RUNNING", "STOPPED", "ERROR"}]
    BY <1>0, <2>1 DEF TypeOK
  <2>5. restarts' \in [Modules -> Nat] /\ age' \in [Modules -> Nat]
    BY <2>1, <2>3
  <2>6. \A m \in Modules : age'[m] \in {0, since, age[m]}
    BY <2>1
  <2>7. age'[Watchdog] = since
    BY <2>1, <2>2
  <2>8. \A m \in Modules : status'[m] = "RUNNING" => status[m] = "RUNNING"
    BY <2>1
  <2> QED
    BY <1>1, <2>4, <2>5, <2>6, <2>7, <2>8
<1>2. CASE Updates(Order[at])
  BY <1>0, <1>2 DEF Updates, TypeOK
<1>3. CASE status[Order[at]] # "RUNNING" /\ UNCHANGED modules
  BY <1>0, <1>3 DEF modules, TypeOK
<1> QED
  BY <1>1, <1>2, <1>3 DEF UpdateModule

LEMMA UpdateInv == SupervisionInv /\ UpdateModule => SupervisionInv'
<1> SUFFICES ASSUME SupervisionInv, UpdateModule PROVE SupervisionInv'
  OBVIOUS
<1> USE Facts
<1>0. TypeOK /\ HeartbeatsFresh /\ SlotsSound
  BY DEF SupervisionInv
<1>1. at \in 1..Len(Order) /\ at' = at + 1 /\ UNCHANGED <<since, fed, flash, session>>
  BY DEF UpdateModule
<1>a. /\ status' \in [Modules -> {"RUNNING", "STOPPED", "ERROR"}]
      /\ age' \in [Modules -> Nat] /\ restarts' \in [Modules -> Nat]
      /\ \A m \in Modules :
           /\ status'[m] = "RUNNING" => status[m] = "RUNNING"
           /\ age'[m] \in {0, since, age[m]}
      /\ status'[Order[at]] = "RUNNING" => age'[Order[at]] = since
  BY UpdateFacts
<1>2. TypeOK'
  <2>1. at' \in 0..Halted /\ since' \in Nat /\ fed' \in Nat
    BY <1>0, <1>1 DEF TypeOK, End, Halted
  <2>2. UNCHANGED <<running, selected, image, mark, uploads, pending, writer>>
    BY <1>1 DEF flash, session
  <2> QED
    BY <1>0, <1>a, <2>1, <2>2 DEF TypeOK, End, Halted
<1>3. HeartbeatsFresh'
  <2>0. at # Halted
    BY <1>1 DEF Halted, End
  <2> SUFFICES ASSUME Watched PROVE HeartbeatsFresh'
    BY <2>0 DEF HeartbeatsFresh, Watched
  <2>1. fed < Wdt /\ since <= fed /\ since \in Nat /\ fed \in Nat /\ age \in [Modules -> Nat]
    BY <1>0, <1>1 DEF HeartbeatsFresh, TypeOK
  <2>2. ASSUME NEW m \in Modules, status'[m] = "RUNNING"
        PROVE  age'[m] <= fed + Wdt - 1
    <3>1. age[m] <= fed + Wdt - 1 /\ age[m] \in Nat
      BY <1>0, <1>a, <2>1, <2>2 DEF HeartbeatsFresh
    <3>2. age'[m] = 0 \/ age'[m] = since \/ age'[m] = age[m]
      BY <1>a
    <3> QED
      BY <2>1, <3>1, <3>2
  <2>3. ASSUME NEW i \in 1..Len(Order), i < at + 1, status'[Order[i]] = "RUNNING"
        PROVE  age'[Order[i]] <= fed
    <3>1. CASE i = at
      BY <1>a, <2>1, <2>3, <3>1
    <3>2. CASE i < at
      <4>1. Order[i] \in Modules /\ status[Order[i]] = "RUNNING"
        BY <1>a, <2>3
      <4>2. age[Order[i]] <= fed /\ age[Order[i]] \in Nat
        BY <1>0, <2>1, <3>2, <4>1 DEF HeartbeatsFresh
      <4>3. age'[Order[i]] = 0 \/ age'[Order[i]] = since \/ age'[Order[i]] = age[Order[i]]
        BY <1>a, <4>1
      <4> QED
        BY <2>1, <4>2, <4>3
    <3> QED
      BY <1>1, <2>3, <3>1, <3>2
  <2> QED
    BY <1>1, <2>1, <2>2, <2>3 DEF HeartbeatsFresh
<1>4. SlotsSound'
  BY <1>0, <1>1, SlotsSame DEF flash, session
<1> QED
  BY <1>2, <1>3, <1>4 DEF SupervisionInv

LEMMA LoopTailInv == SupervisionInv /\ LoopTail => SupervisionInv'
<1> SUFFICES ASSUME SupervisionInv, LoopTail PROVE SupervisionInv'
  OBVIOUS
<1> USE Facts
<1>0. TypeOK /\ HeartbeatsFresh /\ SlotsSound
  BY DEF SupervisionInv
<1>1. /\ at = End /\ at' = 0 /\ fed' = 0
      /\ UNCHANGED <<since, modules, selected, image, uploads, running, late, writer>>
  BY DEF LoopTail
<1>2. PICK net \in BOOLEAN :
        /\ pending' = (pending /\ ~Validates(net))
        /\ mark' = IF Validates(net) THEN [mark EXCEPT ![running] = "valid"] ELSE mark
        /\ confirmed' = IF net THEN confirmed \cup {image[running][1]} ELSE confirmed
  BY DEF LoopTail
<1>3. UNCHANGED <<running, selected, image, writer, status, age, restarts, since, uploads>>
  BY <1>1 DEF modules
<1>4. /\ at' \in 0..Halted /\ fed' \in Nat /\ running \in Slots
      /\ mark \in [Slots -> {"valid", "new", "pending", "aborted"}]
      /\ pending = (mark[running] = "pending")
  BY <1>0, <1>1 DEF TypeOK, End, Halted
<1>5. /\ TypeOK' /\ SlotsSound'
  <2>1. CASE Validates(net)
    <3>1. /\ mark' = [mark EXCEPT ![running] = "valid"]
          /\ confirmed' = confirmed \cup {image[running][1]}
          /\ pending' = FALSE /\ mark[running] = "pending"
      BY <1>2, <1>4, <2>1 DEF Validates
    <3>2. mark'[running] = "valid" /\ mark' \in [Slots -> {"valid", "new", "pending", "aborted"}]
      BY <1>4, <3>1
    <3>3. TypeOK'
      BY <1>0, <1>3, <1>4, <3>1, <3>2 DEF TypeOK, End, Halted
    <3>4. SlotsSound'
      BY <1>0, <1>3, <3>1, <3>2 DEF SlotsSound, Intact, Proven
    <3> QED
      BY <3>3, <3>4
  <2>2. CASE ~Validates(net)
    <3>1. pending' = pending /\ mark' = mark
      BY <1>2, <1>4, <2>2
    <3>2. confirmed \subseteq confirmed'
      BY <1>2
    <3>3. TypeOK'
      BY <1>0, <1>3, <1>4, <3>1 DEF TypeOK, End, Halted
    <3>4. SlotsSound'
      BY <1>0, <1>3, <3>1, <3>2 DEF SlotsSound, Intact, Proven, Other
    <3> QED
      BY <3>3, <3>4
  <2> QED
    BY <2>1, <2>2
<1>6. HeartbeatsFresh'
  <2>0. at # Halted
    BY <1>1 DEF Halted, End
  <2> SUFFICES ASSUME Watched, NEW m \in Modules, status[m] = "RUNNING"
               PROVE  age[m] <= Wdt - 1
    BY <1>1, <2>0 DEF HeartbeatsFresh, Watched, modules
  <2>1. PICK i \in 1..Len(Order) : Order[i] = m
    BY OrderEnumerates
  <2>2. i < at /\ fed < Wdt /\ fed \in Nat /\ age[m] \in Nat
    BY <1>0, <1>1 DEF HeartbeatsFresh, TypeOK, End, Halted
  <2>3. age[m] <= fed
    BY <1>0, <2>1, <2>2 DEF HeartbeatsFresh
  <2> QED
    BY <2>2, <2>3
<1> QED
  BY <1>5, <1>6 DEF SupervisionInv

-----------------------------------------------------------------------------
(* Uploads                                                                 *)

Halves == 0..2
Stages == {"idle", "uploads", "restarts"}

\* While a task is at work on an upload the running firmware is validated, and
\* what it writes to is the other partition.
LEMMA WriterFacts ==
  ASSUME SupervisionInv, NEW w \in Writers
  PROVE  /\ writer[w] \in [at : Stages, fw : Nat, halves : Halves]
         /\ writer[w].at # "idle" => mark[running] = "valid"
         /\ Target \in Slots /\ Target # running /\ running \in Slots
BY SlotFacts DEF SupervisionInv, TypeOK, SlotsSound, Target, Other, Halves, Stages

LEMMA HeartbeatsSame ==
  ASSUME HeartbeatsFresh, UNCHANGED <<loop, age>>,
         \A m \in Modules : status'[m] = "RUNNING" => status[m] = "RUNNING"
  PROVE  HeartbeatsFresh'
BY Facts DEF HeartbeatsFresh, Watched, Halted, End, loop

LEMMA BeginInv == ASSUME SupervisionInv, NEW w \in Writers, Begin(w) PROVE SupervisionInv'
<1>1. /\ UNCHANGED <<loop, modules, selected, image, mark, confirmed, running, pending, late>>
      /\ mark[running] # "pending" /\ uploads' = uploads + 1
      /\ writer' = [writer EXCEPT ![w] = [at |-> "uploads", fw |-> uploads', halves |-> 0]]
  BY DEF Begin
<1>2. TypeOK'
  <2>1. uploads' \in Nat
    BY <1>1 DEF SupervisionInv, TypeOK
  <2>2. writer' \in [Writers -> [at : {"idle", "uploads", "restarts"}, fw : Nat, halves : 0..2]]
    BY <1>1, <2>1 DEF SupervisionInv, TypeOK
  <2> QED
    BY <1>1, <2>1, <2>2 DEF SupervisionInv, TypeOK, loop, modules, End, Halted
<1>3. HeartbeatsFresh'
  BY <1>1, HeartbeatsSame DEF SupervisionInv, modules
<1>4. SlotsSound'
  BY <1>1 DEF SupervisionInv, SlotsSound, Intact, Other, Proven
<1> QED
  BY <1>2, <1>3, <1>4 DEF SupervisionInv

LEMMA WriteInv == ASSUME SupervisionInv, NEW w \in Writers, Write(w) PROVE SupervisionInv'
<1>1. /\ UNCHANGED <<loop, modules, selected, mark, confirmed, uploads, running, pending, late>>
      /\ writer[w].at = "uploads" /\ writer[w].halves < 2
      /\ writer' = [writer EXCEPT ![w].halves = @ + 1]
      /\ image' = [image EXCEPT ![Target][writer[w].halves + 1] = writer[w].fw]
  BY DEF Write, Uploading
<1>2. /\ writer[w].fw \in Nat /\ writer[w].halves + 1 \in {1, 2}
      /\ mark[running] = "valid" /\ Target \in Slots /\ Target # running /\ running \in Slots
  BY <1>1, WriterFacts DEF Halves
<1>3. TypeOK'
  <2>1. image' \in [Slots -> [{1, 2} -> Nat]]
    <3>1. image \in [Slots -> [{1, 2} -> Nat]]
      BY DEF SupervisionInv, TypeOK
    <3>2. [image[Target] EXCEPT ![writer[w].halves + 1] = writer[w].fw] \in [{1, 2} -> Nat]
      BY <1>2, <3>1
    <3> QED
      BY <1>1, <1>2, <3>1, <3>2
  <2>2. writer' \in [Writers -> [at : {"idle", "uploads", "restarts"}, fw : Nat, halves : 0..2]]
    <3>1. writer[w].halves + 1 \in 0..2
      BY <1>2
    <3>2. [writer[w] EXCEPT !.halves = @ + 1] \in [at : Stages, fw : Nat, halves : 0..2]
      BY <3>1, WriterFacts DEF Halves
    <3> QED
      BY <1>1, <3>2 DEF SupervisionInv, TypeOK, Stages
  <2> QED
    BY <1>1, <2>1, <2>2 DEF SupervisionInv, TypeOK, loop, modules, End, Halted
<1>4. HeartbeatsFresh'
  BY <1>1, HeartbeatsSame DEF SupervisionInv, modules
<1>5. SlotsSound'
  <2>1. image'[running] = image[running]
    BY <1>1, <1>2 DEF SupervisionInv, TypeOK
  <2> QED
    BY <1>1, <1>2, <2>1 DEF SupervisionInv, SlotsSound, Intact, Proven
<1> QED
  BY <1>3, <1>4, <1>5 DEF SupervisionInv

LEMMA FailInv == ASSUME SupervisionInv, NEW w \in Writers, Fail(w) PROVE SupervisionInv'
<1>1. /\ UNCHANGED <<loop, modules, flash, running, pending, late>>
      /\ writer' = [writer EXCEPT ![w] = Idle]
  BY DEF Fail
<1>2. TypeOK'
  <2>1. writer' \in [Writers -> [at : {"idle", "uploads", "restarts"}, fw : Nat, halves : 0..2]]
    BY <1>1 DEF SupervisionInv, TypeOK, Idle
  <2> QED
    BY <1>1, <2>1 DEF SupervisionInv, TypeOK, loop, modules, flash, End, Halted
<1>3. HeartbeatsFresh'
  BY <1>1, HeartbeatsSame DEF SupervisionInv, modules
<1>4. SlotsSound'
  <2>1. \A v \in Writers : writer[v].at = "idle" => writer'[v].at = "idle"
    BY <1>1 DEF SupervisionInv, TypeOK, Idle
  <2> QED
    BY <1>1, <2>1 DEF SupervisionInv, SlotsSound, Intact, Other, Proven, flash
<1> QED
  BY <1>2, <1>3, <1>4 DEF SupervisionInv

LEMMA FinishInv == ASSUME SupervisionInv, NEW w \in Writers, Finish(w) PROVE SupervisionInv'
<1>1. /\ UNCHANGED <<loop, age, restarts, lockout, image, confirmed, uploads, running, pending, late>>
      /\ writer[w].at = "uploads"
      /\ selected' = Target /\ mark' = [mark EXCEPT ![Target] = "new"]
      /\ writer' = [writer EXCEPT ![w].at = "restarts"]
      /\ status' = IF w = "http" THEN Stopped ELSE status
  BY DEF Finish, Uploading
<1>2. mark[running] = "valid" /\ Target \in Slots /\ Target # running /\ running \in Slots
  BY <1>1, WriterFacts
<1>3. mark'[running] = "valid" /\ mark'[Target] = "new"
  BY <1>1, <1>2 DEF SupervisionInv, TypeOK
<1>4. TypeOK'
  <2>1. mark' \in [Slots -> {"valid", "new", "pending", "aborted"}]
    BY <1>1, <1>2 DEF SupervisionInv, TypeOK
  <2>2. writer' \in [Writers -> [at : {"idle", "uploads", "restarts"}, fw : Nat, halves : 0..2]]
    BY <1>1 DEF SupervisionInv, TypeOK
  <2>3. status' \in [Modules -> {"RUNNING", "STOPPED", "ERROR"}]
    BY <1>1 DEF SupervisionInv, TypeOK, Stopped
  <2>4. pending' = (mark'[running'] = "pending")
    BY <1>1, <1>2, <1>3 DEF SupervisionInv, TypeOK
  <2> QED
    BY <1>1, <1>2, <2>1, <2>2, <2>3, <2>4 DEF SupervisionInv, TypeOK, loop, End, Halted
<1>5. HeartbeatsFresh'
  <2>1. \A m \in Modules : status'[m] = "RUNNING" => status[m] = "RUNNING"
    BY <1>1 DEF SupervisionInv, TypeOK, Stopped
  <2> QED
    BY <1>1, <2>1, HeartbeatsSame DEF SupervisionInv
<1>6. SlotsSound'
  BY <1>1, <1>2, <1>3 DEF SupervisionInv, SlotsSound, Intact, Proven
<1> QED
  BY <1>4, <1>5, <1>6 DEF SupervisionInv

-----------------------------------------------------------------------------
(* The theorems                                                            *)

LEMMA StepInv == SupervisionInv /\ [Next]_vars => SupervisionInv'
<1> SUFFICES ASSUME SupervisionInv, [Next]_vars PROVE SupervisionInv'
  OBVIOUS
<1>1. CASE MainLoop
  BY <1>1, DriversInv, UpdateInv, LoopTailInv DEF MainLoop
<1>2. CASE GiveUp
  BY <1>2, BootSound DEF GiveUp
<1>3. CASE Tick \/ Minute
  BY <1>3, TickInv, MinuteInv
<1>4. CASE Panic \/ Reboot
  BY <1>4, BootSound DEF Panic
<1>5. ASSUME NEW w \in Writers, Begin(w) \/ Write(w) \/ Fail(w) \/ Finish(w) \/ Restart(w)
      PROVE  SupervisionInv'
  BY <1>5, BeginInv, WriteInv, FailInv, FinishInv, BootSound DEF Restart
<1>6. CASE UNCHANGED vars
  <2>1. TypeOK'
    BY <1>6 DEF SupervisionInv, TypeOK, vars, loop, modules, flash, session, End, Halted
  <2>2. HeartbeatsFresh'
    BY <1>6, HeartbeatsSame DEF SupervisionInv, vars, loop, modules
  <2>3. SlotsSound'
    BY <1>6, SlotsSame DEF SupervisionInv, vars, flash, session
  <2> QED
    BY <2>1, <2>2, <2>3 DEF SupervisionInv
<1> QED
  BY <1>1, <1>2, <1>3, <1>4, <1>5, <1>6 DEF Next

\* Every reachable state is sound: heartbeats are fresh where the hardware
\* watchdog watches, and the partitions hold what a restart needs.
THEOREM Sound == Spec => []SupervisionInv
<1>1. Init => SupervisionInv
  BY SupervisionInitInv
<1>2. SupervisionInv /\ [Next]_vars => SupervisionInv'
  BY StepInv
<1> QED
  BY <1>1, <1>2, PTL DEF Spec

\* Every variable keeps its type (all actions of the module).
THEOREM SupervisionTypes == Spec => []TypeOK
<1>1. SupervisionInv => TypeOK
  BY DEF SupervisionInv
<1> QED
  BY <1>1, Sound, PTL

\* Whatever is uploaded and whenever power is lost, the boot loader finds
\* firmware it can boot (ota_handler.cpp, handle_post_ota, esp_ota_*).
THEOREM BootableTheorem == Spec => []Bootable
<1>1. SupervisionInv => Bootable
  BY ChoiceSound DEF SupervisionInv, Bootable
<1> QED
  BY <1>1, Sound, PTL

\* Firmware that is kept has run with the network up (main.cpp, validation of
\* new firmware, and the boot loader's rollback).
THEOREM KeptIsConfirmedTheorem == Spec => []KeptIsConfirmed
<1>1. SupervisionInv => KeptIsConfirmed
  BY DEF SupervisionInv, TypeOK, SlotsSound, Proven, KeptIsConfirmed
<1> QED
  BY <1>1, Sound, PTL

\* A module whose timeout is not yet reached is not late.
LEMMA OnlyCriticalLate ==
  ASSUME SupervisionInv, Watched, NEW m \in Modules, Late(m)
  PROVE  Priority[m] = CRITICAL
<1> USE Facts
<1> SUFFICES ASSUME Priority[m] # CRITICAL PROVE FALSE
  OBVIOUS
<1>1. Timeout[Priority[m]] >= 2 * Wdt /\ Timeout[Priority[m]] \in Nat
  BY TimeoutsApart
<1>2. age[m] >= Timeout[Priority[m]] /\ status[m] = "RUNNING" /\ age[m] \in Nat
  BY DEF Late, SupervisionInv, TypeOK
<1>3. age[m] <= fed + Wdt - 1 /\ fed < Wdt /\ fed \in Nat
  BY <1>2 DEF SupervisionInv, HeartbeatsFresh, TypeOK
<1> QED
  BY <1>1, <1>2, <1>3

\* While the hardware watchdog watches the main loop, the software watchdog
\* restarts modules of CRITICAL priority only (watchdog_service.cpp, main.cpp).
THEOREM OnlyCriticalRestartsTheorem == Spec => OnlyCriticalRestarts
<1> DEFINE A == \A m \in Modules : Subscribed /\ restarts'[m] > restarts[m] => Priority[m] = CRITICAL
<1>1. SupervisionInv /\ [Next]_vars => [A]_vars
  <2> SUFFICES ASSUME SupervisionInv, Next, NEW m \in Modules, Subscribed, restarts'[m] > restarts[m]
               PROVE  Priority[m] = CRITICAL
    OBVIOUS
  <2>1. restarts[m] \in Nat
    BY DEF SupervisionInv, TypeOK
  <2>2. ~Reboot
    BY <2>1 DEF Reboot, Booted
  <2>3. restarts' # restarts
    BY <2>1
  <2>4. UpdateModule
    BY <2>2, <2>3 DEF Next, MainLoop, GiveUp, Panic, Restart, Tick, Minute, Drivers, LoopTail,
                      Begin, Write, Fail, Finish, modules
  <2>5. Check
    BY <2>3, <2>4 DEF UpdateModule, Updates, modules
  <2>6. m \in Due
    BY <2>1, <2>5 DEF Check
  <2>7. Watched
    BY <2>4, Facts DEF UpdateModule, Watched, Halted, End
  <2> QED
    BY <2>6, <2>7, OnlyCriticalLate DEF Due
<1> QED
  BY <1>1, Sound, PTL DEF Spec, OnlyCriticalRestarts
===============================================================================
