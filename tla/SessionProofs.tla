--------------------------- MODULE SessionProofs ---------------------------
(***************************************************************************)
(* Theorems about Session for any set of connections, any accounts and any  *)
(* channel capacities: its types, that no healthy connection is closed, and *)
(* that a closed one leaves Guests.                                         *)
(***************************************************************************)
EXTENDS Session, TLAPS


\* Session is type-correct.
THEOREM TypeCorrect == Spec => []TypeOK
<1> USE NoneAssumption, SubscribersAssumption, KindsAssumption, CapsAssumption
<1>1. Init => TypeOK
  BY DEF Init, TypeOK, Senders, PubSub
<1>2. TypeOK /\ [Next]_vars => TypeOK'
  <2> SUFFICES ASSUME TypeOK, [Next]_vars PROVE TypeOK'
    OBVIOUS
  <2> USE DEF TypeOK, Senders
  <2>1. ASSUME NEW c \in Clients, Connect(c) PROVE TypeOK'
    BY <2>1 DEF Connect, readerVars, sendingVars, loginVars
  <2>2. ASSUME NEW c \in Clients, Break(c) PROVE TypeOK'
    BY <2>2 DEF Break, readerVars, sendingVars, loginVars, hubVars
  <2>3. ASSUME NEW c \in Clients, ReadRequest(c) PROVE TypeOK'
    BY <2>3 DEF ReadRequest, readerVars, sendingVars, loginVars, hubVars
  <2>4. ASSUME NEW c \in Clients, Enqueue(c) PROVE TypeOK'
    BY <2>4 DEF Enqueue, readerVars, sendingVars, loginVars, hubVars
  <2>5. ASSUME NEW c \in Clients, ReadError(c) PROVE TypeOK'
    BY <2>5 DEF ReadError, readerVars, sendingVars, loginVars, hubVars
  <2>6. ASSUME NEW c \in Clients, ReaderDisconnect(c) PROVE TypeOK'
    BY <2>6 DEF ReaderDisconnect, Receive, readerVars, sendingVars, loginVars
  <2>7. ASSUME NEW c \in Clients, WriteMsg(c) PROVE TypeOK'
    BY <2>7 DEF WriteMsg, readerVars, sendingVars, loginVars, hubVars
  <2>8. ASSUME NEW c \in Clients, WriteEnds(c) PROVE TypeOK'
    BY <2>8 DEF WriteEnds, readerVars, sendingVars, loginVars, hubVars
  <2>9. ASSUME NEW c \in Clients, WriterDisconnect(c) PROVE TypeOK'
    BY <2>9 DEF WriterDisconnect, Receive, readerVars, sendingVars, loginVars
  <2>10. ASSUME NEW c \in Clients, Dispatch(c) PROVE TypeOK'
    <3>1. /\ requests' \in [Clients -> Seq(AllKinds)]
          /\ UNCHANGED <<conn, received, reader, inbound, recovering, send,
                         writer, closed, guests, hub, current, topics>>
      BY <2>10 DEF Dispatch, readerVars, hubVars
    <3>2. CASE Login(c)
      <4>1. kicked' \in [Clients -> Clients \union {None}]
        <5>1. registered \subseteq Clients
              /\ kicked \in [Clients -> Clients \union {None}]
          BY DEF TypeOK
        <5> HIDE DEF TypeOK
        <5>2. \E k \in registered \union {None} : kicked' = [kicked EXCEPT ![c] = k]
          BY <3>2, Zenon DEF Login
        <5>3. QED
          BY <5>1, <5>2
      <4>2. /\ login' \in [Clients -> BOOLEAN]
            /\ request' = [request EXCEPT ![c] = "register"]
            /\ UNCHANGED <<pending, target, disconnecting, registered>>
        BY <3>2 DEF Login
      <4>3. QED
        BY <3>1, <4>1, <4>2
    <3>3. ASSUME NEW k, Answer(c, k) PROVE TypeOK'
      BY <3>1, <3>3 DEF Answer, loginVars
    <3>4. QED
      BY <2>10, <3>2, <3>3 DEF Dispatch
  <2>11. ASSUME NEW c \in Clients, Register(c) PROVE TypeOK'
    BY <2>11 DEF Register, readerVars, sendingVars, loginVars, hubVars
  <2>12. ASSUME NEW c \in Clients, Kick(c) PROVE TypeOK'
    BY <2>12 DEF Kick, Receive, readerVars, sendingVars, loginVars, hubVars
  <2>13. ASSUME NEW c \in Clients, PubLogin(c) PROVE TypeOK'
    BY <2>13 DEF PubLogin, Pub, readerVars, sendingVars, loginVars, hubVars
  <2>14. ASSUME NEW c \in Clients, Store(c) PROVE TypeOK'
    BY <2>14 DEF Store, readerVars, sendingVars, loginVars, hubVars
  <2>15. ASSUME NEW p \in Senders, NextTarget(p) PROVE TypeOK'
    BY <2>15, SMTT(30) DEF NextTarget, readerVars, loginVars, hubVars
  <2>16. ASSUME NEW p \in Senders, SendMsg(p) PROVE TypeOK'
    BY <2>16, SMTT(30) DEF SendMsg, readerVars, loginVars, hubVars
  <2>17. ASSUME NEW p \in Senders, SendPanics(p) PROVE TypeOK'
    BY <2>17 DEF SendPanics, readerVars, loginVars, hubVars
  <2>18. ASSUME NEW p \in Senders, RecoverDisconnect(p) PROVE TypeOK'
    BY <2>18 DEF RecoverDisconnect, Receive, readerVars, loginVars
  <2>19. CASE HubPub
    BY <2>19 DEF HubPub, Pub, readerVars, sendingVars, loginVars
  <2>20. CASE LeaveAsGuest
    BY <2>20 DEF LeaveAsGuest, Close, readerVars, sendingVars, loginVars
  <2>21. CASE LeaveAsUser
    BY <2>21 DEF LeaveAsUser, Close, readerVars, sendingVars
  <2>22. CASE Publish
    BY <2>22 DEF Publish, PubSub, readerVars, loginVars, hubVars
  <2>23. CASE Finished \/ UNCHANGED vars
    BY <2>23 DEF Finished, vars, readerVars, sendingVars, loginVars, hubVars
  <2>24. QED
    BY <2>1, <2>2, <2>3, <2>4, <2>5, <2>6, <2>7, <2>8, <2>9, <2>10, <2>11,
       <2>12, <2>13, <2>14, <2>15, <2>16, <2>17, <2>18, <2>19, <2>20, <2>21,
       <2>22, <2>23
       DEF Next, ReaderStep, WriterStep, RequestStep, SenderStep, PubSubStep,
           HubStep, PubSub
<1>3. QED
  BY <1>1, <1>2, PTL DEF Spec

-----------------------------------------------------------------------------
\* A reason to close a client never goes away.
LEMMA JustifiedStable ==
    ASSUME TypeOK,
           \A c \in Clients : /\ conn[c] = "broken" => conn'[c] = "broken"
                              /\ disconnecting[c] => disconnecting'[c]
                              /\ login[c] => login'[c]
    PROVE  \A c \in Clients : Justified(c) => Justified(c)'
  BY DEF Justified, Replaced

\* Every step of Session preserves the reasons for what is closed, being
\* closed or about to be closed.
LEMMA SafetyStep == TypeOK /\ TypeOK' /\ SafetyInv /\ [Next]_vars => SafetyInv'
<1> USE NoneAssumption, PubSubAssumption
<1> SUFFICES ASSUME TypeOK, TypeOK', SafetyInv, [Next]_vars PROVE SafetyInv'
  OBVIOUS
<1> DEFINE Stable == \A c \in Clients : Justified(c) => Justified(c)'
<1> USE DEF SafetyInv, NoInnocentClosed, ClosedGuestIsLoggingIn,
            StoppingJustified, KickJustified, RecoverJustified, HubJustified,
            MembersLoggedIn, MembersNotGuests, NewUntouched,
            BusyRequestSendsNothing, Idle
<1>1. ASSUME NEW c \in Clients, Connect(c) PROVE SafetyInv'
  <2>1. Stable
    BY <1>1, JustifiedStable DEF TypeOK, Connect, readerVars, sendingVars, loginVars, hubVars
  <2>2. QED
    BY <1>1, <2>1 DEF TypeOK, Senders, Connect, readerVars, sendingVars, loginVars, hubVars
<1>2. ASSUME NEW c \in Clients, Break(c) PROVE SafetyInv'
  <2>1. Stable
    BY <1>2, JustifiedStable DEF TypeOK, Break, readerVars, sendingVars, loginVars, hubVars
  <2>2. QED
    BY <1>2, <2>1 DEF TypeOK, Senders, Break, readerVars, sendingVars, loginVars, hubVars
<1>3. ASSUME NEW c \in Clients, ReadRequest(c) PROVE SafetyInv'
  <2>1. Stable
    BY <1>3, JustifiedStable DEF TypeOK, ReadRequest, readerVars, sendingVars, loginVars, hubVars
  <2>2. QED
    BY <1>3, <2>1 DEF TypeOK, Senders, ReadRequest, readerVars, sendingVars, loginVars, hubVars
<1>4. ASSUME NEW c \in Clients, Enqueue(c) PROVE SafetyInv'
  <2>1. Stable
    BY <1>4, JustifiedStable DEF TypeOK, Enqueue, readerVars, sendingVars, loginVars, hubVars
  <2>2. QED
    BY <1>4, <2>1 DEF TypeOK, Senders, Enqueue, readerVars, sendingVars, loginVars, hubVars
<1>5. ASSUME NEW c \in Clients, ReadError(c) PROVE SafetyInv'
  <2>1. Stable
    BY <1>5, JustifiedStable DEF TypeOK, ReadError, Unusable, readerVars, sendingVars, loginVars, hubVars
  <2>2. Unusable(c) \/ disconnecting[c] => Justified(c)
    BY DEF Unusable, Justified
  <2>3. QED
    BY <1>5, <2>1, <2>2 DEF TypeOK, Senders, ReadError, readerVars, sendingVars, loginVars, hubVars
<1>6. ASSUME NEW c \in Clients, ReaderDisconnect(c) PROVE SafetyInv'
  <2>1. Stable
    BY <1>6, JustifiedStable DEF TypeOK, ReaderDisconnect, Receive, readerVars, sendingVars, loginVars, hubVars
  <2>2. QED
    BY <1>6, <2>1 DEF TypeOK, Senders, ReaderDisconnect, Receive, readerVars, sendingVars, loginVars, hubVars
<1>7. ASSUME NEW c \in Clients, WriteMsg(c) PROVE SafetyInv'
  <2>1. Stable
    BY <1>7, JustifiedStable DEF TypeOK, WriteMsg, Unusable, readerVars, sendingVars, loginVars, hubVars
  <2>2. Unusable(c) \/ disconnecting[c] => Justified(c)
    BY DEF Unusable, Justified
  <2>3. QED
    BY <1>7, <2>1, <2>2 DEF TypeOK, Senders, WriteMsg, readerVars, sendingVars, loginVars, hubVars
<1>8. ASSUME NEW c \in Clients, WriteEnds(c) PROVE SafetyInv'
  <2>1. Stable
    BY <1>8, JustifiedStable DEF TypeOK, WriteEnds, Unusable, readerVars, sendingVars, loginVars, hubVars
  <2>2. Unusable(c) \/ disconnecting[c] => Justified(c)
    BY DEF Unusable, Justified
  <2>3. QED
    BY <1>8, <2>1, <2>2 DEF TypeOK, Senders, WriteEnds, readerVars, sendingVars, loginVars, hubVars
<1>9. ASSUME NEW c \in Clients, WriterDisconnect(c) PROVE SafetyInv'
  <2>1. Stable
    BY <1>9, JustifiedStable DEF TypeOK, WriterDisconnect, Receive, readerVars, sendingVars, loginVars, hubVars
  <2>2. QED
    BY <1>9, <2>1 DEF TypeOK, Senders, WriterDisconnect, Receive, readerVars, sendingVars, loginVars, hubVars
<1>10. ASSUME NEW c \in Clients, Dispatch(c) PROVE SafetyInv'
  <2> HIDE DEF SafetyInv, NoInnocentClosed, ClosedGuestIsLoggingIn,
               StoppingJustified, KickJustified, RecoverJustified,
               HubJustified, MembersLoggedIn, MembersNotGuests, NewUntouched,
               BusyRequestSendsNothing, Idle, Stable
  <2>1. /\ request[c] = "recv" /\ Idle(c)
        /\ UNCHANGED <<conn, reader, recovering, writer, closed, guests, hub,
                       current>>
    BY <1>10 DEF Dispatch, readerVars, hubVars
  <2>2. CASE Login(c)
    <3>1. /\ login'[c] /\ request'[c] = "register"
          /\ \A e \in Clients \ {c} : /\ login'[e] = login[e]
                                      /\ request'[e] = request[e]
                                      /\ kicked'[e] = kicked[e]
          /\ UNCHANGED <<pending, target, disconnecting, registered>>
      BY <2>2 DEF Login, TypeOK
    <3>2. Stable
      BY <2>1, <3>1, JustifiedStable DEF Stable
    <3>3. \/ kicked'[c] = None
          \/ /\ kicked'[c] \in registered
             /\ Account[kicked'[c]] = Account[c]
      BY <2>2 DEF Login, TypeOK
    <3>4. registered \subseteq Clients /\ guests \subseteq Clients
      BY DEF TypeOK
    <3>5. KickJustified'
      <4>1. ASSUME NEW e \in Clients, kicked'[e] # None
            PROVE  /\ login'[e] /\ login'[kicked'[e]]
                   /\ Account[kicked'[e]] = Account[e]
        <5>1. CASE e = c
          BY <3>1, <3>3, <3>4, <4>1, <5>1 DEF SafetyInv, MembersLoggedIn
        <5>2. CASE e # c
          <6>1. kicked[e] # None /\ kicked[e] \in Clients
            BY <3>1, <4>1, <5>2 DEF TypeOK
          <6>2. QED
            BY <3>1, <5>2, <6>1 DEF SafetyInv, KickJustified
        <5>3. QED
          BY <5>1, <5>2
      <4>2. ASSUME NEW e \in Clients, request'[e] = "kick"
            PROVE  kicked'[e] \notin {None, e}
        BY <3>1, <4>2 DEF SafetyInv, KickJustified
      <4>3. QED
        BY <4>1, <4>2 DEF KickJustified
    <3>6. MembersNotGuests' /\ ClosedGuestIsLoggingIn'
      BY <2>1, <3>1, <3>4
         DEF SafetyInv, MembersNotGuests, ClosedGuestIsLoggingIn
    <3>7. NewUntouched' /\ MembersLoggedIn'
      BY <2>1, <3>1 DEF SafetyInv, NewUntouched, MembersLoggedIn
    <3>8. BusyRequestSendsNothing' /\ RecoverJustified'
      BY <2>1, <3>1
         DEF SafetyInv, BusyRequestSendsNothing, RecoverJustified, Idle
    <3>9. NoInnocentClosed' /\ StoppingJustified' /\ HubJustified'
      BY <2>1, <3>2
         DEF TypeOK, SafetyInv, NoInnocentClosed, StoppingJustified,
             HubJustified, Stable
    <3>10. QED
      BY <3>5, <3>6, <3>7, <3>8, <3>9 DEF SafetyInv
  <2>3. ASSUME NEW k, Answer(c, k) PROVE SafetyInv'
    <3>1. /\ UNCHANGED <<request, login, registered, kicked>>
          /\ \A e \in Clients : disconnecting[e] => disconnecting'[e]
      BY <2>1, <2>3 DEF Answer, TypeOK, loginVars
    <3>2. \A p \in Senders \ {c} : /\ target'[p] = target[p]
                                   /\ pending'[p] = pending[p]
      BY <2>1, <2>3 DEF Answer, TypeOK
    <3>3. ~recovering[c]
      BY <2>1 DEF SafetyInv, RecoverJustified, Idle, Senders
    <3>4. Stable
      BY <2>1, <3>1, JustifiedStable DEF Stable
    <3>5. NoInnocentClosed' /\ StoppingJustified' /\ HubJustified'
      BY <2>1, <3>4
         DEF TypeOK, SafetyInv, NoInnocentClosed, StoppingJustified,
             HubJustified, Stable
    <3>6. BusyRequestSendsNothing' /\ RecoverJustified'
      BY <2>1, <3>1, <3>2, <3>3
         DEF Senders, SafetyInv, BusyRequestSendsNothing, RecoverJustified,
             Idle
    <3>7. QED
      BY <2>1, <3>1, <3>5, <3>6
         DEF SafetyInv, KickJustified, MembersLoggedIn, MembersNotGuests,
             NewUntouched, ClosedGuestIsLoggingIn
  <2>4. QED
    BY <1>10, <2>2, <2>3 DEF Dispatch
<1>11. ASSUME NEW c \in Clients, Register(c) PROVE SafetyInv'
  <2> HIDE DEF SafetyInv, NoInnocentClosed, ClosedGuestIsLoggingIn,
               StoppingJustified, KickJustified, RecoverJustified,
               HubJustified, MembersLoggedIn, MembersNotGuests, NewUntouched,
               BusyRequestSendsNothing, Idle, Stable
  <2>1. Stable
    BY <1>11, JustifiedStable
       DEF TypeOK, Register, readerVars, sendingVars, loginVars, hubVars, Stable
  <2>2. /\ request[c] = "register"
        /\ request'[c] \in {"pub", "kick"}
        /\ request'[c] = "kick" => kicked'[c] \notin {None, c}
        /\ kicked'[c] \in {kicked[c], None}
        /\ \A e \in Clients \ {c} : /\ request'[e] = request[e]
                                    /\ kicked'[e] = kicked[e]
        /\ registered' = (registered \ {kicked[c]}) \union {c}
        /\ UNCHANGED <<conn, reader, recovering, target, pending, writer,
                       closed, login, guests, hub, current>>
    BY <1>11 DEF Register, readerVars, sendingVars, hubVars, TypeOK
  <2>3. login[c]
    BY <2>2 DEF SafetyInv, MembersLoggedIn
  <2>4. KickJustified'
    BY <2>2 DEF SafetyInv, KickJustified
  <2>5. MembersNotGuests' /\ ClosedGuestIsLoggingIn'
    <3>1. guests \subseteq Clients
      BY DEF TypeOK
    <3>2. QED
      BY <2>2, <3>1 DEF SafetyInv, MembersNotGuests, ClosedGuestIsLoggingIn
  <2>6. NewUntouched' /\ MembersLoggedIn'
    BY <2>2, <2>3 DEF SafetyInv, NewUntouched, MembersLoggedIn
  <2>7. BusyRequestSendsNothing' /\ RecoverJustified'
    BY <2>2
       DEF SafetyInv, BusyRequestSendsNothing, RecoverJustified, Idle
  <2>8. NoInnocentClosed' /\ StoppingJustified' /\ HubJustified'
    BY <2>1, <2>2
       DEF TypeOK, SafetyInv, NoInnocentClosed, StoppingJustified,
           HubJustified, Stable
  <2>9. QED
    BY <2>4, <2>5, <2>6, <2>7, <2>8 DEF SafetyInv
<1>12. ASSUME NEW c \in Clients, Kick(c) PROVE SafetyInv'
  <2>1. Stable
    BY <1>12, JustifiedStable DEF TypeOK, Kick, Receive, readerVars, sendingVars, loginVars, hubVars
  <2>2. /\ kicked[c] \in Clients \ {c}
        /\ Justified(kicked[c]) /\ conn[kicked[c]] # "new"
    BY <1>12 DEF TypeOK, Kick, Justified, Replaced
  <2>3. QED
    BY <1>12, <2>1, <2>2 DEF TypeOK, Senders, Kick, Receive, readerVars, sendingVars, loginVars, hubVars
<1>13. ASSUME NEW c \in Clients, PubLogin(c) PROVE SafetyInv'
  <2>1. Stable
    BY <1>13, JustifiedStable DEF TypeOK, PubLogin, Pub, readerVars, sendingVars, loginVars, hubVars
  <2>2. QED
    BY <1>13, <2>1 DEF TypeOK, Senders, PubLogin, Pub, readerVars, sendingVars, loginVars, hubVars
<1>14. ASSUME NEW c \in Clients, Store(c) PROVE SafetyInv'
  <2>1. Stable
    BY <1>14, JustifiedStable DEF TypeOK, Store, readerVars, sendingVars, loginVars, hubVars
  <2>2. QED
    BY <1>14, <2>1 DEF TypeOK, Senders, Store, readerVars, sendingVars, loginVars, hubVars
<1>15. ASSUME NEW p \in Senders, NextTarget(p) PROVE SafetyInv'
  <2>1. Stable
    BY <1>15, JustifiedStable DEF TypeOK, NextTarget, readerVars, sendingVars, loginVars, hubVars
  <2>2. QED
    BY <1>15, <2>1 DEF TypeOK, Senders, NextTarget, readerVars, sendingVars, loginVars, hubVars
<1>16. ASSUME NEW p \in Senders, SendMsg(p) PROVE SafetyInv'
  <2>1. Stable
    BY <1>16, JustifiedStable DEF TypeOK, SendMsg, readerVars, sendingVars, loginVars, hubVars
  <2>2. QED
    BY <1>16, <2>1 DEF TypeOK, Senders, SendMsg, readerVars, sendingVars, loginVars, hubVars
<1>17. ASSUME NEW p \in Senders, SendPanics(p) PROVE SafetyInv'
  <2>1. Stable
    BY <1>17, JustifiedStable DEF TypeOK, SendPanics, readerVars, sendingVars, loginVars, hubVars
  <2>2. QED
    BY <1>17, <2>1 DEF TypeOK, Senders, SendPanics, readerVars, sendingVars, loginVars, hubVars
<1>18. ASSUME NEW p \in Senders, RecoverDisconnect(p) PROVE SafetyInv'
  <2>1. Stable
    BY <1>18, JustifiedStable DEF TypeOK, RecoverDisconnect, Receive, readerVars, sendingVars, loginVars, hubVars
  <2>2. QED
    BY <1>18, <2>1 DEF TypeOK, Senders, RecoverDisconnect, Receive, readerVars, sendingVars, loginVars, hubVars
<1>19. CASE HubPub
  <2>1. Stable
    BY <1>19, JustifiedStable DEF TypeOK, HubPub, Pub, readerVars, sendingVars, loginVars, hubVars
  <2>2. QED
    BY <1>19, <2>1 DEF TypeOK, Senders, HubPub, Pub, readerVars, sendingVars, loginVars, hubVars
<1>20. CASE LeaveAsGuest
  <2>1. Stable
    BY <1>20, JustifiedStable DEF TypeOK, LeaveAsGuest, Close, readerVars, sendingVars, loginVars, hubVars
  <2>2. QED
    BY <1>20, <2>1 DEF TypeOK, Senders, LeaveAsGuest, Close, readerVars, sendingVars, loginVars, hubVars
<1>21. CASE LeaveAsUser
  <2>1. Stable
    BY <1>21, JustifiedStable DEF TypeOK, LeaveAsUser, Close, readerVars, sendingVars, loginVars, hubVars
  <2>2. QED
    BY <1>21, <2>1 DEF TypeOK, Senders, LeaveAsUser, Close, readerVars, sendingVars, loginVars, hubVars
<1>22. CASE Publish
  <2>1. Stable
    BY <1>22, JustifiedStable DEF TypeOK, Publish, PubSub, readerVars, sendingVars, loginVars, hubVars
  <2>2. QED
    BY <1>22, <2>1 DEF TypeOK, Senders, Publish, PubSub, readerVars, sendingVars, loginVars, hubVars
<1>23. CASE Finished \/ UNCHANGED vars
  BY <1>23 DEF Finished, vars, Justified, Replaced, readerVars, sendingVars, loginVars, hubVars
<1>24. QED
  BY <1>1, <1>2, <1>3, <1>4, <1>5, <1>6, <1>7, <1>8, <1>9, <1>10, <1>11, <1>12, <1>13, <1>14, <1>15, <1>16, <1>17, <1>18, <1>19, <1>20, <1>21, <1>22, <1>23
     DEF Next, ReaderStep, WriterStep, RequestStep, SenderStep, PubSubStep,
         HubStep, PubSub, Senders

\* No healthy connection is closed, and a closed one leaves Guests.
THEOREM Safety == Spec => [](NoInnocentClosed /\ ClosedGuestIsLoggingIn)
<1>1. Init => SafetyInv
  BY NoneAssumption
     DEF Init, SafetyInv, NoInnocentClosed, ClosedGuestIsLoggingIn,
         StoppingJustified, KickJustified, RecoverJustified, HubJustified,
         MembersLoggedIn, MembersNotGuests, NewUntouched,
         BusyRequestSendsNothing, Idle, Senders
<1>2. SafetyInv => NoInnocentClosed /\ ClosedGuestIsLoggingIn
  BY DEF SafetyInv
<1>3. QED
  BY <1>1, <1>2, TypeCorrect, SafetyStep, PTL DEF Spec

\* A closed connection is listed as a guest only while the request that logs it
\* in, or the Hubc that deletes it from Guests, is at work.
THEOREM GuestsCorrect == Spec => []ClosedGuestIsLoggingIn
  BY Safety, PTL
=============================================================================
