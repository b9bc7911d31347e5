-------------------------- MODULE McpClientProofs --------------------------
(***************************************************************************)
(* Proofs about McpClient, for any number of calls, attempts and           *)
(* operations of the user.                                                 *)
(***************************************************************************)
EXTENDS McpClient, TLAPS

Before    == {"new", "lock", "ready"}
Busy      == Active \cup {"ready"}
Operating == {"drop", "connect", "initialize", "notify", "list"}
Sent      == served \cup pending

\* Who is at work has the mutex, or is the request that the manager is at.
LocksOK ==
  /\ \A c \in Calls : at[c] \in Busy => lock = c
  /\ at[Initialize] \in Busy => man = "initialize"
  /\ at[ListTools] \in Busy => man = "list"
  /\ lock = Manager <=> man \in Operating
  /\ man \in {"initialize", "notify"} => at[ListTools] = "new"

\* An identifier stands for one request of its connection, sent or entered.
EntriesOK ==
  /\ man = "connect" => Sent = {}
  /\ \A e \in Sent : e.id < next /\ at[e.of] \notin Before
  /\ \A e, f \in Sent : e.id = f.id => e.of = f.of
  /\ \A r \in Requests : at[r] \in Active =>
       /\ id[r] < next
       /\ \A e \in Sent : e.id = id[r] <=> e.of = r

\* Who is at work and has no mail is entered; who has not begun has none.
MailOK ==
  /\ \A r \in Requests : at[r] \in Active /\ mail[r] = NoOne => Entry(r) \in pending
  /\ \A r \in answered : at[r] \notin Before
  /\ \A r \in Requests : at[r] \in Before => mail[r] = NoOne

McpInv == TypeOK /\ LocksOK /\ EntriesOK /\ MailOK /\ AnswersAreOwn

-----------------------------------------------------------------------------
(* Types.                                                                  *)

\* What a closed connection leaves.
LEMMA ClosedMail ==
  ASSUME TypeOK, CloseMail
  PROVE  mail' \in [Requests -> Requests \cup {NoOne, Closed, Null}]
BY DEF TypeOK, CloseMail

LEMMA TypeStep ==
  ASSUME TypeOK, [Next]_vars
  PROVE  TypeOK'
<1>1. ASSUME NEW c \in Calls, Call(c) PROVE TypeOK'
  BY <1>1, McpAssumption DEF Call, TypeOK, Requests, Handshake, Places, Active,
     Writing, Ended, Stages, Entries, manVars, pipeVars, GoOn, End
<1>2. ASSUME NEW c \in Calls, TakeLock(c) PROVE TypeOK'
  BY <1>2, McpAssumption DEF TakeLock, TypeOK, Requests, Handshake, Places, Active,
     Writing, Ended, Stages, Entries, manVars, pipeVars, GoOn, End
<1>3. ASSUME NEW c \in Calls, Drop(c) PROVE TypeOK'
  BY <1>3, McpAssumption DEF Drop, TypeOK, Requests, Handshake, Places, Active,
     Writing, Ended, Stages, Entries, manVars, pipeVars, GoOn, End
<1>4. ASSUME NEW r \in Requests, Register(r) PROVE TypeOK'
  BY <1>4, McpAssumption DEF Register, TypeOK, Requests, Handshake, Places, Active,
     Writing, Ended, Stages, Entries, manVars, pipeVars, GoOn, End
<1>5. ASSUME NEW r \in Requests, WriteFails(r) PROVE TypeOK'
  BY <1>5, McpAssumption DEF WriteFails, TypeOK, Requests, Handshake, Places, Active,
     Writing, Ended, Stages, Entries, manVars, pipeVars, GoOn, End
<1>6. ASSUME NEW r \in Requests, TimeOut(r) PROVE TypeOK'
  BY <1>6, McpAssumption DEF TimeOut, TypeOK, Requests, Handshake, Places, Active,
     Writing, Ended, Stages, Entries, manVars, pipeVars, GoOn, End
<1>7. ASSUME NEW r \in Requests, GiveUp(r) PROVE TypeOK'
  BY <1>7, McpAssumption DEF GiveUp, Forget, TypeOK, Requests, Handshake, Places,
     Active, Writing, Ended, Stages, Entries, manVars, pipeVars, GoOn, End
<1>8. ASSUME NEW r \in Requests, Receive(r) PROVE TypeOK'
  BY <1>8, McpAssumption DEF Receive, TypeOK, Requests, Handshake, Places, Active,
     Writing, Ended, Stages, Entries, manVars, pipeVars, GoOn, End
<1>9. ASSUME NEW r \in Requests, BeginLine(r) PROVE TypeOK'
  BY <1>9, McpAssumption DEF BeginLine, TypeOK, Requests, Handshake, Places, Active,
     Writing, Ended, Stages, Entries, manVars, pipeVars, GoOn, End
<1>10. ASSUME NEW r \in Requests, EndLine(r) PROVE TypeOK'
  BY <1>10, McpAssumption DEF EndLine, Entry, TypeOK, Requests, Handshake, Places,
     Active, Writing, Ended, Stages, Entries, manVars, pipeVars, GoOn, End
<1>11. ASSUME NEW r \in Requests, Flush(r) PROVE TypeOK'
  BY <1>11, McpAssumption DEF Flush, TypeOK, Requests, Handshake, Places, Active,
     Writing, Ended, Stages, Entries, manVars, pipeVars, GoOn, End
<1>12. ASSUME NEW e \in served, Dispatch(e) PROVE TypeOK'
  BY <1>12, McpAssumption DEF Dispatch, Deliver, TypeOK, Requests, Handshake, Places, Active,
     Writing, Ended, Stages, Entries, manVars, pipeVars, GoOn, End
<1>12a. ASSUME NEW n \in ServerIds, DispatchRequest(n) PROVE TypeOK'
  BY <1>12a, McpAssumption DEF DispatchRequest, Deliver, TypeOK, Requests, Handshake, Places, Active,
     Writing, Ended, Stages, Entries, manVars, pipeVars, GoOn, End
<1>13. CASE ServerDies
  BY <1>13, McpAssumption DEF ServerDies, TypeOK, Requests, Handshake, Places, Active,
     Writing, Ended, Stages, Entries, manVars, pipeVars, GoOn, End
<1>14. CASE ReaderExits
  BY <1>14, McpAssumption DEF ReaderExits, CloseMail, TypeOK, Requests, Handshake,
     Places, Active, Writing, Ended, Stages, Entries, manVars, pipeVars, GoOn, End
<1>15. ASSUME NEW w \in {"connect", "disconnect"}, Ask(w) PROVE TypeOK'
  BY <1>15, McpAssumption DEF Ask, TypeOK, Requests, Handshake, Places, Active,
     Writing, Ended, Stages, Entries, manVars, pipeVars, GoOn, End
<1>16. CASE ManagerLocks
  BY <1>16, McpAssumption DEF ManagerLocks, TypeOK, Requests, Handshake, Places,
     Active, Writing, Ended, Stages, Entries, manVars, pipeVars, GoOn, End
<1>17. CASE DropClient
  <2>1. mail' \in [Requests -> Requests \cup {NoOne, Closed, Null}]
    BY <1>17, ClosedMail DEF DropClient, Disconnect
  <2>2. /\ line' \in Seq(Requests) /\ served' \subseteq Entries /\ pending' \subseteq Entries
        /\ alive' \in BOOLEAN /\ reading' \in BOOLEAN
    <3>1. <<>> \in Seq(Requests)  OBVIOUS
    <3>2. QED  BY <1>17, <3>1 DEF DropClient, Disconnect
  <2>3. /\ man' \in Stages /\ tries' \in Nat
        /\ lock' \in Calls \cup {Manager, NoOne} /\ known' \in BOOLEAN
    BY <1>17 DEF DropClient, TypeOK, Stages
  <2>4. QED  BY <1>17, <2>1, <2>2, <2>3 DEF DropClient, TypeOK
<1>18. CASE Connect
  BY <1>18, McpAssumption DEF Connect, TypeOK, Requests, Handshake, Places, Active,
     Writing, Ended, Stages, Entries, manVars, pipeVars, GoOn, End
<1>19. CASE ConnectFails
  <2>1. mail' \in [Requests -> Requests \cup {NoOne, Closed, Null}]
    BY <1>19, ClosedMail DEF ConnectFails, Disconnect
  <2>2. /\ line' \in Seq(Requests) /\ served' \subseteq Entries /\ pending' \subseteq Entries
        /\ alive' \in BOOLEAN /\ reading' \in BOOLEAN
    <3>1. <<>> \in Seq(Requests)  OBVIOUS
    <3>2. QED  BY <1>19, <3>1 DEF ConnectFails, Disconnect
  <2>3. /\ man' \in Stages /\ tries' \in Nat
        /\ lock' \in Calls \cup {Manager, NoOne} /\ known' \in BOOLEAN
    BY <1>19 DEF ConnectFails, TypeOK, Stages
  <2>4. QED  BY <1>19, <2>1, <2>2, <2>3 DEF ConnectFails, TypeOK
<1>20. CASE Initialized
  BY <1>20, McpAssumption DEF Initialized, TypeOK, Requests, Handshake, Places,
     Active, Writing, Ended, Stages, Entries, manVars, pipeVars, GoOn, End
<1>21. CASE Connected
  BY <1>21, McpAssumption DEF Connected, TypeOK, Requests, Handshake, Places, Active,
     Writing, Ended, Stages, Entries, manVars, pipeVars, GoOn, End
<1>22. CASE Notify
  BY <1>22, McpAssumption DEF Notify, TypeOK, Requests, Handshake, Places, Active,
     Writing, Ended, Stages, Entries, manVars, pipeVars, GoOn, End
<1>23. CASE UNCHANGED vars
  BY <1>23 DEF vars, manVars, pipeVars, TypeOK, Requests, Handshake, Places, Active,
     Writing, Ended, Stages, Entries, manVars, pipeVars, GoOn, End
<1>24. QED
  BY <1>1, <1>2, <1>3, <1>4, <1>5, <1>6, <1>7, <1>8, <1>9, <1>10, <1>11, <1>12, <1>12a,
     <1>13, <1>14, <1>15, <1>16, <1>17, <1>18, <1>19, <1>20, <1>21, <1>22, <1>23 DEF Next,
     Awaited, Write, Connecting

-----------------------------------------------------------------------------
(* The mutex.                                                              *)

LEMMA LocksStep ==
  ASSUME TypeOK, LocksOK, [Next]_vars
  PROVE  LocksOK'
<1>1. ASSUME NEW c \in Calls, Call(c) PROVE LocksOK'
  BY <1>1, McpAssumption DEF Call, LocksOK, Busy, Operating, TypeOK, Requests,
     Handshake, Active, Writing, Ended, manVars, pipeVars, GoOn, End
<1>2. ASSUME NEW c \in Calls, TakeLock(c) PROVE LocksOK'
  BY <1>2, McpAssumption DEF TakeLock, LocksOK, Busy, Operating, TypeOK, Requests,
     Handshake, Active, Writing, Ended, manVars, pipeVars, GoOn, End
<1>3. ASSUME NEW c \in Calls, Drop(c) PROVE LocksOK'
  BY <1>3, McpAssumption DEF Drop, LocksOK, Busy, Operating, TypeOK, Requests,
     Handshake, Active, Writing, Ended, manVars, pipeVars, GoOn, End
<1>4. ASSUME NEW r \in Requests, Register(r) PROVE LocksOK'
  BY <1>4, McpAssumption DEF Register, LocksOK, Busy, Operating, TypeOK, Requests,
     Handshake, Active, Writing, Ended, manVars, pipeVars, GoOn, End
<1>5. ASSUME NEW r \in Requests, WriteFails(r) PROVE LocksOK'
  BY <1>5, McpAssumption DEF WriteFails, LocksOK, Busy, Operating, TypeOK, Requests,
     Handshake, Active, Writing, Ended, manVars, pipeVars, GoOn, End
<1>6. ASSUME NEW r \in Requests, TimeOut(r) PROVE LocksOK'
  BY <1>6, McpAssumption DEF TimeOut, LocksOK, Busy, Operating, TypeOK, Requests,
     Handshake, Active, Writing, Ended, manVars, pipeVars, GoOn, End
<1>7. ASSUME NEW r \in Requests, GiveUp(r) PROVE LocksOK'
  BY <1>7, McpAssumption DEF GiveUp, Forget, LocksOK, Busy, Operating, TypeOK,
     Requests, Handshake, Active, Writing, Ended, manVars, pipeVars, GoOn, End
<1>8. ASSUME NEW r \in Requests, Receive(r) PROVE LocksOK'
  BY <1>8, McpAssumption DEF Receive, LocksOK, Busy, Operating, TypeOK, Requests,
     Handshake, Active, Writing, Ended, manVars, pipeVars, GoOn, End
<1>9. ASSUME NEW r \in Requests, BeginLine(r) PROVE LocksOK'
  BY <1>9, McpAssumption DEF BeginLine, LocksOK, Busy, Operating, TypeOK, Requests,
     Handshake, Active, Writing, Ended, manVars, pipeVars, GoOn, End
<1>10. ASSUME NEW r \in Requests, EndLine(r) PROVE LocksOK'
  BY <1>10, McpAssumption DEF EndLine, LocksOK, Busy, Operating, TypeOK, Requests,
     Handshake, Active, Writing, Ended, manVars, pipeVars, GoOn, End
<1>11. ASSUME NEW r \in Requests, Flush(r) PROVE LocksOK'
  BY <1>11, McpAssumption DEF Flush, LocksOK, Busy, Operating, TypeOK, Requests,
     Handshake, Active, Writing, Ended, manVars, pipeVars, GoOn, End
<1>12. ASSUME NEW e \in served, Dispatch(e) PROVE LocksOK'
  BY <1>12, McpAssumption DEF Dispatch, Deliver, LocksOK, Busy, Operating, TypeOK, Requests,
     Handshake, Active, Writing, Ended, manVars, pipeVars, GoOn, End
<1>12a. ASSUME NEW n \in ServerIds, DispatchRequest(n) PROVE LocksOK'
  BY <1>12a, McpAssumption DEF DispatchRequest, Deliver, LocksOK, Busy, Operating, TypeOK, Requests,
     Handshake, Active, Writing, Ended, manVars, pipeVars, GoOn, End
<1>13. CASE ServerDies
  BY <1>13, McpAssumption DEF ServerDies, LocksOK, Busy, Operating, TypeOK, Requests,
     Handshake, Active, Writing, Ended, manVars, pipeVars, GoOn, End
<1>14. CASE ReaderExits
  BY <1>14, McpAssumption DEF ReaderExits, LocksOK, Busy, Operating, TypeOK, Requests,
     Handshake, Active, Writing, Ended, manVars, pipeVars, GoOn, End
<1>15. ASSUME NEW w \in {"connect", "disconnect"}, Ask(w) PROVE LocksOK'
  BY <1>15, McpAssumption DEF Ask, LocksOK, Busy, Operating, TypeOK, Requests,
     Handshake, Active, Writing, Ended, manVars, pipeVars, GoOn, End
<1>16. CASE ManagerLocks
  BY <1>16, McpAssumption DEF ManagerLocks, LocksOK, Busy, Operating, TypeOK,
     Requests, Handshake, Active, Writing, Ended, manVars, pipeVars, GoOn, End
<1>17. CASE DropClient
  BY <1>17, McpAssumption DEF DropClient, Disconnect, LocksOK, Busy, Operating,
     TypeOK, Requests, Handshake, Active, Writing, Ended, manVars, pipeVars, GoOn, End
<1>18. CASE Connect
  BY <1>18, McpAssumption DEF Connect, LocksOK, Busy, Operating, TypeOK, Requests,
     Handshake, Active, Writing, Ended, manVars, pipeVars, GoOn, End
<1>19. CASE ConnectFails
  BY <1>19, McpAssumption DEF ConnectFails, Disconnect, LocksOK, Busy, Operating,
     TypeOK, Requests, Handshake, Active, Writing, Ended, manVars, pipeVars, GoOn, End
<1>20. CASE Initialized
  BY <1>20, McpAssumption DEF Initialized, LocksOK, Busy, Operating, TypeOK, Requests,
     Handshake, Active, Writing, Ended, manVars, pipeVars, GoOn, End
<1>21. CASE Connected
  BY <1>21, McpAssumption DEF Connected, LocksOK, Busy, Operating, TypeOK, Requests,
     Handshake, Active, Writing, Ended, manVars, pipeVars, GoOn, End
<1>22. CASE Notify
  BY <1>22, McpAssumption DEF Notify, LocksOK, Busy, Operating, TypeOK, Requests,
     Handshake, Active, Writing, Ended, manVars, pipeVars, GoOn, End
<1>23. CASE UNCHANGED vars
  BY <1>23 DEF vars, manVars, pipeVars, LocksOK, Busy, Operating, TypeOK, Requests,
     Handshake, Active, Writing, Ended, manVars, pipeVars, GoOn, End
<1>24. QED
  BY <1>1, <1>2, <1>3, <1>4, <1>5, <1>6, <1>7, <1>8, <1>9, <1>10, <1>11, <1>12, <1>12a,
     <1>13, <1>14, <1>15, <1>16, <1>17, <1>18, <1>19, <1>20, <1>21, <1>22, <1>23 DEF Next,
     Awaited, Write, Connecting

LEMMA OneIsBusy ==
  ASSUME LocksOK, NEW r \in Requests, NEW s \in Requests, at[r] \in Busy, at[s] \in Busy
  PROVE  r = s
BY McpAssumption DEF LocksOK, Requests, Handshake, Operating

LEMMA ManagerIsAlone ==
  ASSUME LocksOK, man \in {"drop", "connect", "notify"}, NEW r \in Requests
  PROVE  at[r] \notin Busy
BY McpAssumption DEF LocksOK, Requests, Handshake, Operating

-----------------------------------------------------------------------------
(* Identifiers.                                                            *)

\* No request begins to be at work, or becomes new again.
NoneBegins ==
  \A r \in Requests :
    /\ at'[r] \in Before => at[r] \in Before
    /\ at'[r] \in Active => at[r] \in Active

\* But for a new connection, and a request that is entered.
Begins == NoneBegins \/ Connect \/ \E r \in Requests : Register(r)

LEMMA WhoBegins ==
  ASSUME TypeOK, LocksOK, [Next]_vars
  PROVE  Begins
<1>1. ASSUME NEW c \in Calls, Call(c) PROVE Begins
  BY <1>1, McpAssumption DEF Call, Begins, NoneBegins, Before, Active, Writing, Ended,
     TypeOK, LocksOK, Requests, Handshake, GoOn, End, manVars, pipeVars
<1>2. ASSUME NEW c \in Calls, TakeLock(c) PROVE Begins
  BY <1>2, McpAssumption DEF TakeLock, Begins, NoneBegins, Before, Active, Writing,
     Ended, TypeOK, LocksOK, Requests, Handshake, GoOn, End, manVars, pipeVars
<1>3. ASSUME NEW c \in Calls, Drop(c) PROVE Begins
  BY <1>3, McpAssumption DEF Drop, Begins, NoneBegins, Before, Active, Writing, Ended,
     TypeOK, LocksOK, Requests, Handshake, GoOn, End, manVars, pipeVars
<1>4. ASSUME NEW r \in Requests, Register(r) PROVE Begins
  BY <1>4 DEF Begins
<1>5. ASSUME NEW r \in Requests, WriteFails(r) PROVE Begins
  BY <1>5, McpAssumption DEF WriteFails, Begins, NoneBegins, Before, Active, Writing,
     Ended, TypeOK, LocksOK, Requests, Handshake, GoOn, End, manVars, pipeVars
<1>6. ASSUME NEW r \in Requests, TimeOut(r) PROVE Begins
  BY <1>6, McpAssumption DEF TimeOut, Begins, NoneBegins, Before, Active, Writing,
     Ended, TypeOK, LocksOK, Requests, Handshake, GoOn, End, manVars, pipeVars
<1>7. ASSUME NEW r \in Requests, GiveUp(r) PROVE Begins
  BY <1>7, McpAssumption DEF GiveUp, Forget, Begins, NoneBegins, Before, Active,
     Writing, Ended, TypeOK, LocksOK, Requests, Handshake, GoOn, End, manVars,
     pipeVars
<1>8. ASSUME NEW r \in Requests, Receive(r) PROVE Begins
  BY <1>8, McpAssumption DEF Receive, Begins, NoneBegins, Before, Active, Writing,
     Ended, TypeOK, LocksOK, Requests, Handshake, GoOn, End, manVars, pipeVars
<1>9. ASSUME NEW r \in Requests, BeginLine(r) PROVE Begins
  BY <1>9, McpAssumption DEF BeginLine, Begins, NoneBegins, Before, Active, Writing,
     Ended, TypeOK, LocksOK, Requests, Handshake, GoOn, End, manVars, pipeVars
<1>10. ASSUME NEW r \in Requests, EndLine(r) PROVE Begins
  BY <1>10, McpAssumption DEF EndLine, Begins, NoneBegins, Before, Active, Writing,
     Ended, TypeOK, LocksOK, Requests, Handshake, GoOn, End, manVars, pipeVars
<1>11. ASSUME NEW r \in Requests, Flush(r) PROVE Begins
  BY <1>11, McpAssumption DEF Flush, Begins, NoneBegins, Before, Active, Writing,
     Ended, TypeOK, LocksOK, Requests, Handshake, GoOn, End, manVars, pipeVars
<1>12. ASSUME NEW e \in served, Dispatch(e) PROVE Begins
  BY <1>12, McpAssumption DEF Dispatch, Deliver, Begins, NoneBegins, Before, Active, Writing,
     Ended, TypeOK, LocksOK, Requests, Handshake, GoOn, End, manVars, pipeVars
<1>12a. ASSUME NEW n \in ServerIds, DispatchRequest(n) PROVE Begins
  BY <1>12a, McpAssumption DEF DispatchRequest, Deliver, Begins, NoneBegins, Before, Active, Writing,
     Ended, TypeOK, LocksOK, Requests, Handshake, GoOn, End, manVars, pipeVars
<1>13. CASE ServerDies
  BY <1>13, McpAssumption DEF ServerDies, Begins, NoneBegins, Before, Active, Writing,
     Ended, TypeOK, LocksOK, Requests, Handshake, GoOn, End, manVars, pipeVars
<1>14. CASE ReaderExits
  BY <1>14, McpAssumption DEF ReaderExits, CloseMail, Begins, NoneBegins, Before,
     Active, Writing, Ended, TypeOK, LocksOK, Requests, Handshake, GoOn, End, manVars,
     pipeVars
<1>15. ASSUME NEW w \in {"connect", "disconnect"}, Ask(w) PROVE Begins
  BY <1>15, McpAssumption DEF Ask, Begins, NoneBegins, Before, Active, Writing, Ended,
     TypeOK, LocksOK, Requests, Handshake, GoOn, End, manVars, pipeVars
<1>16. CASE ManagerLocks
  BY <1>16, McpAssumption DEF ManagerLocks, Begins, NoneBegins, Before, Active,
     Writing, Ended, TypeOK, LocksOK, Requests, Handshake, GoOn, End, manVars,
     pipeVars
<1>17. CASE DropClient
  BY <1>17, McpAssumption DEF DropClient, Disconnect, Begins, NoneBegins, Before,
     Active, Writing, Ended, TypeOK, LocksOK, Requests, Handshake, GoOn, End, manVars,
     pipeVars
<1>18. CASE Connect
  BY <1>18 DEF Begins
<1>19. CASE ConnectFails
  BY <1>19, McpAssumption DEF ConnectFails, Disconnect, Begins, NoneBegins, Before,
     Active, Writing, Ended, TypeOK, LocksOK, Requests, Handshake, GoOn, End, manVars,
     pipeVars
<1>20. CASE Initialized
  BY <1>20, McpAssumption DEF Initialized, Begins, NoneBegins, Before, Active,
     Writing, Ended, TypeOK, LocksOK, Requests, Handshake, GoOn, End, manVars,
     pipeVars
<1>21. CASE Connected
  BY <1>21, McpAssumption DEF Connected, Begins, NoneBegins, Before, Active, Writing,
     Ended, TypeOK, LocksOK, Requests, Handshake, GoOn, End, manVars, pipeVars
<1>22. CASE Notify
  BY <1>22, McpAssumption DEF Notify, Begins, NoneBegins, Before, Active, Writing,
     Ended, TypeOK, LocksOK, Requests, Handshake, GoOn, End, manVars, pipeVars
<1>23. CASE UNCHANGED vars
  BY <1>23 DEF vars, manVars, pipeVars, Begins, NoneBegins, Before, Active, Writing,
     Ended, TypeOK, LocksOK, Requests, Handshake, GoOn, End, manVars, pipeVars
<1>24. QED
  BY <1>1, <1>2, <1>3, <1>4, <1>5, <1>6, <1>7, <1>8, <1>9, <1>10, <1>11, <1>12, <1>12a,
     <1>13, <1>14, <1>15, <1>16, <1>17, <1>18, <1>19, <1>20, <1>21, <1>22, <1>23 DEF Next,
     Awaited, Write, Connecting

NoneSent ==
  /\ Sent' \subseteq Sent /\ next' = next /\ id' = id
  /\ man' = "connect" => Sent' = {}

\* But for these and what the server reads, nothing new is sent or entered.
Sends == NoneSent \/ Connect \/ \E r \in Requests : Register(r) \/ EndLine(r)

LEMMA WhatIsSent ==
  ASSUME EntriesOK, [Next]_vars
  PROVE  Sends
<1>1. ASSUME NEW c \in Calls, Call(c) PROVE Sends
  BY <1>1 DEF Call, Sends, NoneSent, EntriesOK, Sent, manVars, pipeVars, GoOn, End
<1>2. ASSUME NEW c \in Calls, TakeLock(c) PROVE Sends
  BY <1>2 DEF TakeLock, Sends, NoneSent, EntriesOK, Sent, manVars, pipeVars, GoOn, End
<1>3. ASSUME NEW c \in Calls, Drop(c) PROVE Sends
  BY <1>3 DEF Drop, Sends, NoneSent, EntriesOK, Sent, manVars, pipeVars, GoOn, End
<1>4. ASSUME NEW r \in Requests, Register(r) PROVE Sends
  BY <1>4 DEF Sends
<1>5. ASSUME NEW r \in Requests, WriteFails(r) PROVE Sends
  BY <1>5 DEF WriteFails, Sends, NoneSent, EntriesOK, Sent, manVars, pipeVars, GoOn,
     End
<1>6. ASSUME NEW r \in Requests, TimeOut(r) PROVE Sends
  BY <1>6 DEF TimeOut, Sends, NoneSent, EntriesOK, Sent, manVars, pipeVars, GoOn, End
<1>7. ASSUME NEW r \in Requests, GiveUp(r) PROVE Sends
  BY <1>7 DEF GiveUp, Forget, Sends, NoneSent, EntriesOK, Sent, manVars, pipeVars,
     GoOn, End
<1>8. ASSUME NEW r \in Requests, Receive(r) PROVE Sends
  BY <1>8 DEF Receive, Sends, NoneSent, EntriesOK, Sent, manVars, pipeVars, GoOn, End
<1>9. ASSUME NEW r \in Requests, BeginLine(r) PROVE Sends
  BY <1>9 DEF BeginLine, Sends, NoneSent, EntriesOK, Sent, manVars, pipeVars, GoOn,
     End
<1>10. ASSUME NEW r \in Requests, EndLine(r) PROVE Sends
  BY <1>10 DEF Sends
<1>11. ASSUME NEW r \in Requests, Flush(r) PROVE Sends
  BY <1>11 DEF Flush, Sends, NoneSent, EntriesOK, Sent, manVars, pipeVars, GoOn, End
<1>12. ASSUME NEW e \in served, Dispatch(e) PROVE Sends
  BY <1>12 DEF Dispatch, Deliver, Sends, NoneSent, EntriesOK, Sent, manVars, pipeVars, GoOn,
     End
<1>12a. ASSUME NEW n \in ServerIds, DispatchRequest(n) PROVE Sends
  BY <1>12a DEF DispatchRequest, Deliver, Sends, NoneSent, EntriesOK, Sent, manVars, pipeVars, GoOn,
     End
<1>13. CASE ServerDies
  BY <1>13 DEF ServerDies, Sends, NoneSent, EntriesOK, Sent, manVars, pipeVars, GoOn,
     End
<1>14. CASE ReaderExits
  BY <1>14 DEF ReaderExits, CloseMail, Sends, NoneSent, EntriesOK, Sent, manVars,
     pipeVars, GoOn, End
<1>15. ASSUME NEW w \in {"connect", "disconnect"}, Ask(w) PROVE Sends
  BY <1>15 DEF Ask, Sends, NoneSent, EntriesOK, Sent, manVars, pipeVars, GoOn, End
<1>16. CASE ManagerLocks
  BY <1>16 DEF ManagerLocks, Sends, NoneSent, EntriesOK, Sent, manVars, pipeVars,
     GoOn, End
<1>17. CASE DropClient
  BY <1>17 DEF DropClient, Disconnect, Sends, NoneSent, EntriesOK, Sent, manVars,
     pipeVars, GoOn, End
<1>18. CASE Connect
  BY <1>18 DEF Sends
<1>19. CASE ConnectFails
  BY <1>19 DEF ConnectFails, Disconnect, Sends, NoneSent, EntriesOK, Sent, manVars,
     pipeVars, GoOn, End
<1>20. CASE Initialized
  BY <1>20 DEF Initialized, Sends, NoneSent, EntriesOK, Sent, manVars, pipeVars, GoOn,
     End
<1>21. CASE Connected
  BY <1>21 DEF Connected, Sends, NoneSent, EntriesOK, Sent, manVars, pipeVars, GoOn,
     End
<1>22. CASE Notify
  BY <1>22 DEF Notify, Sends, NoneSent, EntriesOK, Sent, manVars, pipeVars, GoOn, End
<1>23. CASE UNCHANGED vars
  BY <1>23 DEF vars, manVars, pipeVars, Sends, NoneSent, EntriesOK, Sent, manVars,
     pipeVars, GoOn, End
<1>24. QED
  BY <1>1, <1>2, <1>3, <1>4, <1>5, <1>6, <1>7, <1>8, <1>9, <1>10, <1>11, <1>12, <1>12a,
     <1>13, <1>14, <1>15, <1>16, <1>17, <1>18, <1>19, <1>20, <1>21, <1>22, <1>23 DEF Next,
     Awaited, Write, Connecting

LEMMA EntriesStep ==
  ASSUME TypeOK, LocksOK, EntriesOK, [Next]_vars
  PROVE  EntriesOK'
<1>1. ASSUME NoneBegins, NoneSent PROVE EntriesOK'
  <2>1. \A e \in Sent' : e.of \in Requests
    BY <1>1 DEF NoneSent, Sent, TypeOK, Entries
  <2>2. QED  BY <1>1, <2>1 DEF EntriesOK, NoneBegins, NoneSent
<1>2. ASSUME NEW r \in Requests, Register(r) PROVE EntriesOK'
  <2>1. /\ id'[r] = next /\ next' = next + 1 /\ at'[r] = "write" /\ next \in Nat
        /\ \A s \in Requests : s # r => at'[s] = at[s] /\ id'[s] = id[s]
        /\ at[r] = "ready" /\ man' = man
    BY <1>2 DEF Register, GoOn, TypeOK, manVars
  <2>2. Sent' = Sent \cup {[id |-> next, of |-> r]}
    <3>1. \A e \in pending : e.id # next
      BY <2>1 DEF EntriesOK, Sent, TypeOK, Entries
    <3>2. QED  BY <1>2, <3>1 DEF Register, Sent, pipeVars
  <2>3. \A e \in Sent : e.of \in Requests /\ e.of # r /\ e.id < next /\ e.id \in Nat
    BY <2>1 DEF EntriesOK, Before, Sent, TypeOK, Entries
  <2>4. \A s \in Requests : s # r => at[s] \notin Active
    BY <2>1, OneIsBusy DEF Busy
  <2>5. man # "connect"
    BY <2>1, ManagerIsAlone DEF Busy
  <2>6. \A e \in Sent' : e.id < next' /\ at'[e.of] \notin Before
    BY <2>1, <2>2, <2>3 DEF EntriesOK, Before
  <2>7. \A e, f \in Sent' : e.id = f.id => e.of = f.of
    BY <2>1, <2>2, <2>3 DEF EntriesOK
  <2>8. ASSUME NEW s \in Requests, at'[s] \in Active
        PROVE  id'[s] < next' /\ \A e \in Sent' : e.id = id'[s] <=> e.of = s
    <3>1. s = r  BY <2>1, <2>4, <2>8
    <3>2. QED  BY <2>1, <2>2, <2>3, <3>1
  <2>9. QED  BY <2>1, <2>5, <2>6, <2>7, <2>8 DEF EntriesOK
<1>3. ASSUME NEW r \in Requests, EndLine(r) PROVE EntriesOK'
  <2>1. /\ at[r] \in Active /\ r \in Requests
        /\ Sent' \subseteq Sent \cup {Entry(r)}
        /\ next' = next /\ id' = id /\ man' = man
    BY <1>3 DEF EndLine, Sent, Active, Writing, manVars
  <2>2. NoneBegins
    BY <1>3 DEF EndLine, NoneBegins, Before, Active, Writing, GoOn, TypeOK
  <2>3. man # "connect"
    BY <2>1, ManagerIsAlone DEF Busy
  <2>4. Entry(r).id = id[r] /\ Entry(r).of = r  BY DEF Entry
  <2>5. \A e \in Sent' : e.of \in Requests
    BY <2>1, <2>4 DEF Sent, TypeOK, Entries
  <2>6. at[r] \notin Before /\ id[r] < next
    BY <2>1 DEF EntriesOK, Before, Active, Writing
  <2>7. \A e \in Sent' : e.id < next' /\ at'[e.of] \notin Before
    BY <2>1, <2>2, <2>4, <2>5, <2>6 DEF EntriesOK, NoneBegins
  <2>8. \A e, f \in Sent' : e.id = f.id => e.of = f.of
    BY <2>1, <2>4 DEF EntriesOK
  <2>9. ASSUME NEW s \in Requests, at'[s] \in Active
        PROVE  id'[s] < next' /\ \A e \in Sent' : e.id = id'[s] <=> e.of = s
    <3>1. at[s] \in Active  BY <2>2, <2>9 DEF NoneBegins
    <3>2. s = r  BY <2>1, <3>1, OneIsBusy DEF Busy
    <3>3. QED  BY <2>1, <2>4, <3>1, <3>2 DEF EntriesOK
  <2>10. QED  BY <2>1, <2>3, <2>7, <2>8, <2>9 DEF EntriesOK
<1>4. CASE Connect
  <2>1. Sent = {} /\ Sent' = {} /\ man' = "initialize"
    BY <1>4 DEF Connect, EntriesOK, Sent
  <2>2. \A r \in Requests : at'[r] \notin Active
    <3>1. \A r \in Requests : at[r] \notin Active
      BY <1>4, ManagerIsAlone DEF Connect, Busy
    <3>2. QED
      BY <1>4, <3>1 DEF Connect, TypeOK, Requests, Handshake, Active, Writing
  <2>3. QED  BY <2>1, <2>2 DEF EntriesOK
<1>5. QED  BY <1>1, <1>2, <1>3, <1>4, WhoBegins, WhatIsSent DEF Begins, Sends

-----------------------------------------------------------------------------
(* Mail.                                                                   *)

\* What becomes of the mail.
Mails ==
  \/ UNCHANGED <<id, pending, mail, answered>>
  \/ CloseMail /\ UNCHANGED <<answered, id>>
  \/ \E r \in Requests : Register(r) \/ GiveUp(r)
  \/ \E e \in served : Dispatch(e)
  \/ \E n \in ServerIds : DispatchRequest(n)
  \/ Connect

LEMMA WhoMails ==
  ASSUME [Next]_vars
  PROVE  Mails
<1>1. ASSUME NEW c \in Calls, Call(c) PROVE Mails
  BY <1>1 DEF Call, Mails, manVars, pipeVars
<1>2. ASSUME NEW c \in Calls, TakeLock(c) PROVE Mails
  BY <1>2 DEF TakeLock, Mails, manVars, pipeVars
<1>3. ASSUME NEW c \in Calls, Drop(c) PROVE Mails
  BY <1>3 DEF Drop, Mails, manVars, pipeVars
<1>4. ASSUME NEW r \in Requests, Register(r) PROVE Mails
  BY <1>4 DEF Mails
<1>5. ASSUME NEW r \in Requests, WriteFails(r) PROVE Mails
  BY <1>5 DEF WriteFails, Mails, manVars, pipeVars
<1>6. ASSUME NEW r \in Requests, TimeOut(r) PROVE Mails
  BY <1>6 DEF TimeOut, Mails, manVars, pipeVars
<1>7. ASSUME NEW r \in Requests, GiveUp(r) PROVE Mails
  BY <1>7 DEF Mails
<1>8. ASSUME NEW r \in Requests, Receive(r) PROVE Mails
  BY <1>8 DEF Receive, Mails, manVars, pipeVars
<1>9. ASSUME NEW r \in Requests, BeginLine(r) PROVE Mails
  BY <1>9 DEF BeginLine, Mails, manVars, pipeVars
<1>10. ASSUME NEW r \in Requests, EndLine(r) PROVE Mails
  BY <1>10 DEF EndLine, Mails, manVars, pipeVars
<1>11. ASSUME NEW r \in Requests, Flush(r) PROVE Mails
  BY <1>11 DEF Flush, Mails, manVars, pipeVars
<1>12. ASSUME NEW e \in served, Dispatch(e) PROVE Mails
  BY <1>12 DEF Mails
<1>12a. ASSUME NEW n \in ServerIds, DispatchRequest(n) PROVE Mails
  BY <1>12a DEF Mails
<1>13. CASE ServerDies
  BY <1>13 DEF ServerDies, Mails, manVars, pipeVars
<1>14. CASE ReaderExits
  BY <1>14 DEF ReaderExits, Mails, manVars, pipeVars
<1>15. ASSUME NEW w \in {"connect", "disconnect"}, Ask(w) PROVE Mails
  BY <1>15 DEF Ask, Mails, manVars, pipeVars
<1>16. CASE ManagerLocks
  BY <1>16 DEF ManagerLocks, Mails, manVars, pipeVars
<1>17. CASE DropClient
  BY <1>17 DEF DropClient, Disconnect, Mails, manVars, pipeVars
<1>18. CASE Connect
  BY <1>18 DEF Mails
<1>19. CASE ConnectFails
  BY <1>19 DEF ConnectFails, Disconnect, Mails, manVars, pipeVars
<1>20. CASE Initialized
  BY <1>20 DEF Initialized, Mails, manVars, pipeVars
<1>21. CASE Connected
  BY <1>21 DEF Connected, Mails, manVars, pipeVars
<1>22. CASE Notify
  BY <1>22 DEF Notify, Mails, manVars, pipeVars
<1>23. CASE UNCHANGED vars
  BY <1>23 DEF vars, manVars, pipeVars, Mails, manVars, pipeVars
<1>24. QED
  BY <1>1, <1>2, <1>3, <1>4, <1>5, <1>6, <1>7, <1>8, <1>9, <1>10, <1>11, <1>12, <1>12a,
     <1>13, <1>14, <1>15, <1>16, <1>17, <1>18, <1>19, <1>20, <1>21, <1>22, <1>23 DEF Next,
     Awaited, Write, Connecting

LEMMA MailStep ==
  ASSUME TypeOK, LocksOK, EntriesOK, MailOK, AnswersAreOwn, [Next]_vars
  PROVE  MailOK' /\ AnswersAreOwn'
<1> DEFINE Own(r) ==
             /\ mail[r] \in Requests => mail[r] = r
             /\ at[r] \in Active /\ mail[r] = Null => id[r] \in ServerIds
           Gets(r) == r \in answered /\ at[r] \in Active => mail[r] # NoOne
           Waits(r) == at[r] \in Active /\ mail[r] = NoOne => Entry(r) \in pending
           Begun(r) == /\ r \in answered => at[r] \notin Before
                       /\ at[r] \in Before => mail[r] = NoOne
<1>1. SUFFICES ASSUME NEW r \in Requests
               PROVE  Own(r)' /\ Gets(r)' /\ Waits(r)' /\ Begun(r)'
  <2>1. TypeOK'  BY TypeStep
  <2>2. QED  BY <1>1, <2>1 DEF MailOK, AnswersAreOwn, TypeOK
<1>2. Own(r) /\ Gets(r) /\ Waits(r) /\ Begun(r)
  BY DEF MailOK, AnswersAreOwn
<1>3. CASE Connect
  <2>1. \A s \in Requests : at[s] \notin Active
    BY <1>3, ManagerIsAlone DEF Connect, Busy
  <2>2. at'[r] \notin Active
    BY <1>3, <2>1 DEF Connect, TypeOK, Active, Writing
  <2>3. mail'[r] = mail[r] \/ mail'[r] = NoOne
    BY <1>3 DEF Connect, TypeOK
  <2>4. /\ r \in answered' => r \in answered /\ at'[r] = at[r]
        /\ mail'[r] = NoOne \/ (at'[r] = at[r] /\ mail'[r] = mail[r])
    BY <1>3 DEF Connect, TypeOK, Handshake
  <2>5. QED  BY <1>2, <2>2, <2>3, <2>4, McpAssumption
<1>4. ASSUME NEW s \in Requests, Register(s)
      PROVE  Own(r)' /\ Gets(r)' /\ Waits(r)' /\ Begun(r)'
  <2>1. /\ at[s] = "ready" /\ at'[s] = "write" /\ id'[s] = next
        /\ mail' = mail /\ answered' = answered
        /\ [id |-> next, of |-> s] \in pending'
    BY <1>4 DEF Register, GoOn, TypeOK
  <2>2. CASE r = s
    BY <1>2, <2>1, <2>2, McpAssumption DEF Before, Entry
  <2>3. CASE r # s
    <3>1. at'[r] = at[r]  BY <1>4, <2>3 DEF Register, GoOn, TypeOK
    <3>2. at[r] \notin Active  BY <2>1, <2>3, OneIsBusy DEF Busy
    <3>3. QED  BY <1>2, <2>1, <3>1, <3>2
  <2>4. QED  BY <2>2, <2>3
<1>5. ASSUME NoneBegins, UNCHANGED <<id, pending, mail, answered>>
      PROVE  Own(r)' /\ Gets(r)' /\ Waits(r)' /\ Begun(r)'
  BY <1>2, <1>5 DEF NoneBegins, Entry
<1>6. ASSUME NoneBegins, CloseMail, UNCHANGED <<answered, id>>
      PROVE  Own(r)' /\ Gets(r)' /\ Waits(r)' /\ Begun(r)'
  <2>1. mail'[r] = IF \E e \in pending : e.of = r THEN Closed ELSE mail[r]
    BY <1>6 DEF CloseMail
  <2>2. at[r] \in Active => mail'[r] # NoOne
    BY <1>2, <2>1, McpAssumption DEF Entry
  <2>3. at[r] \in Before => \A e \in pending : e.of # r
    BY DEF EntriesOK, Sent
  <2>4. QED  BY <1>2, <1>6, <2>1, <2>2, <2>3, McpAssumption DEF NoneBegins
<1>7. ASSUME NEW s \in Requests, GiveUp(s)
      PROVE  Own(r)' /\ Gets(r)' /\ Waits(r)' /\ Begun(r)'
  <2>1. /\ at[s] \in Active /\ at'[s] = "failed"
        /\ id' = id /\ mail' = mail /\ answered' = answered
    BY <1>7 DEF GiveUp, End, GoOn, TypeOK, Active, Writing
  <2>2. CASE r = s
    BY <1>2, <2>1, <2>2 DEF Before, Active, Writing
  <2>3. CASE r # s
    <3>1. at'[r] = at[r]  BY <1>7, <2>3 DEF GiveUp, End, GoOn, TypeOK
    <3>2. at[r] \notin Active  BY <2>1, <2>3, OneIsBusy DEF Busy
    <3>3. QED  BY <1>2, <2>1, <3>1, <3>2
  <2>4. QED  BY <2>2, <2>3
<1>8. ASSUME NEW e \in served, Dispatch(e)
      PROVE  Own(r)' /\ Gets(r)' /\ Waits(r)' /\ Begun(r)'
  <2>1. /\ mail'[r] = IF \E p \in pending : p.id = e.id /\ p.of = r THEN e.of ELSE mail[r]
        /\ pending' = {p \in pending : p.id # e.id}
        /\ answered' = answered \cup {e.of}
        /\ at' = at /\ id' = id
    BY <1>8 DEF Dispatch, Deliver
  <2>2. e \in Sent /\ e.of \in Requests
    BY DEF Sent, TypeOK, Entries
  <2>3. \A p \in pending : p.id = e.id => p.of = e.of
    BY <2>2 DEF EntriesOK, Sent
  <2>4. Own(r)'
    BY <1>2, <2>1, <2>2, <2>3, McpAssumption
  <2>5. Begun(r)'
    BY <1>2, <2>1, <2>2 DEF EntriesOK, Sent
  <2>6. ASSUME Entry(r) \in pending, Entry(r) \notin pending' PROVE mail'[r] # NoOne
    BY <2>1, <2>2, <2>6, McpAssumption DEF Entry
  <2>7. mail[r] # NoOne => mail'[r] # NoOne
    BY <2>1, <2>2, McpAssumption
  <2>8. Waits(r)'
    BY <1>2, <2>1, <2>6, <2>7 DEF Entry
  <2>9. ASSUME r = e.of, at[r] \in Active PROVE mail'[r] # NoOne
    <3>1. e.id = id[r]  BY <2>2, <2>9 DEF EntriesOK
    <3>2. CASE Entry(r) \in pending
      BY <2>1, <2>2, <3>1, <3>2, McpAssumption DEF Entry
    <3>3. CASE Entry(r) \notin pending
      BY <1>2, <2>7, <2>9, <3>3
    <3>4. QED  BY <3>2, <3>3
  <2>10. Gets(r)'
    BY <1>2, <2>1, <2>7, <2>9
  <2>11. QED  BY <2>4, <2>5, <2>8, <2>10
<1>9. ASSUME NEW n \in ServerIds, DispatchRequest(n)
      PROVE  Own(r)' /\ Gets(r)' /\ Waits(r)' /\ Begun(r)'
  <2>1. /\ mail'[r] = IF \E p \in pending : p.id = n /\ p.of = r THEN Null ELSE mail[r]
        /\ pending' = {p \in pending : p.id # n}
        /\ UNCHANGED <<answered, at, id>>
    BY <1>9 DEF DispatchRequest, Deliver
  <2>2. ASSUME at[r] \in Active, NEW p \in pending, p.of = r PROVE p.id = id[r]
    BY <2>2 DEF EntriesOK, Sent
  <2>3. Own(r)'
    BY <1>2, <2>1, <2>2, McpAssumption
  <2>4. mail[r] # NoOne => mail'[r] # NoOne
    BY <2>1, McpAssumption
  <2>5. ASSUME Entry(r) \in pending, Entry(r) \notin pending' PROVE mail'[r] # NoOne
    BY <2>1, <2>5, McpAssumption DEF Entry
  <2>6. Begun(r)'
    BY <1>2, <2>1 DEF EntriesOK, Sent
  <2>7. QED  BY <1>2, <2>1, <2>3, <2>4, <2>5, <2>6 DEF Entry
<1>10. QED
  BY <1>3, <1>4, <1>5, <1>6, <1>7, <1>8, <1>9, WhoBegins, WhoMails DEF Begins, Mails

-----------------------------------------------------------------------------
(* The theorems.                                                           *)

LEMMA McpInit == Init => McpInv
<1> SUFFICES ASSUME Init PROVE McpInv  OBVIOUS
<1>1. TypeOK
  BY McpAssumption
     DEF Init, TypeOK, Requests, Handshake, Places, Active, Writing, Ended, Stages, Entries
<1>2. /\ \A c \in Calls : at[c] = "new"
      /\ \A r \in Handshake : at[r] = "ok"
      /\ id[Initialize] = 1 /\ id[ListTools] = 2
  <2>1. \A c \in Calls : c \notin Handshake  BY McpAssumption
  <2>2. Requests = Calls \cup {Initialize, ListTools} /\ Handshake = {Initialize, ListTools}
    BY DEF Requests, Handshake
  <2>3. Initialize # ListTools  BY McpAssumption
  <2>4. QED  BY <2>1, <2>2, <2>3 DEF Init
<1>3. Requests = Calls \cup Handshake /\ Handshake = {Initialize, ListTools}
  BY DEF Requests, Handshake
<1>4. LocksOK
  <2>1. lock # Manager /\ man = "idle"
    BY McpAssumption DEF Init
  <2>2. QED  BY <1>2, <1>3, <2>1 DEF LocksOK, Busy, Active, Writing, Operating
<1>5. EntriesOK
  <2>1. Sent = {[id |-> 1, of |-> Initialize], [id |-> 2, of |-> ListTools]}
    BY <1>2, <1>3 DEF Init, Sent
  <2>2. next = 3 /\ man = "idle"  BY DEF Init
  <2>3. \A r \in Requests : at[r] \notin Active
    BY <1>2, <1>3 DEF Active, Writing
  <2>4. QED  BY <1>2, <1>3, <2>1, <2>2, <2>3 DEF EntriesOK, Before
<1>6. MailOK /\ AnswersAreOwn
  BY <1>2, <1>3, McpAssumption
     DEF Init, MailOK, AnswersAreOwn, Before, Active, Writing
<1>7. QED  BY <1>1, <1>4, <1>5, <1>6 DEF McpInv

\* The inductive invariant of the client, its manager and its server.
THEOREM Invariant == Spec => []McpInv
<1>1. Init => McpInv  BY McpInit
<1>2. McpInv /\ [Next]_vars => McpInv'
  BY TypeStep, LocksStep, EntriesStep, MailStep DEF McpInv
<1>3. QED  BY <1>1, <1>2, PTL DEF Spec

\* The state is of its type (TypeOK), whatever the server answers.
THEOREM McpTypeCorrect == Spec => []TypeOK
<1>1. McpInv => TypeOK  BY DEF McpInv
<1>2. QED  BY <1>1, Invariant, PTL

\* Every request gets its own answer, and none is missed (AnswersAreOwn), with any
\* number of calls, given up, dropped or answered twice, and of connections.
THEOREM AnswersAreTheirOwn == Spec => []AnswersAreOwn
<1>1. McpInv => AnswersAreOwn  BY DEF McpInv
<1>2. QED  BY <1>1, Invariant, PTL
=============================================================================
