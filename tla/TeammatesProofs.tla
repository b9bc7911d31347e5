-------------------------- MODULE TeammatesProofs --------------------------
(***************************************************************************)
(* Proofs about Teammates.  Mailbox is proved first, for its own steps;    *)
(* what the teammate and the others do to the mailbox is one of these.     *)
(***************************************************************************)
EXTENDS Teammates, FilterProofs

-----------------------------------------------------------------------------
(* What the writers make of the file.                                      *)

In(m, entries) == \E i \in DOMAIN entries : entries[i].msg = m

LEMMA AppendedEntries ==
  ASSUME NEW s \in Seq(Entries), NEW e \in Entries
  PROVE  /\ Append(s, e) \in Seq(Entries)
         /\ In(e.msg, Append(s, e))
         /\ \A m \in Messages : In(m, s) => In(m, Append(s, e))
<1>1. Append(s, e) \in Seq(Entries)  OBVIOUS
<1>2. /\ Len(Append(s, e)) = Len(s) + 1
      /\ DOMAIN Append(s, e) = 1 .. Len(s) + 1
      /\ DOMAIN s = 1 .. Len(s) /\ Len(s) \in Nat
      /\ \A i \in 1 .. Len(s) : Append(s, e)[i] = s[i]
      /\ Append(s, e)[Len(s) + 1] = e
  OBVIOUS
<1>3. In(e.msg, Append(s, e))  BY <1>2 DEF In
<1>4. \A m \in Messages : In(m, s) => In(m, Append(s, e))  BY <1>2 DEF In
<1>5. QED  BY <1>1, <1>3, <1>4

LEMMA MarkedEntries ==
  ASSUME NEW s \in Seq(Entries)
  PROVE  /\ Marked(s) \in Seq(Entries)
         /\ \A m \in Messages : In(m, s) => In(m, Marked(s))
<1>1. DOMAIN s = 1 .. Len(s) /\ Len(s) \in Nat /\ \A i \in DOMAIN s : s[i] \in Entries
  OBVIOUS
<1>2. \A i \in DOMAIN s : [s[i] EXCEPT !.read = TRUE] \in Entries
  BY <1>1 DEF Entries
<1>3. Marked(s) \in [1 .. Len(s) -> Entries]  BY <1>1, <1>2 DEF Marked
<1>4. Marked(s) \in Seq(Entries)  BY <1>1, <1>3
<1>5. \A i \in DOMAIN s : [s[i] EXCEPT !.read = TRUE].msg = s[i].msg
  BY <1>1 DEF Entries
<1>6. DOMAIN Marked(s) = DOMAIN s
      /\ \A i \in DOMAIN s : Marked(s)[i].msg = s[i].msg
  BY <1>5 DEF Marked
<1>7. \A m \in Messages : In(m, s) => In(m, Marked(s))  BY <1>6 DEF In
<1>8. QED  BY <1>4, <1>7

\* An edit keeps every message, and a sender's adds his own.
LEMMA EditsKeep ==
  ASSUME MailTypeOK, NEW p \in Users
  PROVE  /\ Edited(p) \in Seq(Entries)
         /\ \A m \in Messages : In(m, inbox) => In(m, Edited(p))
         /\ p \in Messages => In(p, Edited(p))
<1>1. inbox \in Seq(Entries)  BY DEF MailTypeOK
<1>2. CASE p = Runner
  BY <1>1, <1>2, MarkedEntries, MailAssumption DEF Edited
<1>3. CASE p # Runner
  <2>1. p \in Messages  BY <1>3 DEF Users
  <2>2. [msg |-> p, read |-> FALSE] \in Entries  BY <2>1 DEF Entries
  <2>3. QED  BY <1>1, <1>3, <2>1, <2>2, AppendedEntries DEF Edited
<1>4. QED  BY <1>2, <1>3

-----------------------------------------------------------------------------
(* The mailbox's own steps, and its inductive invariant.                   *)

MailStep ==
  \/ \E p \in Users : Want(p) \/ WithLock(p)
  \/ Return(Runner, "ok") \/ Return(Runner, "failed")
  \/ LockAges

Critical == {"locked", "write", "emptied", "unlock", "undo"}

\* As long as no lock was old, nobody breaks one, and who is under the lock has it.
LockKept ==
  /\ ~old /\ \A p \in Users : at[p] # "break"
  /\ \A p \in Users : at[p] \in Critical => lock = p

\* What is about to be written holds what is there, and the writer's message.
CopyKept ==
  \A p \in Users :
    /\ at[p] = "write" => \A m \in Messages : In(m, inbox) => In(m, copy[p])
    /\ at[p] \in {"write", "emptied"} /\ p \in Messages => In(p, copy[p])

\* A message that was written is there.
WrittenKept == \A m \in Messages : at[m] \in {"unlock", "ok"} => In(m, File)

MailInv == MailTypeOK /\ (aged = 0 => LockKept /\ CopyKept /\ WrittenKept)

LEMMA MailInvInit == MailInit => MailInv
<1> SUFFICES ASSUME MailInit PROVE MailInv  OBVIOUS
<1>1. MailTypeOK
  <2>1. <<>> \in Seq(Entries)  OBVIOUS
  <2>2. copy \in [Users -> Seq(Entries)]  BY <2>1 DEF MailInit
  <2>3. at \in [Users -> Places]  BY DEF MailInit, Places
  <2>4. inbox \in Seq(Entries) /\ garbled \in BOOLEAN /\ old \in BOOLEAN
    BY <2>1 DEF MailInit
  <2>5. lock \in Users \cup {NoOne} /\ aged \in 0 .. MaxOld
    BY MailAssumption DEF MailInit
  <2>6. QED  BY <2>2, <2>3, <2>4, <2>5 DEF MailTypeOK
<1>2. LockKept /\ CopyKept /\ WrittenKept
  BY DEF MailInit, LockKept, CopyKept, WrittenKept, Critical, Users
<1>3. QED  BY <1>1, <1>2 DEF MailInv

LEMMA MailTypeStep ==
  ASSUME MailTypeOK, MailStep
  PROVE  MailTypeOK'
<1>1. CASE LockAges
  BY <1>1, MailAssumption DEF LockAges, MailTypeOK
<1>2. ASSUME NEW p \in Users, Want(p) PROVE MailTypeOK'
  BY <1>2 DEF Want, GoOn, MailTypeOK, Places
<1>3. CASE Return(Runner, "ok") \/ Return(Runner, "failed")
  BY <1>3 DEF Return, GoOn, MailTypeOK, Places
<1>4. ASSUME NEW p \in Users, WithLock(p) PROVE MailTypeOK'
  <2>1. CASE TakeLock(p)   BY <2>1 DEF TakeLock, GoOn, MailTypeOK, Places
  <2>2. CASE SeeOld(p)     BY <2>2 DEF SeeOld, GoOn, MailTypeOK, Places
  <2>3. CASE BreakLock(p)  BY <2>3 DEF BreakLock, GoOn, MailTypeOK, Places
  <2>4. CASE GiveUp(p)     BY <2>4 DEF GiveUp, GoOn, MailTypeOK, Places
  <2>5. CASE ReadAgain(p)
    BY <2>5, EditsKeep DEF ReadAgain, GoOn, MailTypeOK, Places
  <2> <<>> \in Seq(Entries)  OBVIOUS
  <2>6. CASE Truncate(p)   BY <2>6 DEF Truncate, GoOn, MailTypeOK, Places
  <2>7. CASE Fill(p)
    <3>1. copy[p] \in Seq(Entries)  BY DEF MailTypeOK
    <3>2. QED  BY <2>7, <3>1 DEF Fill, GoOn, MailTypeOK, Places
  <2>8. CASE Unlock(p)     BY <2>8 DEF Unlock, GoOn, MailTypeOK, Places
  <2>9. QED  BY <1>4, <2>1, <2>2, <2>3, <2>4, <2>5, <2>6, <2>7, <2>8 DEF WithLock
<1>5. QED  BY <1>1, <1>2, <1>3, <1>4 DEF MailStep

\* While no lock was old, at most one process has truncated the file.
LEMMA FileIs ==
  ASSUME LockKept
  PROVE  /\ \A p \in Users : at[p] = "emptied" => File = copy[p]
         /\ (\A p \in Users : at[p] # "emptied") => File = inbox
<1>1. \A p, q \in Users : at[p] = "emptied" /\ at[q] = "emptied" => p = q
  BY DEF LockKept, Critical
<1>2. QED  BY <1>1 DEF File

LEMMA FileWillBe ==
  ASSUME LockKept'
  PROVE  /\ \A p \in Users : at'[p] = "emptied" => File' = copy'[p]
         /\ (\A p \in Users : at'[p] # "emptied") => File' = inbox'
<1>1. \A p, q \in Users : at'[p] = "emptied" /\ at'[q] = "emptied" => p = q
  BY DEF LockKept, Critical
<1>2. QED  BY <1>1 DEF File

\* Nobody is in the way of a step that no lock grows old in.
LEMMA LockStep ==
  ASSUME MailTypeOK, MailStep, aged = 0, aged' = 0, LockKept
  PROVE  LockKept'
<1>1. CASE LockAges  BY <1>1 DEF LockAges
<1>2. ASSUME NEW p \in Users, Want(p) PROVE LockKept'
  BY <1>2 DEF Want, GoOn, MailTypeOK, LockKept, Critical
<1>3. CASE Return(Runner, "ok") \/ Return(Runner, "failed")
  BY <1>3 DEF Return, GoOn, MailTypeOK, LockKept, Critical
<1>4. ASSUME NEW p \in Users, WithLock(p) PROVE LockKept'
  <2> USE DEF GoOn, MailTypeOK, LockKept, Critical
  <2>1. CASE TakeLock(p)
    BY <2>1, MailAssumption DEF TakeLock, Users
  <2>2. CASE SeeOld(p)     BY <2>2 DEF SeeOld
  <2>3. CASE BreakLock(p)  BY <2>3 DEF BreakLock
  <2>4. CASE GiveUp(p)     BY <2>4 DEF GiveUp
  <2>5. CASE ReadAgain(p)  BY <2>5 DEF ReadAgain
  <2>6. CASE Truncate(p)   BY <2>6 DEF Truncate
  <2>7. CASE Fill(p)       BY <2>7 DEF Fill
  <2>8. CASE Unlock(p)     BY <2>8 DEF Unlock
  <2>9. QED  BY <1>4, <2>1, <2>2, <2>3, <2>4, <2>5, <2>6, <2>7, <2>8 DEF WithLock
<1>5. QED  BY <1>1, <1>2, <1>3, <1>4 DEF MailStep

\* A step that leaves the file and the copies alone, and whoever truncates it.
LEMMA QuietStep ==
  ASSUME LockKept, LockKept', CopyKept, WrittenKept,
         inbox' = inbox, copy' = copy,
         \A p \in Users : (at'[p] = "emptied") = (at[p] = "emptied"),
         \A p \in Users : at'[p] = "write" => at[p] = "write",
         \A m \in Messages : at'[m] \in {"unlock", "ok"} => at[m] \in {"unlock", "ok"}
  PROVE  CopyKept' /\ WrittenKept'
<1>1. File' = File  BY FileIs, FileWillBe
<1>2. WrittenKept'  BY <1>1 DEF WrittenKept, In
<1>3. CopyKept'  BY DEF CopyKept, In
<1>4. QED  BY <1>2, <1>3

LEMMA KeptStep ==
  ASSUME MailTypeOK, MailStep, aged = 0, aged' = 0, LockKept, CopyKept, WrittenKept
  PROVE  CopyKept' /\ WrittenKept'
<1> LockKept'  BY LockStep
<1> \A m \in Messages : m \in Users  BY DEF Users
<1>1. CASE LockAges  BY <1>1 DEF LockAges
<1>2. ASSUME NEW p \in Users, Want(p) PROVE CopyKept' /\ WrittenKept'
  BY <1>2, QuietStep DEF Want, GoOn, MailTypeOK
<1>3. CASE Return(Runner, "ok") \/ Return(Runner, "failed")
  BY <1>3, QuietStep DEF Return, GoOn, MailTypeOK
<1>4. ASSUME NEW p \in Users, WithLock(p) PROVE CopyKept' /\ WrittenKept'
  <2>1. CASE TakeLock(p)   BY <2>1, QuietStep DEF TakeLock, GoOn, MailTypeOK
  <2>2. CASE SeeOld(p)     BY <2>2, QuietStep DEF SeeOld, GoOn, MailTypeOK
  <2>3. CASE BreakLock(p)  BY <2>3 DEF BreakLock, LockKept
  <2>4. CASE GiveUp(p)     BY <2>4, QuietStep DEF GiveUp, GoOn, MailTypeOK
  <2>5. CASE ReadAgain(p)
    <3>1. at[p] \in Critical /\ at'[p] # "emptied"
      BY <2>5 DEF ReadAgain, GoOn, MailTypeOK, Critical
    <3>2. \A q \in Users \ {p} : at[q] \notin Critical /\ at'[q] = at[q]
      BY <2>5, <3>1 DEF ReadAgain, GoOn, LockKept, MailTypeOK
    <3>3. File = inbox /\ File' = inbox'
      BY <2>5, <3>1, <3>2, FileIs, FileWillBe DEF ReadAgain, Critical
    <3>4. WrittenKept'
      BY <2>5, <3>3 DEF ReadAgain, GoOn, WrittenKept, In, MailTypeOK
    <3>5. CopyKept'
      <4>1. SUFFICES ASSUME NEW q \in Users PROVE
              /\ at'[q] = "write" => \A m \in Messages : In(m, inbox') => In(m, copy'[q])
              /\ at'[q] \in {"write", "emptied"} /\ q \in Messages => In(q, copy'[q])
        BY DEF CopyKept, In
      <4>2. CASE q # p  BY <3>2, <4>2 DEF Critical
      <4>3. CASE q = p /\ at'[p] = "write"
        <5>1. copy'[p] = Edited(p) /\ inbox' = inbox
          BY <2>5, <4>3 DEF ReadAgain, GoOn, MailTypeOK
        <5>2. QED  BY <4>3, <5>1, EditsKeep
      <4>4. CASE q = p /\ at'[p] # "write"  BY <3>1, <4>4
      <4>5. QED  BY <4>2, <4>3, <4>4
    <3>6. QED  BY <3>4, <3>5
  <2>6. CASE Truncate(p)
    <3>1. at[p] = "write" /\ at'[p] = "emptied"
      BY <2>6 DEF Truncate, GoOn, MailTypeOK
    <3>2. \A q \in Users \ {p} : at[q] \notin Critical /\ at'[q] = at[q]
      BY <2>6, <3>1 DEF Truncate, GoOn, LockKept, MailTypeOK, Critical
    <3>3. File = inbox /\ File' = copy[p] /\ copy' = copy
      BY <2>6, <3>1, <3>2, FileIs, FileWillBe DEF Truncate, Critical
    <3>4. \A m \in Messages : In(m, File) => In(m, File')
      BY <3>1, <3>3 DEF CopyKept
    <3>5. WrittenKept'
      BY <3>1, <3>2, <3>4 DEF WrittenKept, In
    <3>6. CopyKept'  BY <3>1, <3>2, <3>3 DEF CopyKept, Critical, In
    <3>7. QED  BY <3>5, <3>6
  <2>7. CASE Fill(p)
    <3>1. at[p] = "emptied" /\ at'[p] = "unlock" /\ inbox' = copy[p]
      BY <2>7 DEF Fill, GoOn, MailTypeOK
    <3>2. \A q \in Users \ {p} : at[q] \notin Critical /\ at'[q] = at[q]
      BY <2>7, <3>1 DEF Fill, GoOn, LockKept, MailTypeOK, Critical
    <3>3. File = copy[p] /\ File' = copy[p]
      BY <3>1, <3>2, FileIs, FileWillBe DEF Critical
    <3>4. p \in Messages => In(p, copy[p])  BY <3>1 DEF CopyKept
    <3>5. WrittenKept'
      BY <3>1, <3>2, <3>3, <3>4 DEF WrittenKept, In
    <3>6. CopyKept'  BY <3>1, <3>2 DEF CopyKept, Critical
    <3>7. QED  BY <3>5, <3>6
  <2>8. CASE Unlock(p)     BY <2>8, QuietStep DEF Unlock, GoOn, MailTypeOK
  <2>9. QED  BY <1>4, <2>1, <2>2, <2>3, <2>4, <2>5, <2>6, <2>7, <2>8 DEF WithLock
<1>5. QED  BY <1>1, <1>2, <1>3, <1>4 DEF MailStep

LEMMA MailInvStep ==
  ASSUME MailInv, MailStep
  PROVE  MailInv'
<1>1. MailTypeOK'  BY MailTypeStep DEF MailInv
<1>2. aged' = 0 => aged = 0
  <2>1. aged \in Nat  BY MailAssumption DEF MailInv, MailTypeOK
  <2>2. aged' \in {aged, aged + 1}
    BY DEF MailStep, LockAges, Want, Return, WithLock, TakeLock, SeeOld, BreakLock,
           GiveUp, ReadAgain, Truncate, Fill, Unlock
  <2>3. QED  BY <2>1, <2>2
<1>3. QED  BY <1>1, <1>2, LockStep, KeptStep DEF MailInv

LEMMA MailInvStutter ==
  ASSUME MailInv, UNCHANGED mailVars
  PROVE  MailInv'
<1>1. File' = File  BY DEF mailVars, File
<1>2. QED
  BY <1>1 DEF mailVars, MailInv, MailTypeOK, LockKept, CopyKept, WrittenKept, In

\* What the system does to the mailbox.
LEMMA StepsOfTheMailbox ==
  ASSUME [Next]_vars
  PROVE  MailStep \/ UNCHANGED mailVars
<1>1. CASE UNCHANGED vars  BY <1>1 DEF vars, mailVars
<1>2. ASSUME NEW m \in Messages, Send(m) \/ Sending(m) PROVE MailStep
  BY <1>2 DEF Send, Sending, MailStep, Users
<1>3. CASE Ages  BY <1>3 DEF Ages, MailStep
<1>4. CASE Attach \/ ToolStarts \/ ToolClaims \/ ToolIsDone \/ ToolEnds \/ TurnEnds
  BY <1>4 DEF Attach, ToolStarts, ToolClaims, ToolIsDone, ToolEnds, TurnEnds
<1>5. CASE Inboxing
  BY <1>5 DEF Inboxing, BeginRead, EndRead, Act, Mark, Marking, Acted, MarkFailed, MailStep, Users
<1>6. CASE Ending \/ Leaving
  BY <1>6 DEF Ending, Leaving, Cancelled, Dropped, Drain, Fail, Stop, Release
<1>7. CASE KillStops \/ Killing
  BY <1>7 DEF KillStops, Killing, KillCancels, KillAborts, KillReleases
<1>8. QED  BY <1>1, <1>2, <1>3, <1>4, <1>5, <1>6, <1>7 DEF Next

\* The invariant of the mailbox: types for ever, and as long as no lock was old,
\* whoever is under the lock has it and writes back all that is there.
THEOREM MailCorrect == Spec => []MailInv
<1>1. Init => MailInv  BY MailInvInit DEF Init
<1>2. MailInv /\ [Next]_vars => MailInv'
  BY MailInvStep, MailInvStutter, StepsOfTheMailbox
<1>3. QED  BY <1>1, <1>2, PTL DEF Spec

\* MessagesKept for any number of messages: no written message is lost while no
\* lock is five seconds old (with_lock and write_to_mailbox).
THEOREM MessagesAreKept == Spec => []MessagesKept
<1>1. MailInv => MessagesKept
  BY DEF MailInv, WrittenKept, MessagesKept, In
<1>2. QED  BY <1>1, MailCorrect, PTL

-----------------------------------------------------------------------------
(* Types.                                                                  *)

\* What is left of entries without their marks.
LEMMA MsgsType ==
  ASSUME NEW entries \in Seq(Entries)
  PROVE  /\ Msgs(entries) \in Seq(Messages)
         /\ DOMAIN Msgs(entries) = DOMAIN entries
         /\ \A i \in DOMAIN entries : Msgs(entries)[i] = entries[i].msg
<1>1. DOMAIN entries = 1 .. Len(entries) /\ Len(entries) \in Nat
      /\ \A i \in DOMAIN entries : entries[i] \in Entries
  OBVIOUS
<1>2. \A i \in DOMAIN entries : entries[i].msg \in Messages
  BY <1>1 DEF Entries
<1>3. Msgs(entries) \in [1 .. Len(entries) -> Messages]
  BY <1>1, <1>2 DEF Msgs
<1>. QED  BY <1>1, <1>3 DEF Msgs

\* The unread messages are messages.
LEMMA UnreadType ==
  ASSUME MailTypeOK
  PROVE  Unread \in Seq(Entries) /\ Msgs(Unread) \in Seq(Messages)
<1>1. Unread \in Seq(Entries)
  BY ThoseType DEF MailTypeOK, Unread
<1>. QED  BY <1>1, MsgsType

\* The types, by what they are about.
RunTypes ==
  /\ run \in Runs /\ stirred \in BOOLEAN /\ from \in Loops /\ leaves \in BOOLEAN
  /\ status \in {"running", "stopped"}
SeqTypes ==
  /\ batch \in Seq(Messages) /\ plain \in Seq(Messages)
  /\ pending \in Seq(Messages) /\ prompts \in Seq(Messages) /\ handled \in Seq(Messages)
KillTypes ==
  /\ attached \in BOOLEAN /\ cancelled \in BOOLEAN /\ aborted \in BOOLEAN
  /\ killer \in Kills /\ grabbed \in BOOLEAN
TaskTypes ==
  /\ kind \in [Messages -> Kinds] /\ approves \in BOOLEAN
  /\ tool \in {"none", "running", "left"} /\ owns \in BOOLEAN
  /\ late \in 0 .. MaxLate /\ kept \in BOOLEAN

LEMMA TypeParts == TypeOK = (MailTypeOK /\ RunTypes /\ SeqTypes /\ KillTypes /\ TaskTypes)
BY DEF TypeOK, RunTypes, SeqTypes, KillTypes, TaskTypes

LEMMA RunTypesStep ==
  ASSUME RunTypes, approves \in BOOLEAN, [Next]_vars
  PROVE  RunTypes'
<1> USE DEF RunTypes
<1>1. CASE UNCHANGED vars
  BY <1>1 DEF vars, runVars
<1>2. CASE Ages \/ (\E m \in Messages : Send(m)) \/ Attach \/ ToolStarts \/ ToolClaims
           \/ ToolIsDone \/ ToolEnds
  BY <1>2 DEF Ages, Send, Attach, ToolStarts, ToolClaims, ToolIsDone, ToolEnds, runVars
<1>3. ASSUME NEW m \in Messages, Sending(m) PROVE RunTypes'
  BY <1>3 DEF Sending
<1>4. CASE TurnEnds \/ BeginRead \/ Mark \/ Marking \/ MarkFailed
  BY <1>4 DEF TurnEnds, BeginRead, Mark, Marking, MarkFailed, runVars, Runs
<1>5. CASE EndRead
  <2>1. run' \in {from, "acting", "failing"}
    BY <1>5 DEF EndRead
  <2>2. run' \in Runs
    BY <2>1 DEF Runs, Loops
  <2>. QED  BY <1>5, <2>2 DEF EndRead
<1>6. CASE Act
  <2>1. CASE ActOnShutdown
    <3>1. leaves' \in BOOLEAN
      BY <2>1 DEF ActOnShutdown
    <3>2. run' \in Runs /\ status' \in {"running", "stopped"}
      BY <2>1 DEF ActOnShutdown, Runs
    <3>. QED  BY <1>6, <3>1, <3>2 DEF Act
  <2>2. CASE UNCHANGED <<run, leaves, status>>
    BY <1>6, <2>2 DEF Act
  <2>. QED  BY <1>6, <2>1, <2>2 DEF Act, ActOnPlain, ActOnApproval, ActOnOther
<1>7. CASE Acted
  <2>1. run' \in {"idle", "turn", "stopping"}
    BY <1>7 DEF Acted
  <2>. QED  BY <1>7, <2>1 DEF Acted, Runs, Loops
<1>8. CASE Ending \/ Leaving
  <2>1. CASE Cancelled \/ Dropped
    BY <2>1 DEF Cancelled, Dropped, Runs
  <2>2. CASE Drain \/ Fail
    BY <2>2 DEF Drain, Fail, Runs, Loops
  <2>3. CASE Stop \/ Release
    BY <2>3 DEF Stop, Release, Runs
  <2>. QED  BY <1>8, <2>1, <2>2, <2>3 DEF Ending, Leaving
<1>9. CASE KillStops \/ Killing
  BY <1>9 DEF KillStops, Killing, KillCancels, KillAborts, KillReleases, runVars
<1>. QED
  BY <1>1, <1>2, <1>3, <1>4, <1>5, <1>6, <1>7, <1>8, <1>9 DEF Next, Inboxing

\* The messages the runner has are messages.
LEMMA SeqTypesStep ==
  ASSUME MailTypeOK, SeqTypes, [Next]_vars
  PROVE  SeqTypes'
<1> USE DEF SeqTypes
<1>e. <<>> \in Seq(Messages)  OBVIOUS
<1>1. CASE UNCHANGED <<batch, plain, pending, prompts, handled>>
  BY <1>1
<1>2. CASE BeginRead
  <2>1. batch' \in Seq(Messages)
    BY <1>2, <1>e, UnreadType DEF BeginRead
  <2>. QED  BY <1>2, <2>1 DEF BeginRead, saidVars
<1>3. CASE Act
  <2>1. Head(batch) \in Messages /\ Tail(batch) \in Seq(Messages)
    BY <1>3, HeadTailProperties DEF Act
  <2>2. plain' \in Seq(Messages) /\ pending' \in Seq(Messages)
    <3>1. CASE ActOnPlain
      BY <2>1, <3>1, AppendProperties DEF ActOnPlain
    <3>2. CASE ActOnApproval
      BY <2>1, <3>2, AppendProperties DEF ActOnApproval
    <3>3. CASE UNCHANGED <<plain, pending>>
      BY <3>3
    <3>. QED  BY <1>3, <3>1, <3>2, <3>3 DEF Act, ActOnShutdown, ActOnOther
  <2>3. handled' \in Seq(Messages) /\ batch' \in Seq(Messages)
    BY <1>3, <2>1, AppendProperties DEF Act
  <2>. QED  BY <1>3, <2>2, <2>3 DEF Act
<1>4. CASE Acted
  <2>1. pending \o plain \in Seq(Messages)
    BY ConcatProperties
  <2>2. prompts \o pending \in Seq(Messages)
    BY ConcatProperties
  <2>3. prompts \o pending \o plain \in Seq(Messages)
    BY <2>2, ConcatProperties
  <2>4. plain' = <<>> /\ UNCHANGED <<batch, handled>>
    BY <1>4 DEF Acted
  <2>5. pending' \in {<<>>, pending \o plain}
    BY <1>4 DEF Acted
  <2>6. prompts' \in {prompts, prompts \o pending \o plain}
    BY <1>4 DEF Acted
  <2>. QED  BY <1>e, <2>1, <2>3, <2>4, <2>5, <2>6
<1>5. CASE Drain
  <2>1. prompts \o pending \in Seq(Messages)
    BY ConcatProperties
  <2>2. prompts' = prompts \o pending /\ pending' = <<>>
        /\ UNCHANGED <<batch, plain, handled>>
    BY <1>5 DEF Drain
  <2>. QED  BY <1>e, <2>1, <2>2
<1>6. CASE Fail
  BY <1>6, <1>e DEF Fail, saidVars
<1>7. QED
  BY <1>1, <1>2, <1>3, <1>4, <1>5, <1>6
  DEF Next, vars, Send, Sending, Ages, Attach, ToolStarts, ToolClaims, ToolIsDone, ToolEnds,
      TurnEnds, Inboxing, EndRead, Mark, Marking, MarkFailed, Ending, Cancelled, Dropped,
      Leaving, Stop, Release, KillStops, Killing, KillCancels, KillAborts, KillReleases,
      runVars, saidVars

LEMMA KillTypesStep ==
  ASSUME KillTypes, [Next]_vars
  PROVE  KillTypes'
<1> USE DEF KillTypes
<1>1. CASE UNCHANGED <<attached, cancelled, aborted, killer, grabbed>>
  BY <1>1
<1>2. CASE Attach
  BY <1>2 DEF Attach, killVars
<1>3. CASE KillStops
  BY <1>3 DEF KillStops, Kills
<1>4. CASE KillCancels
  BY <1>4 DEF KillCancels, Kills
<1>5. CASE KillAborts
  BY <1>5 DEF KillAborts, Kills
<1>6. CASE KillReleases
  BY <1>6 DEF KillReleases, Kills
<1>7. QED
  BY <1>1, <1>2, <1>3, <1>4, <1>5, <1>6
  DEF Next, vars, Send, Sending, Ages, ToolStarts, ToolClaims, ToolIsDone, ToolEnds,
      TurnEnds, Inboxing, BeginRead, EndRead, Act, Mark, Marking, Acted, MarkFailed, Ending,
      Cancelled, Dropped, Leaving, Drain, Fail, Stop, Release, Killing, killVars

LEMMA TaskTypesStep ==
  ASSUME TaskTypes, [Next]_vars
  PROVE  TaskTypes'
<1> USE DEF TaskTypes
<1>1. CASE UNCHANGED <<kind, approves, taskVars>>
  BY <1>1 DEF taskVars
<1>2. CASE ToolStarts \/ ToolEnds \/ ToolIsDone
  BY <1>2 DEF ToolStarts, ToolEnds, ToolIsDone
<1>3. CASE ToolClaims
  BY <1>3, TeamAssumption DEF ToolClaims
<1>4. CASE Dropped \/ Fail \/ Stop
  BY <1>4 DEF Dropped, Fail, Stop, LeaveTool
<1>5. CASE Release
  BY <1>5 DEF Release, Unassign
<1>6. CASE KillReleases
  BY <1>6 DEF KillReleases, Unassign
<1>7. QED
  BY <1>1, <1>2, <1>3, <1>4, <1>5, <1>6
  DEF Next, vars, Send, Sending, Ages, Attach,
      TurnEnds, Inboxing, BeginRead, EndRead, Act, Mark, Marking, Acted, MarkFailed, Ending,
      Cancelled, Leaving, Drain, KillStops, Killing, KillCancels, KillAborts

\* The state is of its type for any number of messages: what process_mailbox
\* reads, hands to the engine and leaves in the registry are messages.
THEOREM TeamTypeCorrect == Spec => []TypeOK
<1>1. Init /\ MailInv => TypeOK
  <2> SUFFICES ASSUME Init, MailInv PROVE TypeOK  OBVIOUS
  <2>1. MailTypeOK  BY DEF MailInv
  <2>2. RunTypes  BY DEF Init, RunTypes, Runs, Loops
  <2>3. SeqTypes  BY EmptySeq DEF Init, SeqTypes
  <2>4. KillTypes  BY DEF Init, KillTypes, Kills
  <2>5. TaskTypes
    <3>1. late \in 0 .. MaxLate  BY TeamAssumption DEF Init
    <3>2. kind \in [Messages -> Kinds] /\ approves \in BOOLEAN  BY DEF Init
    <3>. QED  BY <3>1, <3>2 DEF Init, TaskTypes
  <2>. QED  BY <2>1, <2>2, <2>3, <2>4, <2>5, TypeParts
<1>2. TypeOK /\ MailInv' /\ [Next]_vars => TypeOK'
  <2> SUFFICES ASSUME TypeOK, MailInv', [Next]_vars PROVE TypeOK'  OBVIOUS
  <2>1. MailTypeOK /\ RunTypes /\ SeqTypes /\ KillTypes /\ TaskTypes
    BY TypeParts
  <2>2. MailTypeOK'  BY DEF MailInv
  <2>3. approves \in BOOLEAN  BY <2>1 DEF TaskTypes
  <2>4. RunTypes' /\ SeqTypes' /\ KillTypes' /\ TaskTypes'
    BY <2>1, <2>3, RunTypesStep, SeqTypesStep, KillTypesStep, TaskTypesStep
  <2>. QED
    BY <2>2, <2>4
    DEF TypeOK, RunTypes, SeqTypes, KillTypes, TaskTypes
<1>. QED  BY <1>1, <1>2, MailCorrect, PTL DEF Spec

-----------------------------------------------------------------------------
(* The file, as long as no lock was old.                                   *)

\* What an edit makes of each entry.
LEMMA EditsAre ==
  ASSUME MailTypeOK, NEW p \in Users
  PROVE  /\ p = Runner =>
              /\ DOMAIN Edited(p) = DOMAIN inbox
              /\ \A i \in DOMAIN inbox :
                   Edited(p)[i].msg = inbox[i].msg /\ Edited(p)[i].read = TRUE
         /\ p # Runner =>
              /\ p \in Messages
              /\ DOMAIN inbox = 1 .. Len(inbox) /\ Len(inbox) \in Nat
              /\ DOMAIN Edited(p) = 1 .. Len(inbox) + 1
              /\ \A i \in 1 .. Len(inbox) : Edited(p)[i] = inbox[i]
              /\ Edited(p)[Len(inbox) + 1] = [msg |-> p, read |-> FALSE]
<1>1. inbox \in Seq(Entries)
  BY DEF MailTypeOK
<1>2. CASE p = Runner
  <2>1. Edited(p) = Marked(inbox)
    BY <1>2 DEF Edited
  <2>2. \A i \in DOMAIN inbox : inbox[i] \in Entries
    BY <1>1
  <2>3. \A i \in DOMAIN inbox :
          /\ [inbox[i] EXCEPT !.read = TRUE].msg = inbox[i].msg
          /\ [inbox[i] EXCEPT !.read = TRUE].read = TRUE
    BY <2>2 DEF Entries
  <2>. QED  BY <1>2, <2>1, <2>3 DEF Marked
<1>3. CASE p # Runner
  <2>1. p \in Messages
    BY <1>3 DEF Users
  <2>2. [msg |-> p, read |-> FALSE] \in Entries
    BY <2>1 DEF Entries
  <2>3. Edited(p) = Append(inbox, [msg |-> p, read |-> FALSE])
    BY <1>3 DEF Edited
  <2>. QED  BY <1>1, <1>3, <2>1, <2>2, <2>3
<1>. QED  BY <1>2, <1>3

Written == {"emptied", "unlock", "ok"}

\* A file that is truncated is empty, and a process that is about to write has
\* made its text from what is there.
CopyFresh ==
  \A p \in Users :
    /\ at[p] = "emptied" => inbox = <<>>
    /\ at[p] = "write" => copy[p] = Edited(p)

OnceEach(entries) ==
  \A i, j \in DOMAIN entries : entries[i].msg = entries[j].msg => i = j

ReadFirst(entries) ==
  \A i, j \in DOMAIN entries : i < j /\ entries[j].read = TRUE => entries[i].read = TRUE

AreWritten == \A i \in DOMAIN File : at[File[i].msg] \in Written

FileInv == CopyFresh /\ AreWritten /\ OnceEach(File) /\ ReadFirst(File)

LEMMA FileType ==
  ASSUME MailTypeOK, LockKept
  PROVE  File \in Seq(Entries)
<1>1. CASE \E p \in Users : at[p] = "emptied"
  BY <1>1, FileIs DEF MailTypeOK
<1>2. CASE \A p \in Users : at[p] # "emptied"
  BY <1>2, FileIs DEF MailTypeOK
<1>. QED  BY <1>1, <1>2

\* The file stays as it is, or somebody truncates it: no one else is under the
\* lock, and what he writes is an edit of what was there.
Stays ==
  /\ File' = File
  /\ \A m \in Messages : at[m] \in Written => at'[m] \in Written
  /\ \A p \in Users : at'[p] \in Written => at[p] \in Written

IsEdited(p) ==
  /\ File = inbox /\ File' = Edited(p)
  /\ at[p] = "write" /\ at'[p] = "emptied"
  /\ \A q \in Users \ {p} : at'[q] = at[q]

LEMMA FileMoves ==
  ASSUME MailTypeOK, MailStep, aged = 0, aged' = 0, LockKept, CopyFresh
  PROVE  CopyFresh' /\ (Stays \/ \E p \in Users : IsEdited(p))
<1>k. LockKept'  BY LockStep
<1>m. \A m \in Messages : m \in Users /\ m # Runner
  BY MailAssumption DEF Users
<1>r. Runner \in Users  BY DEF Users
<1>1. ASSUME inbox' = inbox, copy' = copy,
             \A p \in Users : (at'[p] = "emptied") = (at[p] = "emptied"),
             \A p \in Users : at'[p] = "write" => at[p] = "write",
             \A m \in Messages : at[m] \in Written => at'[m] \in Written,
             \A p \in Users : at'[p] \in Written => at[p] \in Written
      PROVE  CopyFresh' /\ Stays
  <2>1. File' = File  BY <1>1, <1>k, FileIs, FileWillBe
  <2>2. \A p \in Users : Edited(p)' = Edited(p)  BY <1>1 DEF Edited, Marked
  <2>3. CopyFresh'  BY <1>1, <2>2 DEF CopyFresh
  <2>. QED  BY <1>1, <2>1, <2>3 DEF Stays
<1>2. CASE LockAges  BY <1>2 DEF LockAges
<1>3. ASSUME NEW p \in Users, Want(p) PROVE CopyFresh' /\ Stays
  BY <1>1, <1>3, <1>m DEF Want, GoOn, MailTypeOK, Written
<1>4. CASE Return(Runner, "ok") \/ Return(Runner, "failed")
  BY <1>1, <1>4, <1>m DEF Return, GoOn, MailTypeOK, Written
<1>5. ASSUME NEW p \in Users, WithLock(p)
      PROVE  CopyFresh' /\ (Stays \/ IsEdited(p))
  <2>1. CASE TakeLock(p)   BY <1>1, <1>m, <2>1 DEF TakeLock, GoOn, MailTypeOK, Written
  <2>2. CASE SeeOld(p)     BY <1>1, <1>m, <2>2 DEF SeeOld, GoOn, MailTypeOK, Written
  <2>3. CASE BreakLock(p)  BY <2>3 DEF BreakLock, LockKept
  <2>4. CASE GiveUp(p)     BY <1>1, <1>m, <2>4 DEF GiveUp, GoOn, MailTypeOK, Written
  <2>5. CASE ReadAgain(p)
    <3>1. /\ at[p] = "locked" /\ at'[p] \in {"undo", "write"}
          /\ at'[p] = "write" => copy'[p] = Edited(p)
          /\ inbox' = inbox
      BY <2>5 DEF ReadAgain, GoOn, MailTypeOK
    <3>2. \A q \in Users \ {p} : at'[q] = at[q] /\ copy'[q] = copy[q]
      BY <2>5 DEF ReadAgain, GoOn, MailTypeOK
    <3>3. \A q \in Users \ {p} : at[q] \notin Critical
      BY <3>1 DEF LockKept, Critical
    <3>4. File' = inbox' /\ File = inbox
      BY <1>k, <3>1, <3>2, <3>3, FileIs, FileWillBe DEF Critical
    <3>5. \A q \in Users : Edited(q)' = Edited(q)  BY <3>1 DEF Edited, Marked
    <3>6. CopyFresh'
      BY <3>1, <3>2, <3>5 DEF CopyFresh
    <3>7. \A q \in Users : (at'[q] \in Written) = (at[q] \in Written)
      BY <3>1, <3>2 DEF Written
    <3>. QED  BY <1>m, <3>1, <3>4, <3>6, <3>7 DEF Stays
  <2>6. CASE Truncate(p)
    <3>1. at[p] = "write" /\ at'[p] = "emptied" /\ inbox' = <<>> /\ copy' = copy
      BY <2>6 DEF Truncate, GoOn, MailTypeOK
    <3>2. \A q \in Users \ {p} : at[q] \notin Critical /\ at'[q] = at[q]
      BY <2>6, <3>1 DEF Truncate, GoOn, LockKept, MailTypeOK, Critical
    <3>3. File = inbox /\ File' = copy[p]
      BY <1>k, <3>1, <3>2, FileIs, FileWillBe DEF Critical
    <3>4. copy[p] = Edited(p)
      BY <3>1 DEF CopyFresh
    <3>5. CopyFresh'
      BY <3>1, <3>2 DEF CopyFresh, Critical
    <3>. QED  BY <3>1, <3>2, <3>3, <3>4, <3>5 DEF IsEdited
  <2>7. CASE Fill(p)
    <3>1. at[p] = "emptied" /\ at'[p] = "unlock" /\ inbox' = copy[p]
      BY <2>7 DEF Fill, GoOn, MailTypeOK
    <3>2. \A q \in Users \ {p} : at[q] \notin Critical /\ at'[q] = at[q]
      BY <2>7, <3>1 DEF Fill, GoOn, LockKept, MailTypeOK, Critical
    <3>3. File = copy[p] /\ File' = copy[p]
      BY <1>k, <3>1, <3>2, FileIs, FileWillBe DEF Critical
    <3>4. CopyFresh'
      BY <3>1, <3>2 DEF CopyFresh, Critical
    <3>5. \A q \in Users : (at'[q] \in Written) = (at[q] \in Written)
      BY <3>1, <3>2 DEF Written
    <3>. QED  BY <1>m, <3>3, <3>4, <3>5 DEF Stays
  <2>8. CASE Unlock(p)     BY <1>1, <1>m, <2>8 DEF Unlock, GoOn, MailTypeOK, Written
  <2>. QED  BY <1>5, <2>1, <2>2, <2>3, <2>4, <2>5, <2>6, <2>7, <2>8 DEF WithLock
<1>. QED  BY <1>2, <1>3, <1>4, <1>5 DEF MailStep

LEMMA FileInvStep ==
  ASSUME MailTypeOK, MailStep, aged = 0, aged' = 0, LockKept, FileInv
  PROVE  FileInv'
<1>1. CopyFresh' /\ (Stays \/ \E p \in Users : IsEdited(p))
  BY FileMoves DEF FileInv
<1>2. \A i \in DOMAIN File : File[i].msg \in Messages
  <2>1. \A i \in DOMAIN File : File[i] \in Entries
    BY FileType
  <2>. QED  BY <2>1 DEF Entries
<1>3. CASE Stays
  BY <1>1, <1>2, <1>3 DEF FileInv, Stays, AreWritten, OnceEach, ReadFirst
<1>4. ASSUME NEW p \in Users, IsEdited(p) PROVE FileInv'
  <2>1. File = inbox /\ File' = Edited(p) /\ at[p] = "write" /\ at'[p] = "emptied"
    BY <1>4 DEF IsEdited
  <2>2. \A q \in Users : at[q] \in Written => at'[q] \in Written
    BY <1>4 DEF IsEdited, Written
  <2>3. \A i \in DOMAIN File : File[i].msg # p /\ at'[File[i].msg] \in Written
    BY <1>2, <2>1, <2>2 DEF FileInv, AreWritten, Written, Users
  <2>4. CASE p = Runner
    <3>1. /\ DOMAIN Edited(p) = DOMAIN File
          /\ \A i \in DOMAIN File :
               Edited(p)[i].msg = File[i].msg /\ Edited(p)[i].read = TRUE
      BY <2>1, <2>4, EditsAre
    <3>2. OnceEach(Edited(p)) /\ ReadFirst(Edited(p))
      BY <3>1 DEF FileInv, OnceEach, ReadFirst
    <3>3. AreWritten'
      BY <2>1, <2>3, <3>1 DEF AreWritten
    <3>. QED  BY <1>1, <2>1, <3>2, <3>3 DEF FileInv, OnceEach, ReadFirst
  <2>5. CASE p # Runner
    <3>1. /\ DOMAIN File = 1 .. Len(inbox) /\ Len(inbox) \in Nat
          /\ DOMAIN Edited(p) = 1 .. Len(inbox) + 1
          /\ \A i \in 1 .. Len(inbox) : Edited(p)[i] = File[i]
          /\ Edited(p)[Len(inbox) + 1].msg = p
          /\ Edited(p)[Len(inbox) + 1].read = FALSE
      <4>1. Edited(p)[Len(inbox) + 1] = [msg |-> p, read |-> FALSE]
        BY <2>5, EditsAre
      <4>2. /\ Edited(p)[Len(inbox) + 1].msg = p
            /\ Edited(p)[Len(inbox) + 1].read = FALSE
        BY <4>1
      <4>. QED  BY <2>1, <2>5, <4>2, EditsAre
    <3>. DEFINE e == Edited(p)
                n == Len(inbox)
    <3>. HIDE DEF e, n
    <3>e. /\ DOMAIN File = 1 .. n /\ n \in Nat /\ DOMAIN e = 1 .. n + 1
          /\ \A i \in 1 .. n : e[i] = File[i]
          /\ e[n + 1].msg = p /\ e[n + 1].read = FALSE
      BY <3>1 DEF e, n
    <3>2. OnceEach(e)
      BY <2>3, <3>e DEF FileInv, OnceEach
    <3>3. ReadFirst(e)
      BY <3>e DEF FileInv, ReadFirst
    <3>4. \A i \in DOMAIN e : at'[e[i].msg] \in Written
      BY <2>1, <2>3, <3>e DEF Written
    <3>5. File' = e
      BY <2>1 DEF e
    <3>. QED  BY <1>1, <3>2, <3>3, <3>4, <3>5 DEF FileInv, OnceEach, ReadFirst, AreWritten
  <2>. QED  BY <2>4, <2>5
<1>. QED  BY <1>1, <1>3, <1>4

\* Entries stay, with their messages and their marks; and when the teammate has
\* truncated the file, what it writes is marked.
Grows ==
  /\ \A i \in DOMAIN File :
       /\ i \in DOMAIN File' /\ File'[i].msg = File[i].msg
       /\ File[i].read = TRUE => File'[i].read = TRUE
  /\ at'[Runner] \in Written =>
       at[Runner] \in Written \/ \A i \in DOMAIN File : File'[i].read = TRUE

LEMMA FileGoesOn ==
  ASSUME MailInv, FileInv, [Next]_vars, aged = 0, aged' = 0
  PROVE  FileInv' /\ Grows
<1>1. MailTypeOK /\ LockKept
  BY DEF MailInv
<1>2. CASE UNCHANGED mailVars
  <2>1. File' = File /\ at' = at
    BY <1>2 DEF mailVars, File
  <2>2. \A p \in Users : Edited(p)' = Edited(p)
    BY <1>2 DEF mailVars, Edited, Marked
  <2>3. FileInv'
    BY <1>2, <2>1, <2>2 DEF mailVars, FileInv, CopyFresh, AreWritten, OnceEach, ReadFirst
  <2>. QED  BY <2>1, <2>3 DEF Grows
<1>3. CASE MailStep
  <2>1. FileInv'
    BY <1>1, <1>3, FileInvStep
  <2>2. Stays \/ \E p \in Users : IsEdited(p)
    BY <1>1, <1>3, FileMoves DEF FileInv
  <2>3. CASE Stays
    <3>1. File' = File /\ Runner \in Users
      BY <2>3 DEF Stays, Users
    <3>2. at'[Runner] \in Written => at[Runner] \in Written
      BY <2>3, <3>1 DEF Stays
    <3>. QED  BY <2>1, <3>1, <3>2 DEF Grows
  <2>4. ASSUME NEW p \in Users, IsEdited(p) PROVE Grows
    <3>1. File = inbox /\ File' = Edited(p)
      BY <2>4 DEF IsEdited
    <3>2. CASE p = Runner
      BY <1>1, <3>1, <3>2, EditsAre DEF Grows
    <3>3. CASE p # Runner
      <4>1. at'[Runner] = at[Runner]
        BY <2>4, <3>3 DEF IsEdited, Users
      <4>2. /\ DOMAIN File = 1 .. Len(inbox) /\ Len(inbox) \in Nat
            /\ DOMAIN File' = 1 .. Len(inbox) + 1
            /\ \A i \in 1 .. Len(inbox) : File'[i] = File[i]
        BY <1>1, <3>1, <3>3, EditsAre
      <4>. QED  BY <4>1, <4>2 DEF Grows
    <3>. QED  BY <3>2, <3>3
  <2>. QED  BY <2>1, <2>2, <2>3, <2>4
<1>. QED  BY <1>2, <1>3, StepsOfTheMailbox

-----------------------------------------------------------------------------
(* What the teammate has handled.                                          *)

Reads(u) ==
  \A i \in DOMAIN u : \E k \in DOMAIN File : File[k].msg = u[i] /\ File[k].read = TRUE

\* Where every message that was handled has been marked.
ReadKnown ==
  \/ run \in Loops \cup {"drain", "reading"}
  \/ run = "marking" /\ at[Runner] \in Written

\* What was handled and what was read are messages of the file, in its order; and
\* before the teammate reads again, it has marked what it has handled.
HandleInv ==
  /\ InOrderOf(handled \o batch, Msgs(File))
  /\ ReadKnown => Reads(handled)

LEMMA PrefixInOrder ==
  ASSUME NEW s \in Seq(Messages), NEW t \in Seq(Messages), NEW r, InOrderOf(s \o t, r)
  PROVE  InOrderOf(s, r)
<1>1. /\ Len(s) \in Nat /\ Len(t) \in Nat
      /\ DOMAIN s = 1 .. Len(s) /\ DOMAIN (s \o t) = 1 .. Len(s) + Len(t)
      /\ \A i \in 1 .. Len(s) : (s \o t)[i] = s[i]
  OBVIOUS
<1>2. \A i \in DOMAIN s : i \in DOMAIN (s \o t) /\ (s \o t)[i] = s[i]
  BY <1>1
<1>. QED  BY <1>2 DEF InOrderOf

\* The file may grow while the teammate reads on.
LEMMA HandleKept ==
  ASSUME SeqTypes, HandleInv, Grows,
         InOrderOf(handled' \o batch', Msgs(File)),
         ReadKnown' => /\ handled' = handled
                       /\ ReadKnown \/ (at[Runner] \notin Written /\ at'[Runner] \in Written)
  PROVE  HandleInv'
<1>1. InOrderOf(handled' \o batch', Msgs(File'))
  <2>1. \A k \in DOMAIN Msgs(File) :
          k \in DOMAIN Msgs(File') /\ Msgs(File')[k] = Msgs(File)[k]
    BY DEF Grows, Msgs
  <2>. QED  BY <2>1 DEF InOrderOf
<1>2. ASSUME ReadKnown' PROVE Reads(handled)'
  <2>1. handled' = handled
    BY <1>2
  <2>2. CASE ReadKnown
    BY <2>1, <2>2 DEF HandleInv, Reads, Grows
  <2>3. CASE at[Runner] \notin Written /\ at'[Runner] \in Written
    <3>1. \A i \in DOMAIN File : File'[i].read = TRUE
      BY <2>3 DEF Grows
    <3>2. InOrderOf(handled, Msgs(File))
      BY PrefixInOrder DEF HandleInv, SeqTypes
    <3>3. \A i \in DOMAIN handled : \E k \in DOMAIN File : File[k].msg = handled[i]
      <4>1. \A i \in DOMAIN handled : i <= i
        BY DEF SeqTypes
      <4>. QED  BY <3>2, <4>1 DEF InOrderOf, Msgs
    <3>. QED  BY <2>1, <3>1, <3>3 DEF Reads, Grows
  <2>. QED  BY <1>2, <2>2, <2>3
<1>. QED  BY <1>1, <1>2 DEF HandleInv

\* What is unread comes after all that was handled.
LEMMA UnreadFollows ==
  ASSUME MailTypeOK, LockKept, SeqTypes, FileInv, HandleInv, ReadKnown
  PROVE  InOrderOf(handled \o Msgs(Unread), Msgs(File))
<1>. DEFINE u == Unread
            b == Msgs(Unread)
            h == handled
<1>1. InOrderOf(h, Msgs(File)) /\ h \in Seq(Messages)
  BY PrefixInOrder DEF HandleInv, SeqTypes
<1>2. u \in Seq(Entries) /\ b \in Seq(Messages)
  BY UnreadType
<1>3. CASE \E p \in Users : at[p] = "emptied"
  <2>1. inbox = <<>>
    BY <1>3 DEF FileInv, CopyFresh
  <2>2. u = <<>>
    BY <2>1, ThoseOfNone DEF Unread
  <2>3. b = <<>>
    <3>1. DOMAIN b = DOMAIN u
      BY <1>2, MsgsType
    <3>2. DOMAIN u = {}
      BY <2>2
    <3>3. Len(b) = 0
      <4>1. DOMAIN b = 1 .. Len(b) /\ Len(b) \in Nat
        BY <1>2
      <4>. QED  BY <3>1, <3>2, <4>1
    <3>. QED  BY <1>2, <3>3, EmptySeq
  <2>. QED  BY <1>1, <2>3, ConcatEmptySeq
<1>4. CASE \A p \in Users : at[p] # "emptied"
  <2>1. File = inbox /\ inbox \in Seq(Entries)
    BY <1>4, FileIs DEF MailTypeOK
  <2>2. InOrderOf(u, File)
    BY <2>1, ThoseInOrder DEF Unread
  <2>3. \A i \in DOMAIN u : u[i].read = FALSE
    <3>. DEFINE V == Entries \cap [msg : Messages, read : {FALSE}]
    <3>1. u \in Seq(V)
      BY <2>1, ThoseType DEF Unread
    <3>. HIDE DEF u, V
    <3>2. \A i \in DOMAIN u : u[i] \in V
      BY <3>1
    <3>3. \A i \in DOMAIN u : u[i] \in [msg : Messages, read : {FALSE}]
      BY <3>2 DEF V
    <3>. QED  BY <3>3
  <2>4. DOMAIN b = DOMAIN u /\ \A i \in DOMAIN u : b[i] = u[i].msg
    BY <1>2, MsgsType
  <2>5. DOMAIN Msgs(File) = DOMAIN File /\ \A k \in DOMAIN File : Msgs(File)[k] = File[k].msg
    BY DEF Msgs
  <2>n. DOMAIN File \subseteq Nat /\ DOMAIN h \subseteq Nat /\ DOMAIN b \subseteq Nat
    BY <1>1, <1>2, <2>1
  <2>6. Reads(h) /\ ReadFirst(File)
    BY DEF HandleInv, FileInv
  <2>. HIDE DEF u, b, h
  <2>7. \A i, j \in DOMAIN b :
          i <= j => \E k, l \in DOMAIN File :
                      /\ k <= l /\ (i < j => k < l)
                      /\ File[k].msg = b[i] /\ File[l].msg = b[j]
    BY <2>2, <2>4 DEF InOrderOf
  <2>8. \A i, j \in DOMAIN h :
          i <= j => \E k, l \in DOMAIN File :
                      /\ k <= l /\ (i < j => k < l)
                      /\ File[k].msg = h[i] /\ File[l].msg = h[j]
    BY <1>1, <2>5 DEF InOrderOf
  <2>9. \A i \in DOMAIN h, j \in DOMAIN b :
          \E k, l \in DOMAIN File : k < l /\ File[k].msg = h[i] /\ File[l].msg = b[j]
    <3>. SUFFICES ASSUME NEW i \in DOMAIN h, NEW j \in DOMAIN b
                  PROVE  \E k, l \in DOMAIN File :
                           k < l /\ File[k].msg = h[i] /\ File[l].msg = b[j]
      OBVIOUS
    <3>1. PICK k \in DOMAIN File : File[k].msg = h[i] /\ File[k].read = TRUE
      BY <2>6 DEF Reads
    <3>2. PICK l \in DOMAIN File : File[l] = u[j]
      <4>1. j <= j /\ j \in DOMAIN u
        BY <2>4, <2>n
      <4>. QED  BY <2>2, <4>1 DEF InOrderOf
    <3>3. File[l].read = FALSE /\ File[l].msg = b[j]
      BY <2>3, <2>4, <3>2
    <3>4. k # l /\ ~(l < k)
      BY <2>6, <3>1, <3>3 DEF ReadFirst
    <3>5. k < l
      BY <2>n, <3>4
    <3>. QED  BY <3>1, <3>3, <3>5
  <2>10. /\ Len(h) \in Nat /\ Len(b) \in Nat
         /\ DOMAIN h = 1 .. Len(h) /\ DOMAIN b = 1 .. Len(b)
         /\ DOMAIN (h \o b) = 1 .. Len(h) + Len(b)
         /\ \A i \in 1 .. Len(h) : (h \o b)[i] = h[i]
         /\ \A i \in Len(h) + 1 .. Len(h) + Len(b) : (h \o b)[i] = b[i - Len(h)]
    BY <1>1, <1>2 DEF h, b
  <2>11. ASSUME NEW i \in DOMAIN (h \o b), NEW j \in DOMAIN (h \o b), i <= j
         PROVE  \E k, l \in DOMAIN File :
                  /\ k <= l /\ (i < j => k < l)
                  /\ File[k].msg = (h \o b)[i] /\ File[l].msg = (h \o b)[j]
    <3>1. CASE j <= Len(h)
      <4>1. i \in DOMAIN h /\ j \in DOMAIN h /\ (h \o b)[i] = h[i] /\ (h \o b)[j] = h[j]
        BY <2>10, <2>11, <3>1
      <4>. QED  BY <2>8, <2>11, <4>1
    <3>2. CASE i > Len(h)
      <4>1. /\ i - Len(h) \in DOMAIN b /\ j - Len(h) \in DOMAIN b
            /\ (h \o b)[i] = b[i - Len(h)] /\ (h \o b)[j] = b[j - Len(h)]
            /\ i - Len(h) <= j - Len(h) /\ (i < j => i - Len(h) < j - Len(h))
        BY <2>10, <2>11, <3>2
      <4>2. PICK k, l \in DOMAIN File :
              /\ k <= l /\ (i - Len(h) < j - Len(h) => k < l)
              /\ File[k].msg = b[i - Len(h)] /\ File[l].msg = b[j - Len(h)]
        BY <2>7, <4>1
      <4>. QED  BY <4>1, <4>2
    <3>3. CASE i <= Len(h) /\ j > Len(h)
      <4>1. /\ i \in DOMAIN h /\ j - Len(h) \in DOMAIN b
            /\ (h \o b)[i] = h[i] /\ (h \o b)[j] = b[j - Len(h)]
        BY <2>10, <2>11, <3>3
      <4>2. PICK k, l \in DOMAIN File :
              k < l /\ File[k].msg = h[i] /\ File[l].msg = b[j - Len(h)]
        BY <2>9, <4>1
      <4>3. k <= l
        BY <2>n, <4>2
      <4>. QED  BY <4>1, <4>2, <4>3
    <3>. QED  BY <2>10, <2>11, <3>1, <3>2, <3>3
  <2>12. InOrderOf(h \o b, Msgs(File))
    BY <2>5, <2>11 DEF InOrderOf
  <2>. QED  BY <2>12 DEF h, b
<1>. QED  BY <1>3, <1>4

LEMMA HandleStep ==
  ASSUME MailInv, SeqTypes, FileInv, HandleInv, [Next]_vars, aged = 0, aged' = 0
  PROVE  HandleInv'
<1>1. Grows
  BY FileGoesOn
<1>2. at'[Runner] \in Written \/ at'[Runner] \notin Written
  OBVIOUS
<1>3. ASSUME batch' = batch, handled' = handled,
             ReadKnown' => ReadKnown \/ (at[Runner] \notin Written /\ at'[Runner] \in Written)
      PROVE  HandleInv'
  <2>1. InOrderOf(handled' \o batch', Msgs(File))
    BY <1>3 DEF HandleInv
  <2>. QED  BY <1>1, <1>3, <2>1, HandleKept
<1>4. CASE UNCHANGED <<run, batch, handled>>
  <2>1. ReadKnown' => ReadKnown \/ (at[Runner] \notin Written /\ at'[Runner] \in Written)
    BY <1>4 DEF ReadKnown
  <2>. QED  BY <1>3, <1>4, <2>1
<1>5. CASE TurnEnds \/ Drain \/ EndRead
  <2>1. ReadKnown
    BY <1>5 DEF TurnEnds, Drain, EndRead, ReadKnown, Loops
  <2>. QED  BY <1>3, <1>5, <2>1 DEF TurnEnds, Drain, EndRead, saidVars
<1>6. CASE Acted
  <2>1. ReadKnown
    BY <1>6 DEF Acted, Return, ReadKnown, Written
  <2>. QED  BY <1>3, <1>6, <2>1 DEF Acted
<1>7. CASE MarkFailed \/ Cancelled \/ Dropped \/ Stop \/ Release
  <2>1. run' \in {"failing", "stopping", "releasing", "again", "over"}
    BY <1>7 DEF MarkFailed, Cancelled, Dropped, Stop, Release
  <2>2. ~ReadKnown'
    BY <2>1 DEF ReadKnown, Loops
  <2>. QED
    BY <1>3, <1>7, <2>2 DEF MarkFailed, Cancelled, Dropped, Stop, Release, saidVars
<1>8. CASE Mark
  <2>1. run' = "marking" /\ at'[Runner] = "wait"
    BY <1>8 DEF Mark, Want, GoOn, MailInv, MailTypeOK, Users
  <2>2. ~ReadKnown'
    BY <2>1 DEF ReadKnown, Written, Loops
  <2>. QED  BY <1>3, <1>8, <2>2 DEF Mark, saidVars
<1>9. CASE Fail
  <2>1. ~ReadKnown'
    <3>1. run' \in {"releasing", "again"}
      BY <1>9 DEF Fail
    <3>. QED  BY <3>1 DEF ReadKnown, Loops
  <2>2. InOrderOf(handled, Msgs(File))
    BY PrefixInOrder DEF HandleInv, SeqTypes
  <2>3. handled' \o batch' = handled
    BY <1>9, ConcatEmptySeq DEF Fail, saidVars, SeqTypes
  <2>. QED  BY <1>1, <2>1, <2>2, <2>3, HandleKept
<1>10. CASE BeginRead
  <2>1. ReadKnown /\ handled' = handled
    BY <1>10 DEF BeginRead, ReadKnown, saidVars
  <2>2. InOrderOf(handled' \o batch', Msgs(File))
    <3>1. CASE batch' = Msgs(Unread)
      BY <2>1, <3>1, UnreadFollows DEF MailInv
    <3>2. CASE batch' = <<>>
      <4>1. InOrderOf(handled, Msgs(File))
        BY PrefixInOrder DEF HandleInv, SeqTypes
      <4>. QED  BY <2>1, <3>2, <4>1, ConcatEmptySeq DEF SeqTypes
    <3>. QED  BY <1>10, <3>1, <3>2 DEF BeginRead
  <2>. QED  BY <1>1, <2>1, <2>2, HandleKept
<1>11. CASE Act
  <2>1. ~ReadKnown'
    <3>1. run' \in {"acting", "failing"}
      BY <1>11 DEF Act, ActOnPlain, ActOnApproval, ActOnShutdown, ActOnOther
    <3>. QED  BY <3>1 DEF ReadKnown, Loops
  <2>2. batch \in Seq(Messages) /\ batch # <<>> /\ handled \in Seq(Messages)
        /\ handled' = Append(handled, Head(batch)) /\ batch' = Tail(batch)
    BY <1>11 DEF Act, SeqTypes
  <2>3. Append(handled, Head(batch)) \o Tail(batch) = handled \o batch
    BY <2>2
  <2>4. InOrderOf(handled' \o batch', Msgs(File))
    BY <2>2, <2>3 DEF HandleInv
  <2>. QED  BY <1>1, <2>1, <2>4, HandleKept
<1>. QED
  BY <1>4, <1>5, <1>6, <1>7, <1>8, <1>9, <1>10, <1>11
  DEF Next, vars, Send, Sending, Ages, Attach, ToolStarts, ToolClaims, ToolIsDone, ToolEnds,
      Inboxing, Marking, Ending, Leaving, KillStops, Killing, KillCancels,
      KillAborts, KillReleases, runVars, saidVars

\* As long as no lock was old, what process_mailbox has handled and what it has
\* read are messages of the file in its order, each entry once.
THEOREM ReadingCorrect == Spec => [](aged = 0 => FileInv /\ HandleInv)
<1>1. Init => (aged = 0 => FileInv /\ HandleInv)
  <2> SUFFICES ASSUME Init PROVE FileInv /\ HandleInv  OBVIOUS
  <2>1. inbox = <<>> /\ \A p \in Users : at[p] = "out"
    BY DEF Init, MailInit
  <2>2. File = <<>>
    BY <2>1 DEF File
  <2>3. FileInv
    BY <2>1, <2>2 DEF FileInv, CopyFresh, AreWritten, OnceEach, ReadFirst
  <2>4. handled = <<>> /\ batch = <<>>
    BY DEF Init
  <2>5. handled \o batch = <<>>
    BY <2>4
  <2>6. HandleInv
    BY <2>4, <2>5 DEF HandleInv, InOrderOf, Reads
  <2>. QED  BY <2>3, <2>6
<1>2. /\ MailInv /\ TypeOK /\ (aged = 0 => FileInv /\ HandleInv)
      /\ MailInv' /\ [Next]_vars
      => (aged = 0 => FileInv /\ HandleInv)'
  <2> SUFFICES ASSUME MailInv, TypeOK, aged = 0 => FileInv /\ HandleInv,
                      MailInv', [Next]_vars, aged' = 0
               PROVE  FileInv' /\ HandleInv'
    OBVIOUS
  <2>1. aged = 0
    <3>1. aged \in Nat
      BY MailAssumption DEF MailInv, MailTypeOK
    <3>2. aged' \in {aged, aged + 1}
      BY StepsOfTheMailbox
      DEF mailVars, MailStep, LockAges, Want, Return, WithLock, TakeLock, SeeOld, BreakLock,
          GiveUp, ReadAgain, Truncate, Fill, Unlock
    <3>. QED  BY <3>1, <3>2
  <2>2. SeqTypes
    BY TypeParts
  <2>. QED  BY <2>1, <2>2, FileGoesOn, HandleStep
<1>. QED  BY <1>1, <1>2, MailCorrect, TeamTypeCorrect, PTL DEF Spec

\* HandledInOrder for any number of messages and senders: the teammate handles
\* the messages of its inbox once and in the order in which they were written,
\* although it reads without the lock (process_mailbox, mark_all_as_read).
THEOREM MessagesAreHandledInOrder == Spec => []HandledInOrder
<1>1. TypeOK /\ (aged = 0 => FileInv /\ HandleInv) => HandledInOrder
  BY PrefixInOrder, TypeParts DEF SeqTypes, HandleInv, HandledInOrder
<1>. QED  BY <1>1, TeamTypeCorrect, ReadingCorrect, PTL

-----------------------------------------------------------------------------
(* What the engine is given.                                               *)

PlainOnes == {m \in Messages : kind[m] = "plain"}

\* What the engine was given, and what still waits for it.
Given == prompts \o pending \o plain

AllGiven ==
  /\ Those(Given, PlainOnes) = Those(handled, PlainOnes)
  /\ Members(Given) = {m \in Members(handled) : kind[m] \in {"plain", "approval"}}

\* Where nothing waits.
NoneWaits ==
  /\ run \in {"turn", "idle", "drain", "reading"} => plain = <<>>
  /\ run = "idle" \/ (run = "reading" /\ from = "idle") => pending = <<>>
  /\ run \in {"idle", "turn", "drain", "marking"} => batch = <<>>

\* Until the runner ends.
GivenInv == NoneWaits /\ (run \notin {"releasing", "again", "over"} => AllGiven)

LEMMA MembersAppended ==
  ASSUME NEW s \in Seq(Messages), NEW m \in Messages
  PROVE  Members(Append(s, m)) = Members(s) \cup {m}
<1>1. /\ Len(s) \in Nat /\ DOMAIN s = 1 .. Len(s)
      /\ DOMAIN Append(s, m) = 1 .. Len(s) + 1
      /\ \A i \in 1 .. Len(s) : Append(s, m)[i] = s[i]
      /\ Append(s, m)[Len(s) + 1] = m
  OBVIOUS
<1>2. ASSUME NEW x, x \in Members(Append(s, m)) PROVE x \in Members(s) \cup {m}
  <2>1. PICK i \in DOMAIN Append(s, m) : x = Append(s, m)[i]
    BY <1>2 DEF Members
  <2>2. i \in 1 .. Len(s) \/ i = Len(s) + 1
    BY <1>1, <2>1
  <2>. QED  BY <1>1, <2>1, <2>2 DEF Members
<1>3. ASSUME NEW x, x \in Members(s) \cup {m} PROVE x \in Members(Append(s, m))
  <2>1. \A i \in 1 .. Len(s) + 1 : Append(s, m)[i] \in Members(Append(s, m))
    BY <1>1 DEF Members
  <2>2. CASE x = m
    <3>1. Len(s) + 1 \in 1 .. Len(s) + 1
      BY <1>1
    <3>. QED  BY <1>1, <2>1, <2>2, <3>1
  <2>3. CASE x \in Members(s)
    <3>1. PICK i \in DOMAIN s : x = s[i]
      BY <2>3 DEF Members
    <3>2. i \in 1 .. Len(s) + 1 /\ Append(s, m)[i] = x
      BY <1>1, <3>1
    <3>. QED  BY <2>1, <3>2
  <2>. QED  BY <1>3, <2>2, <2>3
<1>. QED  BY <1>2, <1>3

LEMMA MembersJoined ==
  ASSUME NEW s \in Seq(Messages), NEW t \in Seq(Messages)
  PROVE  Members(s \o t) = Members(s) \cup Members(t)
<1>1. /\ Len(s) \in Nat /\ Len(t) \in Nat
      /\ DOMAIN s = 1 .. Len(s) /\ DOMAIN t = 1 .. Len(t)
      /\ DOMAIN (s \o t) = 1 .. Len(s) + Len(t)
      /\ \A i \in 1 .. Len(s) : (s \o t)[i] = s[i]
      /\ \A i \in 1 .. Len(t) : (s \o t)[i + Len(s)] = t[i]
  OBVIOUS
<1>2. ASSUME NEW i \in DOMAIN (s \o t) PROVE (s \o t)[i] \in Members(s) \cup Members(t)
  <2>1. CASE i <= Len(s)
    <3>1. i \in DOMAIN s /\ (s \o t)[i] = s[i]
      BY <1>1, <2>1
    <3>. QED  BY <3>1 DEF Members
  <2>2. CASE i > Len(s)
    <3>1. i - Len(s) \in 1 .. Len(t) /\ (i - Len(s)) + Len(s) = i
      BY <1>1, <2>2
    <3>2. (s \o t)[i] = t[i - Len(s)] /\ i - Len(s) \in DOMAIN t
      BY <1>1, <3>1
    <3>. QED  BY <3>2 DEF Members
  <2>. QED  BY <1>1, <2>1, <2>2
<1>3. ASSUME NEW i \in DOMAIN s PROVE s[i] \in Members(s \o t)
  <2>1. i \in DOMAIN (s \o t) /\ (s \o t)[i] = s[i]
    BY <1>1
  <2>. QED  BY <2>1 DEF Members
<1>4. ASSUME NEW i \in DOMAIN t PROVE t[i] \in Members(s \o t)
  <2>1. i + Len(s) \in DOMAIN (s \o t) /\ (s \o t)[i + Len(s)] = t[i]
    BY <1>1
  <2>. QED  BY <2>1 DEF Members
<1>. QED  BY <1>2, <1>3, <1>4 DEF Members

\* What is given in other parts is the same.
LEMMA GivenStays ==
  ASSUME AllGiven, handled' = handled, kind' = kind, Given' = Given
  PROVE  AllGiven'
BY DEF AllGiven, PlainOnes, Members

LEMMA GivenWhenHandled ==
  ASSUME SeqTypes, AllGiven, Act
  PROVE  AllGiven'
<1>. DEFINE m == Head(batch)
            P == PlainOnes
            q == prompts \o pending
<1>a. /\ \A s \in Seq(Messages), x \in Messages :
           Those(Append(s, x), P) = IF x \in P THEN Append(Those(s, P), x) ELSE Those(s, P)
      /\ \A s, t \in Seq(Messages) : Those(s \o t, P) = Those(s, P) \o Those(t, P)
  BY ThoseAppended, ThoseConcat
<1>1. m \in Messages /\ handled \in Seq(Messages)
  BY HeadTailProperties DEF Act, SeqTypes
<1>2. handled' = Append(handled, m) /\ kind' = kind /\ prompts' = prompts /\ P' = P
  BY DEF Act, PlainOnes
<1>3. q \in Seq(Messages) /\ Given = q \o plain /\ Given \in Seq(Messages)
  BY ConcatProperties DEF SeqTypes, Given
<1>4. P \subseteq Messages /\ (m \in P <=> kind[m] = "plain")
  BY <1>1 DEF PlainOnes
<1>5. /\ Those(handled', P) = IF m \in P THEN Append(Those(handled, P), m)
                                         ELSE Those(handled, P)
      /\ Members(handled') = Members(handled) \cup {m}
  BY <1>1, <1>2, ThoseAppended, MembersAppended
<1>t. Those(Given, P) = Those(handled, P)
      /\ Members(Given) = {x \in Members(handled) : kind[x] \in {"plain", "approval"}}
  BY DEF AllGiven
<1>6. CASE kind[m] = "plain" /\ ActOnPlain
  <2>1. plain' = Append(plain, m) /\ pending' = pending
    BY <1>6 DEF ActOnPlain
  <2>2. Given' = q \o Append(plain, m)
    BY <1>2, <2>1 DEF Given
  <2>3. q \o Append(plain, m) = Append(Given, m)
    BY <1>1, <1>3 DEF SeqTypes
  <2>4. Those(Given', P) = Append(Those(Given, P), m)
        /\ Members(Given') = Members(Given) \cup {m}
    <3>1. m \in P /\ Given' = Append(Given, m)
      BY <1>4, <1>6, <2>2, <2>3
    <3>. HIDE DEF m, P
    <3>. QED  BY <1>a, <1>1, <1>3, <3>1, MembersAppended
  <2>. QED  BY <1>2, <1>4, <1>5, <1>6, <1>t, <2>4 DEF AllGiven
<1>7. CASE kind[m] = "approval" /\ ActOnApproval
  <2>1. pending' = Append(pending, m) /\ plain' = plain
    BY <1>7 DEF ActOnApproval
  <2>2. Given' = (prompts \o Append(pending, m)) \o plain
    BY <1>2, <2>1 DEF Given
  <2>3. prompts \o Append(pending, m) = Append(q, m) /\ Append(q, m) \in Seq(Messages)
    BY <1>1 DEF SeqTypes
  <2>4. Those(Given', P) = Those(Append(q, m), P) \o Those(plain, P)
        /\ Members(Given') = Members(Append(q, m)) \cup Members(plain)
    <3>1. Given' = Append(q, m) \o plain /\ plain \in Seq(Messages)
      BY <2>2, <2>3 DEF SeqTypes
    <3>. HIDE DEF m, P, q
    <3>. QED  BY <1>a, <2>3, <3>1, MembersJoined
  <2>5. Those(Append(q, m), P) = Those(q, P) /\ Members(Append(q, m)) = Members(q) \cup {m}
    BY <1>1, <1>3, <1>4, <1>7, ThoseAppended, MembersAppended
  <2>6. Those(Given, P) = Those(q, P) \o Those(plain, P)
        /\ Members(Given) = Members(q) \cup Members(plain)
    <3>1. plain \in Seq(Messages)
      BY DEF SeqTypes
    <3>. HIDE DEF m, P, q
    <3>. QED  BY <1>a, <1>3, <3>1, MembersJoined
  <2>7. Those(Given', P) = Those(handled', P)
    BY <1>4, <1>5, <1>7, <1>t, <2>4, <2>5, <2>6
  <2>8. Members(Given') = Members(Given) \cup {m}
    BY <2>4, <2>5, <2>6
  <2>. QED  BY <1>2, <1>5, <1>7, <1>t, <2>7, <2>8 DEF AllGiven
<1>8. CASE kind[m] \in {"shutdown", "other"} /\ UNCHANGED <<plain, pending>>
  <2>1. Given' = Given
    BY <1>2, <1>8 DEF Given
  <2>. QED  BY <1>2, <1>4, <1>5, <1>8, <1>t, <2>1 DEF AllGiven
<1>. QED
  BY <1>6, <1>7, <1>8 DEF Act, ActOnShutdown, ActOnOther

\* Nothing waits where nobody would look for it.
LEMMA NoneWaitsStep ==
  ASSUME RunTypes, NoneWaits, [Next]_vars
  PROVE  NoneWaits'
<1> USE DEF NoneWaits, RunTypes
<1>1. CASE UNCHANGED <<run, from, batch, plain, pending>>
  BY <1>1
<1>2. CASE TurnEnds \/ BeginRead
  BY <1>2 DEF TurnEnds, BeginRead, saidVars, Loops
<1>3. CASE EndRead
  <2>1. \/ batch = <<>> /\ run' = from
        \/ run' \in {"acting", "failing"}
    BY <1>3 DEF EndRead
  <2>. QED  BY <1>3, <2>1 DEF EndRead, saidVars, Loops
<1>4. CASE Act
  <2>1. run' \in {"acting", "failing"}
    BY <1>4 DEF Act, ActOnPlain, ActOnApproval, ActOnShutdown, ActOnOther
  <2>. QED  BY <2>1
<1>5. CASE Mark
  BY <1>5 DEF Mark, saidVars
<1>6. CASE Acted
  <2>1. plain' = <<>> /\ batch' = batch /\ run = "marking"
    BY <1>6 DEF Acted
  <2>2. run' = "idle" => pending' = <<>>
    BY <1>6 DEF Acted
  <2>3. run' \in {"idle", "turn", "stopping"}
    BY <1>6 DEF Acted
  <2>. QED  BY <2>1, <2>2, <2>3
<1>7. CASE Drain
  <2>1. run = "drain" /\ run' \in {"idle", "turn"} /\ pending' = <<>>
        /\ UNCHANGED <<batch, plain>>
    BY <1>7 DEF Drain
  <2>. QED  BY <2>1
<1>8. CASE MarkFailed \/ Cancelled \/ Dropped \/ Fail \/ Stop \/ Release
  <2>1. run' \in {"failing", "stopping", "releasing", "again", "over"}
    BY <1>8 DEF MarkFailed, Cancelled, Dropped, Fail, Stop, Release
  <2>. QED  BY <2>1
<1>. QED
  BY <1>1, <1>2, <1>3, <1>4, <1>5, <1>6, <1>7, <1>8
  DEF Next, vars, Send, Sending, Ages, Attach, ToolStarts, ToolClaims, ToolIsDone, ToolEnds,
      Inboxing, Marking, Ending, Leaving, KillStops, Killing, KillCancels,
      KillAborts, KillReleases, runVars, saidVars

LEMMA KindsStay ==
  ASSUME [Next]_vars
  PROVE  kind' = kind
BY DEF Next, vars, Send, Sending, Ages, Attach, ToolStarts, ToolClaims, ToolIsDone, ToolEnds,
       TurnEnds, Inboxing, BeginRead, EndRead, Act, Mark, Marking, Acted, MarkFailed, Ending,
       Cancelled, Dropped, Leaving, Drain, Fail, Stop, Release, KillStops, Killing,
       KillCancels, KillAborts, KillReleases

\* Nothing is lost between the engine, the registry and process_mailbox.
LEMMA AllGivenStep ==
  ASSUME SeqTypes, NoneWaits, AllGiven, [Next]_vars,
         run' \notin {"releasing", "again", "over"}
  PROVE  AllGiven'
<1>k. kind' = kind
  BY KindsStay
<1>1. CASE UNCHANGED <<plain, saidVars>>
  BY <1>k, <1>1, GivenStays DEF Given, saidVars
<1>2. CASE Act
  BY <1>2, GivenWhenHandled
<1>3. CASE Acted
  <2>1. plain' = <<>> /\ handled' = handled
    BY <1>3 DEF Acted
  <2>2. \/ prompts' = prompts \o pending \o plain /\ pending' = <<>>
        \/ prompts' = prompts /\ pending' = pending \o plain
    BY <1>3 DEF Acted
  <2>3. /\ prompts \in Seq(Messages) /\ pending \in Seq(Messages) /\ plain \in Seq(Messages)
        /\ prompts \o pending \in Seq(Messages) /\ pending \o plain \in Seq(Messages)
        /\ prompts \o pending \o plain \in Seq(Messages)
    BY ConcatProperties DEF SeqTypes
  <2>4. CASE prompts' = prompts \o pending \o plain /\ pending' = <<>>
    <3>1. Given' = ((prompts \o pending \o plain) \o <<>>) \o <<>>
      BY <2>1, <2>4 DEF Given
    <3>2. Given' = Given
      BY <2>3, <3>1, ConcatEmptySeq DEF Given
    <3>. QED  BY <1>k, <2>1, <3>2, GivenStays
  <2>5. CASE prompts' = prompts /\ pending' = pending \o plain
    <3>1. Given' = (prompts \o (pending \o plain)) \o <<>>
      BY <2>1, <2>5 DEF Given
    <3>2. prompts \o (pending \o plain) = prompts \o pending \o plain
      BY <2>3, ConcatAssociative
    <3>3. Given' = Given
      BY <2>3, <3>1, <3>2, ConcatEmptySeq DEF Given
    <3>. QED  BY <1>k, <2>1, <3>3, GivenStays
  <2>. QED  BY <2>2, <2>4, <2>5
<1>4. CASE Drain
  <2>1. /\ prompts' = prompts \o pending /\ pending' = <<>>
        /\ plain' = plain /\ handled' = handled
    BY <1>4 DEF Drain
  <2>2. Given' = ((prompts \o pending) \o <<>>) \o plain
    BY <2>1 DEF Given
  <2>3. prompts \o pending \in Seq(Messages)
    BY ConcatProperties DEF SeqTypes
  <2>4. Given' = Given
    BY <2>2, <2>3, ConcatEmptySeq DEF Given
  <2>. QED  BY <1>k, <2>1, <2>4, GivenStays
<1>5. CASE Fail \/ Stop \/ Release \/ Dropped
  <2>1. run' \in {"releasing", "again", "over"}
    BY <1>5 DEF Fail, Stop, Release, Dropped
  <2>. QED  BY <2>1
<1>. QED
  BY <1>1, <1>2, <1>3, <1>4, <1>5
  DEF Next, vars, Send, Sending, Ages, Attach, ToolStarts, ToolClaims, ToolIsDone, ToolEnds,
      TurnEnds, Inboxing, BeginRead, EndRead, Mark, Marking, MarkFailed, Ending, Cancelled,
      Leaving, KillStops, Killing, KillCancels, KillAborts, KillReleases, runVars

\* Who is at its end stays there.
LEMMA EndsStayEnds ==
  ASSUME [Next]_vars, run \in {"releasing", "again", "over"}
  PROVE  run' \in {"releasing", "again", "over"}
<1>1. CASE UNCHANGED run  BY <1>1
<1>2. CASE Release  BY <1>2 DEF Release
<1>. QED
  BY <1>1, <1>2
  DEF Next, vars, Send, Sending, Ages, Attach, ToolStarts, ToolClaims, ToolIsDone, ToolEnds,
      TurnEnds, Inboxing, BeginRead, EndRead, Act, Mark, Marking, Acted, MarkFailed, Ending,
      Cancelled, Dropped, Leaving, Drain, Fail, Stop, KillStops, Killing, KillCancels,
      KillAborts, KillReleases, runVars, Loops

\* Until the runner ends, what it has handled and is meant for the engine was
\* given to it, or waits where drive_engine_turn and run_teammate look for it.
THEOREM DeliveryCorrect == Spec => []GivenInv
<1>1. Init => GivenInv
  <2> SUFFICES ASSUME Init PROVE GivenInv  OBVIOUS
  <2>1. NoneWaits
    BY DEF Init, NoneWaits
  <2>2. prompts = <<>> /\ pending = <<>> /\ plain = <<>> /\ handled = <<>>
    BY DEF Init
  <2>3. Given = handled
    BY <2>2 DEF Given
  <2>4. Members(handled) = {}
    BY <2>2 DEF Members
  <2>5. AllGiven
    BY <2>3, <2>4 DEF AllGiven
  <2>. QED  BY <2>1, <2>5 DEF GivenInv
<1>2. TypeOK /\ GivenInv /\ [Next]_vars => GivenInv'
  <2> SUFFICES ASSUME TypeOK, GivenInv, [Next]_vars PROVE GivenInv'  OBVIOUS
  <2>1. RunTypes /\ SeqTypes
    BY TypeParts
  <2>. QED  BY <2>1, NoneWaitsStep, AllGivenStep, EndsStayEnds DEF GivenInv
<1>. QED  BY <1>1, <1>2, TeamTypeCorrect, PTL DEF Spec

\* IdleMeansDelivered for any number of messages: no message waits in the
\* registry while the teammate is idle (drive_engine_turn, run_teammate and
\* take_pending_user_messages).
THEOREM NothingWaitsWhileIdle == Spec => []IdleMeansDelivered
<1>1. TypeOK /\ GivenInv => IdleMeansDelivered
  <2> SUFFICES ASSUME TypeOK, GivenInv, run = "idle" PROVE
                 /\ Those(prompts, PlainOnes) = Those(handled, PlainOnes)
                 /\ Members(prompts) =
                      {m \in Members(handled) : kind[m] \in {"plain", "approval"}}
                 /\ plain = <<>> /\ batch = <<>>
    BY DEF IdleMeansDelivered, PlainOnes
  <2>1. plain = <<>> /\ pending = <<>> /\ batch = <<>> /\ AllGiven
    BY DEF GivenInv, NoneWaits
  <2>2. Given = prompts
    BY <2>1, TypeParts, ConcatEmptySeq DEF Given, SeqTypes
  <2>. QED  BY <2>1, <2>2 DEF AllGiven
<1>. QED  BY <1>1, TeamTypeCorrect, DeliveryCorrect, PTL

-----------------------------------------------------------------------------
(* The tasks of a teammate that is gone.                                   *)

\* A runner that is leaving has left its tools; only a kill that has cancelled may
\* drop it; and whoever has released the tasks released all of them.
ReleaseInv ==
  /\ run \in {"releasing", "again", "over"} => tool # "running"
  /\ aborted => killer \in {"release", "done"}
  /\ killer = "done" /\ late = 0 /\ ~kept => ~owns
  /\ killer = "new" /\ run = "over" /\ late = 0 /\ ~kept => ~owns
  /\ late \in Nat /\ from \in Loops

LEMMA ReleaseStep ==
  ASSUME ReleaseInv, [Next]_vars
  PROVE  ReleaseInv'
<1> USE DEF ReleaseInv
<1>1. CASE UNCHANGED vars
  BY <1>1 DEF vars, runVars, killVars, taskVars
<1>2. CASE Ages \/ \E m \in Messages : Send(m) \/ Sending(m)
  BY <1>2 DEF Ages, Send, Sending, runVars, killVars, taskVars
<1>3. CASE Attach \/ ToolStarts \/ ToolEnds \/ TurnEnds
  BY <1>3 DEF Attach, ToolStarts, ToolEnds, TurnEnds, runVars, killVars, taskVars
<1>4. CASE ToolClaims \/ ToolIsDone
  BY <1>4 DEF ToolClaims, ToolIsDone, runVars, killVars
<1>5. CASE Inboxing
  <2>1. CASE Act
    <3>1. run' \in {run, "failing"}
      BY <2>1 DEF Act, ActOnPlain, ActOnApproval, ActOnShutdown, ActOnOther
    <3>2. QED  BY <2>1, <3>1 DEF Act, killVars, taskVars
  <2>2. CASE BeginRead \/ EndRead
    <3>1. run' \in Loops \cup {"reading", "acting", "failing"} /\ from' \in Loops
      BY <2>2 DEF BeginRead, EndRead
    <3>2. QED  BY <2>2, <3>1 DEF BeginRead, EndRead, killVars, taskVars, Loops
  <2>3. CASE Mark \/ Marking  BY <2>3 DEF Mark, Marking, runVars, killVars, taskVars
  <2>4. CASE Acted \/ MarkFailed
    BY <2>4 DEF Acted, MarkFailed, killVars, taskVars
  <2>5. QED  BY <1>5, <2>1, <2>2, <2>3, <2>4 DEF Inboxing
<1>6. CASE Cancelled \/ Drain
  BY <1>6 DEF Cancelled, Drain, killVars, taskVars
<1>7. CASE Fail \/ Stop \/ Dropped
  BY <1>7 DEF Fail, Stop, Dropped, LeaveTool, killVars
<1>8. CASE Release
  BY <1>8 DEF Release, Unassign, killVars
<1>9. CASE KillStops \/ KillCancels \/ KillAborts
  BY <1>9 DEF KillStops, KillCancels, KillAborts, runVars, taskVars
<1>10. CASE KillReleases
  BY <1>10 DEF KillReleases, Unassign, runVars
<1>11. QED
  BY <1>1, <1>2, <1>3, <1>4, <1>5, <1>6, <1>7, <1>8, <1>9, <1>10
  DEF Next, Ending, Leaving, Killing

\* TasksReleased, whatever messages there are and however the runner ends:
\* release_teammate_tasks and the kill of command.rs leave no task behind.
THEOREM TasksAreReleased == Spec => []TasksReleased
<1>1. Init => ReleaseInv
  BY DEF Init, ReleaseInv, Loops
<1>2. ReleaseInv /\ [Next]_vars => ReleaseInv'  BY ReleaseStep
<1>3. ReleaseInv => TasksReleased  BY DEF ReleaseInv, TasksReleased
<1>4. QED  BY <1>1, <1>2, <1>3, PTL DEF Spec
=============================================================================
