------------------------------- MODULE Mailbox -------------------------------
(***************************************************************************)
(* A teammate's inbox and its lock (crates/cc-teams/src/mailbox.rs): a     *)
(* JSON file that others append to and the teammate marks as read, each    *)
(* under a lock file of its own making; and reading it, which takes no     *)
(* lock.  Every process gets through the lock at most once at a time.      *)
(***************************************************************************)
EXTENDS Filters

CONSTANTS
  Messages,  \* the messages that are sent, each by a task of its own
  Runner,    \* the teammate, who reads
  NoOne,     \* nobody holds the lock
  MaxOld     \* how often a lock lives to be five seconds old

ASSUME MailAssumption ==
  /\ Runner \notin Messages /\ NoOne \notin Messages \cup {Runner}
  /\ MaxOld \in Nat

VARIABLES
  inbox,     \* what the file holds; <<>> while it is absent or truncated
  garbled,   \* the file is no JSON
  lock,      \* who has created the lock file that is there
  old,       \* it is older than five seconds
  at,        \* where each process is in with_lock
  copy,      \* what a process is about to write
  aged       \* how often a lock has become old

mailVars == <<inbox, garbled, lock, old, at, copy, aged>>

Users   == Messages \cup {Runner}
Entries == [msg : Messages, read : BOOLEAN]
Places  == {"out", "wait", "break", "locked", "write", "emptied",
            "unlock", "undo", "ok", "failed"}

MailInit ==
  /\ inbox = <<>> /\ garbled = FALSE
  /\ lock = NoOne /\ old = FALSE
  /\ at = [p \in Users |-> "out"]
  /\ copy = [p \in Users |-> <<>>]
  /\ aged = 0

GoOn(p, l) == at' = [at EXCEPT ![p] = l]

\* A variant that does not look at the mark.
ReadOrNot == inbox

Unread == Those(inbox, [msg : Messages, read : {FALSE}])

Marked(entries) == [i \in DOMAIN entries |-> [entries[i] EXCEPT !.read = TRUE]]

\* What the closure that runs under the lock makes of the file:
\* write_to_mailbox appends, mark_all_as_read marks.
Edited(p) ==
  IF p = Runner THEN Marked(inbox) ELSE Append(inbox, [msg |-> p, read |-> FALSE])

-----------------------------------------------------------------------------
(* with_lock.                                                              *)

Want(p) ==
  /\ at[p] = "out"
  /\ GoOn(p, "wait")
  /\ UNCHANGED <<inbox, garbled, lock, old, copy, aged>>

\* A variant that opens the lock file, whether it is there or not.
TakeLockAnyway(p) ==
  /\ at[p] = "wait"
  /\ lock' = p /\ old' = FALSE
  /\ GoOn(p, "locked")
  /\ UNCHANGED <<inbox, garbled, copy, aged>>

\* create_new fails when the lock file exists.
TakeLock(p) ==
  /\ at[p] = "wait" /\ lock = NoOne
  /\ lock' = p /\ old' = FALSE
  /\ GoOn(p, "locked")
  /\ UNCHANGED <<inbox, garbled, copy, aged>>

\* is_stale_lock
SeeOld(p) ==
  /\ at[p] = "wait" /\ lock # NoOne /\ old
  /\ GoOn(p, "break")
  /\ UNCHANGED <<inbox, garbled, lock, old, copy, aged>>

\* The lock file is removed by its name: it may be another one by now.  This
\* may have been the last attempt.
BreakLock(p) ==
  /\ at[p] = "break"
  /\ lock' = NoOne /\ old' = FALSE
  /\ GoOn(p, "wait") \/ GoOn(p, "failed")
  /\ UNCHANGED <<inbox, garbled, copy, aged>>

\* MAILBOX_LOCK_RETRIES attempts have failed.
GiveUp(p) ==
  /\ at[p] = "wait" /\ lock # NoOne
  /\ GoOn(p, "failed")
  /\ UNCHANGED <<inbox, garbled, lock, old, copy, aged>>

\* The file is read again under the lock.  An empty one is no JSON to
\* mark_all_as_read, and an empty list to write_to_mailbox.
ReadAgain(p) ==
  /\ at[p] = "locked"
  /\ IF garbled \/ (p = Runner /\ inbox = <<>>)
     THEN GoOn(p, "undo") /\ UNCHANGED copy
     ELSE GoOn(p, "write") /\ copy' = [copy EXCEPT ![p] = Edited(p)]
  /\ UNCHANGED <<inbox, garbled, lock, old, aged>>

\* fs::write truncates the file ...
Truncate(p) ==
  /\ at[p] = "write"
  /\ inbox' = <<>> /\ garbled' = FALSE
  /\ GoOn(p, "emptied")
  /\ UNCHANGED <<lock, old, copy, aged>>

\* ... and fills it.  Where somebody else has filled it in between, the longer
\* text shows behind the shorter one.
Fill(p) ==
  /\ at[p] = "emptied"
  /\ inbox' = copy[p]
  /\ garbled' \in (IF inbox = <<>> THEN {FALSE} ELSE BOOLEAN)
  /\ copy' = [copy EXCEPT ![p] = <<>>]
  /\ GoOn(p, "unlock")
  /\ UNCHANGED <<lock, old, aged>>

\* The lock file that is there is removed, whosever it is.
Unlock(p) ==
  /\ \/ at[p] = "unlock" /\ GoOn(p, "ok")
     \/ at[p] = "undo" /\ GoOn(p, "failed")
  /\ lock' = NoOne /\ old' = FALSE
  /\ UNCHANGED <<inbox, garbled, copy, aged>>

\* with_lock has returned, and so does its caller.
Return(p, l) ==
  /\ at[p] = l
  /\ GoOn(p, "out")
  /\ UNCHANGED <<inbox, garbled, lock, old, copy, aged>>

WithLock(p) ==
  \/ TakeLock(p) \/ SeeOld(p) \/ BreakLock(p) \/ GiveUp(p) \/ ReadAgain(p)
  \/ Truncate(p) \/ Fill(p) \/ Unlock(p)

\* Its holder sleeps on the lock, or the machine sleeps with him.
LockAges ==
  /\ lock # NoOne /\ ~old /\ aged < MaxOld
  /\ old' = TRUE
  /\ aged' = aged + 1
  /\ UNCHANGED <<inbox, garbled, lock, at, copy>>

-----------------------------------------------------------------------------
\* What the file holds, or is given by whoever has truncated it.
File ==
  IF \E p \in Users : at[p] = "emptied"
  THEN copy[CHOOSE p \in Users : at[p] = "emptied"] ELSE inbox

Msgs(entries) == [i \in DOMAIN entries |-> entries[i].msg]

(* A message whose sender was told that it was written stays in the inbox,  *)
(* whoever writes at the same time, as long as no lock lives to be five     *)
(* seconds old (with_lock: the lock file and what is read again under it).  *)
MessagesKept ==
  aged = 0 => \A m \in Messages : at[m] = "ok" => \E i \in DOMAIN File : File[i].msg = m

(* The state is of its type.                                               *)
MailTypeOK ==
  /\ inbox \in Seq(Entries) /\ garbled \in BOOLEAN
  /\ lock \in Users \cup {NoOne} /\ old \in BOOLEAN
  /\ at \in [Users -> Places]
  /\ copy \in [Users -> Seq(Entries)]
  /\ aged \in 0 .. MaxOld
=============================================================================
