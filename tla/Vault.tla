------------------------------- MODULE Vault -------------------------------
(***************************************************************************)
(* The credential vault of kryphos (storage.rs): the directory with its    *)
(* lock and header, the fjall keyspace of entries, and the audit log that  *)
(* every mutation is written to before the keyspace.                       *)
(*                                                                         *)
(* A handle is a Vault value with the directory lock; threads share the    *)
(* one that is open.  A salt stands for the key derived from it, and the   *)
(* passphrase is the right one unless open fails.  lookup_key is keyed, so *)
(* the keyspace is addressed by salt and name.  An entry is its status and *)
(* its history; an event is the serial number of the call that made it.    *)
(*                                                                         *)
(* The audit log is the one of TamperLog, opened by every call, appended   *)
(* to and rotated in one step; a call that fails or dies leaves any of the *)
(* states in between.  Every entry counts one byte against max_file_bytes, *)
(* and a hash chain is only known to continue the segment before it or to  *)
(* start over.  The keyspace is external: an insert goes to a journal,     *)
(* persist makes the journal durable, and of what was not persisted a      *)
(* death of the process leaves any prefix.                                 *)
(***************************************************************************)
EXTENDS Integers, Sequences, FiniteSets

CONSTANTS
    Handle,       \* Vault values, in this process or in others
    NoHandle,
    Thread,       \* threads that share the open handle
    NoThread,
    Name,         \* credential names
    MaxFileBytes, \* max_file_bytes of the audit log, in entries
    MaxCalls,     \* bound: mutating calls that get past their checks
    MaxFaults     \* bound: failures, deaths and power losses

ASSUME HandleAssumption ==
    IsFiniteSet(Handle) /\ NoHandle \notin Handle /\ NoThread \notin Thread

ASSUME BoundAssumption == MaxFileBytes \in Nat /\ MaxCalls \in Nat /\ MaxFaults \in Nat

VARIABLES
    dir,         \* the vault directory exists
    header,      \* the salt in header.json, NoHeader or Torn
    lock,        \* the handle that has vault.lock, or NoHandle
    vault,       \* the handles: where create or open is, and the salt
    write_lock,  \* the thread that has write_lock, or NoThread
    call,        \* the mutating call of each thread
    disk,        \* the keyspace as persisted
    journal,     \* writes to it that are not
    audit,       \* tamper.log, the segments it was rotated to, and their seals
    salts,       \* how many were generated
    calls,       \* how many mutating calls were made
    faults,      \* how many failures there were
    acked,       \* ghost: of each entry, the events whose call returned Ok
    revoked,     \* ghost: entries whose revoke returned Ok
    harm         \* ghost: a create was cut short or raced, the power failed

vars == <<dir, header, lock, vault, write_lock, call, disk, journal, audit,
          salts, calls, faults, acked, revoked, harm>>

directory == <<dir, header, lock, vault, salts>>
keyspace == <<disk, journal>>
ghosts == <<acked, revoked, harm>>

\* A handle generates at most one: the directory it creates first is there to stay.
Salt == 1 .. Cardinality(Handle)
NoHeader == 0
Torn == -1

-----------------------------------------------------------------------------
(* Entries *)

\* Of an entry that was removed the event of the removal is kept, as a ghost.
Entry == [status : {"Absent", "Active", "Revoked"}, history : Seq(1 .. MaxCalls)]

Absent == [status |-> "Absent", history |-> << >>]

Slot == Salt \X Name

\* What the keyspace returns: the last write, persisted or not.
Stored(d, j, s) ==
    LET writes == {i \in DOMAIN j : j[i].slot = s}
    IN IF writes = {} THEN d[s]
       ELSE j[CHOOSE i \in writes : \A k \in writes : k <= i].entry

entry(s) == Stored(disk, journal, s)

\* The journal up to its i-th write, on disk.
Persisted(i) == [s \in Slot |-> Stored(disk, SubSeq(journal, 1, i), s)]

\* get, as far as the lifecycle decides it.
get(s) ==
    CASE entry(s).status = "Absent" -> "EntryNotFound"
      [] entry(s).status = "Revoked" -> "EntryRevoked"
      [] OTHER -> "Ok"

-----------------------------------------------------------------------------
(* The directory *)

HandlePC == {"closed", "create_dir", "create_lock", "create_header", "write_header",
             "create_store", "open_lock", "open_read", "open"}

Creating == {"create_dir", "create_lock", "create_header", "write_header", "create_store"}

Closed == [pc |-> "closed", salt |-> 0]

Fault == faults < MaxFaults /\ faults' = faults + 1

Release(h) == lock' = IF lock = h THEN NoHandle ELSE lock

Overlaps(h) == \E g \in Handle \ {h} : vault[g].pc \in Creating

\* Mutant: an existing path is not refused.
create_unchecked(h) ==
    /\ vault[h].pc = "closed"
    /\ vault' = [vault EXCEPT ![h].pc = "create_dir"]
    /\ harm' = IF Overlaps(h) THEN harm \cup {"race"} ELSE harm
    /\ UNCHANGED <<dir, header, lock, salts, write_lock, call, keyspace, audit, calls,
                   faults, acked, revoked>>

\* create: the path must not exist.  AlreadyExists changes nothing.
create(h) ==
    /\ vault[h].pc = "closed"
    /\ ~dir
    /\ vault' = [vault EXCEPT ![h].pc = "create_dir"]
    /\ harm' = IF Overlaps(h) THEN harm \cup {"race"} ELSE harm
    /\ UNCHANGED <<dir, header, lock, salts, write_lock, call, keyspace, audit, calls,
                   faults, acked, revoked>>

\* create_owner_only_dir also succeeds when another create has made the directory.
create_owner_only_dir(h) ==
    /\ vault[h].pc = "create_dir"
    /\ dir' = TRUE
    /\ vault' = [vault EXCEPT ![h].pc = "create_lock"]
    /\ UNCHANGED <<header, lock, salts, write_lock, call, keyspace, audit, calls,
                   faults, ghosts>>

\* acquire_lock of create and of open: Locked when another handle has it.  create
\* generates its salt.
acquire_lock(h) ==
    /\ vault[h].pc \in {"create_lock", "open_lock"}
    /\ IF lock # NoHandle
         THEN vault' = [vault EXCEPT ![h] = Closed] /\ UNCHANGED <<lock, salts>>
         ELSE /\ lock' = h
              /\ IF vault[h].pc = "open_lock"
                   THEN /\ vault' = [vault EXCEPT ![h].pc = "open_read"]
                        /\ UNCHANGED salts
                   ELSE /\ salts' = salts + 1
                        /\ vault' = [vault EXCEPT ![h] = [pc |-> "create_header",
                                                          salt |-> salts + 1]]
    /\ UNCHANGED <<dir, header, write_lock, call, keyspace, audit, calls, faults,
                   ghosts>>

\* write_owner_only_file: the file is created or truncated, then written.
create_owner_only_file(h) ==
    /\ vault[h].pc = "create_header"
    /\ header' = Torn
    /\ vault' = [vault EXCEPT ![h].pc = "write_header"]
    /\ UNCHANGED <<dir, lock, salts, write_lock, call, keyspace, audit, calls, faults,
                   ghosts>>

write_header(h) ==
    /\ vault[h].pc = "write_header"
    /\ header' = vault[h].salt
    /\ vault' = [vault EXCEPT ![h].pc = "create_store"]
    /\ UNCHANGED <<dir, lock, salts, write_lock, call, keyspace, audit, calls, faults,
                   ghosts>>

\* The data directory and open_fjall.
create_store(h) ==
    /\ vault[h].pc = "create_store"
    /\ vault' = [vault EXCEPT ![h].pc = "open"]
    /\ UNCHANGED <<dir, header, lock, salts, write_lock, call, keyspace, audit, calls,
                   faults, ghosts>>

\* Mutant: open locks the directory, which it creates, before it looks for a header.
open_locks_first(h) ==
    /\ vault[h].pc = "closed"
    /\ dir' = TRUE
    /\ vault' = [vault EXCEPT ![h].pc = IF header = NoHeader THEN "closed" ELSE "open_lock"]
    /\ UNCHANGED <<header, lock, salts, write_lock, call, keyspace, audit, calls,
                   faults, ghosts>>

\* open: NotInitialized, which changes nothing, without a header file.
open(h) ==
    /\ vault[h].pc = "closed"
    /\ header # NoHeader
    /\ vault' = [vault EXCEPT ![h].pc = "open_lock"]
    /\ UNCHANGED <<dir, header, lock, salts, write_lock, call, keyspace, audit, calls,
                   faults, ghosts>>

\* Mutant: a header that cannot be parsed is taken as it is.
open_read_any(h) ==
    /\ vault[h].pc = "open_read"
    /\ vault' = [vault EXCEPT ![h] = [pc |-> "open", salt |-> header]]
    /\ UNCHANGED <<dir, header, lock, salts, write_lock, call, keyspace, audit, calls,
                   faults, ghosts>>

\* The rest of open: a header that cannot be parsed is an error.
open_read(h) ==
    /\ vault[h].pc = "open_read"
    /\ IF header \in Salt
         THEN /\ vault' = [vault EXCEPT ![h] = [pc |-> "open", salt |-> header]]
              /\ UNCHANGED lock
         ELSE vault' = [vault EXCEPT ![h] = Closed] /\ Release(h)
    /\ UNCHANGED <<dir, header, salts, write_lock, call, keyspace, audit, calls, faults,
                   ghosts>>

\* A step of create or open fails, or the passphrase is wrong.
not_opened(h) ==
    /\ vault[h].pc \notin {"closed", "open"}
    /\ Fault
    /\ vault' = [vault EXCEPT ![h] = Closed]
    /\ Release(h)
    /\ harm' = IF vault[h].pc \in Creating THEN harm \cup {"create"} ELSE harm
    /\ UNCHANGED <<dir, header, salts, write_lock, call, keyspace, audit, calls, acked, revoked>>

-----------------------------------------------------------------------------
(* The mutating calls *)

Op == {"add", "rotate", "revoke", "remove"}

CallPC == {"idle", "audit", "mutate", "persist"}

Idle == [pc |-> "idle", op |-> "add", slot |-> <<0, 0>>, entry |-> Absent]

\* The salt of the open handle.
OpenSalt == vault[lock].salt

IsOpen == lock # NoHandle /\ vault[lock].pc = "open"

\* Mutant: write_lock is not taken.
Enter_unlocked(t, n, op, e) ==
    /\ calls < MaxCalls
    /\ calls' = calls + 1
    /\ UNCHANGED write_lock
    /\ call' = [call EXCEPT ![t] = [pc |-> "audit", op |-> op,
                                    slot |-> <<OpenSalt, n>>, entry |-> e]]
    /\ UNCHANGED <<directory, keyspace, audit, faults, ghosts>>

\* A call takes write_lock, reads the entry, passes its checks and is ready to commit
\* the entry e.  A call that does not pass them changes nothing.
Enter(t, n, op, e) ==
    /\ write_lock = NoThread
    /\ calls < MaxCalls
    /\ calls' = calls + 1
    /\ write_lock' = t
    /\ call' = [call EXCEPT ![t] = [pc |-> "audit", op |-> op,
                                    slot |-> <<OpenSalt, n>>, entry |-> e]]
    /\ UNCHANGED <<directory, keyspace, audit, faults, ghosts>>

add(t, n) ==
    /\ IsOpen /\ call[t].pc = "idle"
    /\ get(<<OpenSalt, n>>) = "EntryNotFound"
    /\ Enter(t, n, "add", [status |-> "Active", history |-> <<calls + 1>>])

rotate(t, n) ==
    /\ IsOpen /\ call[t].pc = "idle"
    /\ get(<<OpenSalt, n>>) = "Ok"
    /\ Enter(t, n, "rotate",
             [status |-> "Active",
              history |-> Append(entry(<<OpenSalt, n>>).history, calls + 1)])

revoke(t, n) ==
    /\ IsOpen /\ call[t].pc = "idle"
    /\ get(<<OpenSalt, n>>) = "Ok"
    /\ Enter(t, n, "revoke",
             [status |-> "Revoked",
              history |-> Append(entry(<<OpenSalt, n>>).history, calls + 1)])

\* Mutant: any entry is removed.
remove_any(t, n) ==
    /\ IsOpen /\ call[t].pc = "idle"
    /\ get(<<OpenSalt, n>>) # "EntryNotFound"
    /\ Enter(t, n, "remove", [status |-> "Absent", history |-> <<calls + 1>>])

remove(t, n) ==
    /\ IsOpen /\ call[t].pc = "idle"
    /\ get(<<OpenSalt, n>>) = "Ok"
    /\ Enter(t, n, "remove", [status |-> "Absent", history |-> <<calls + 1>>])

\* The call returns, and drops its guard.
Return(t) ==
    /\ call' = [call EXCEPT ![t] = Idle]
    /\ write_lock' = NoThread

\* The event that the call of t makes.
Event(t) == call[t].entry.history[Len(call[t].entry.history)]

AuditEntry(t) == [slot |-> call[t].slot, op |-> call[t].op, event |-> Event(t)]

-----------------------------------------------------------------------------
(* The audit log *)

NoSeal == -1

\* A segment and its seal: the salt that keys both, the count that is sealed, whether
\* the chain continues the segment before it, and what is after the last whole entry:
\* nothing, part of a length prefix, or bytes that no reader can frame.
File == [exists : BOOLEAN, salt : Salt \cup {0},
         entries : Seq([slot : Slot, op : Op, event : 1 .. MaxCalls]),
         tail : {"clean", "prefix", "broken"}, sealed : Nat \cup {NoSeal}, linked : BOOLEAN]

NoFile == [exists |-> FALSE, salt |-> 0, entries |-> << >>, tail |-> "clean",
           sealed |-> NoSeal, linked |-> FALSE]

\* open_inner verifies the live segment, and only that one: it refuses bytes it cannot
\* frame, a missing seal, a seal that counts more than there is, and another key.  A
\* path without a log is a new one, whatever seal is beside it.
Accepted(salt) ==
    LET live == audit.live
    IN \/ ~live.exists
       \/ /\ live.tail # "broken"
          /\ \/ live.entries = << >> /\ live.sealed = NoSeal
             \/ live.salt = salt /\ live.sealed \in 0 .. Len(live.entries)

\* verify_segment_chain, which the vault does not call: every rotated segment holds
\* what its seal counts and continues the one before it, and so does the live one.
verify_segment_chain(salt) ==
    IF ~audit.live.exists THEN "Io"
    ELSE IF /\ \A i \in DOMAIN audit.rotated :
                   LET f == audit.rotated[i]
                   IN  /\ f.salt = salt
                       /\ f.linked
                       /\ f.tail # "broken"
                       /\ f.entries # << >>
                       /\ f.sealed = Len(f.entries)
            /\ Accepted(salt)
            /\ audit.live.sealed # NoSeal => audit.live.linked
    THEN "Intact"
    ELSE "SegmentBroken"

\* open_inner creates the file if need be, and seals what it found.  Without a seal,
\* or without the file, the chain starts at the genesis hash.
Created == [audit EXCEPT !.live.exists = TRUE]

Opened ==
    LET live == audit.live
        resumed == live.exists /\ live.sealed # NoSeal
    IN [audit EXCEPT !.live =
           [live EXCEPT !.exists = TRUE,
                        !.salt = OpenSalt,
                        !.sealed = Len(live.entries),
                        !.linked = IF resumed THEN live.linked ELSE audit.rotated = << >>]]

\* append: an entry written behind torn bytes cannot be framed.
Recorded(t) ==
    IF Opened.live.tail = "clean"
    THEN [Opened EXCEPT !.live.entries = Append(@, AuditEntry(t))]
    ELSE [Opened EXCEPT !.live.tail = "broken"]

Sealed(t) == [Recorded(t) EXCEPT !.live.sealed = @ + 1]

\* rotate: the log is renamed, its seal is renamed, the new file is created and sealed
\* with the hash it continues from.
Renamed(t) ==
    [rotated |-> Append(audit.rotated, [Sealed(t).live EXCEPT !.sealed = NoSeal]),
     live |-> [NoFile EXCEPT !.salt = OpenSalt, !.sealed = Sealed(t).live.sealed]]

SealRenamed(t) ==
    [rotated |-> Append(audit.rotated, Sealed(t).live), live |-> NoFile]

Recreated(t) == [SealRenamed(t) EXCEPT !.live.exists = TRUE]

Rotated(t) ==
    [Recreated(t) EXCEPT !.live.salt = OpenSalt, !.live.sealed = 0, !.live.linked = TRUE]

must_rotate(t) == Sealed(t).live.sealed > MaxFileBytes

\* append_vault_audit: the log is opened, appended to, sealed and rotated if it is full.
append_vault_audit(t) ==
    /\ call[t].pc = "audit"
    /\ Accepted(OpenSalt)
    /\ audit' = IF must_rotate(t) THEN Rotated(t) ELSE Sealed(t)
    /\ call' = [call EXCEPT ![t].pc = "mutate"]
    /\ UNCHANGED <<directory, write_lock, keyspace, calls, faults, ghosts>>

\* What an append that does not succeed, or is cut short, leaves.
Leftovers(t) ==
    {audit, Created, Opened, Recorded(t), Sealed(t)}
    \cup {[Opened EXCEPT !.live.tail = "prefix"], [Opened EXCEPT !.live.tail = "broken"]}
    \cup IF must_rotate(t) THEN {Renamed(t), SealRenamed(t), Recreated(t), Rotated(t)} ELSE {}

\* The log is not accepted: nothing reaches the keyspace.
audit_refused(t) ==
    /\ call[t].pc = "audit"
    /\ ~Accepted(OpenSalt)
    /\ Return(t)
    /\ UNCHANGED <<directory, keyspace, audit, calls, faults, ghosts>>

\* Mutant: the mutation goes on without its audit entry.
audit_fails_open(t) ==
    /\ call[t].pc = "audit"
    /\ Accepted(OpenSalt)
    /\ Fault
    /\ audit' \in Leftovers(t)
    /\ call' = [call EXCEPT ![t].pc = "mutate"]
    /\ UNCHANGED <<directory, write_lock, keyspace, calls, ghosts>>

audit_fails(t) ==
    /\ call[t].pc = "audit"
    /\ Accepted(OpenSalt)
    /\ Fault
    /\ audit' \in Leftovers(t)
    /\ Return(t)
    /\ UNCHANGED <<directory, keyspace, calls, ghosts>>

\* The insert or remove of commit_audited.  A new history ends what was promised of
\* the old one.
mutate(t) ==
    /\ call[t].pc = "mutate"
    /\ journal' = Append(journal, [slot |-> call[t].slot, entry |-> call[t].entry])
    /\ call' = [call EXCEPT ![t].pc = "persist"]
    /\ acked' = IF call[t].op \in {"add", "remove"}
                  THEN [acked EXCEPT ![call[t].slot] = {}] ELSE acked
    /\ UNCHANGED <<directory, write_lock, disk, audit, calls, faults, revoked, harm>>

Acknowledge(t) ==
    /\ acked' = [acked EXCEPT ![call[t].slot] = @ \cup {Event(t)}]
    /\ revoked' = IF call[t].op = "revoke" THEN revoked \cup {call[t].slot} ELSE revoked

\* persist(SyncAll), and the call returns Ok.
persist(t) ==
    /\ call[t].pc = "persist"
    /\ disk' = Persisted(Len(journal))
    /\ journal' = << >>
    /\ Acknowledge(t)
    /\ Return(t)
    /\ UNCHANGED <<directory, audit, calls, faults, harm>>

\* AuditedMutationFailed: the write or its persist failed.
mutation_fails(t) ==
    /\ call[t].pc \in {"mutate", "persist"}
    /\ Fault
    /\ Return(t)
    /\ UNCHANGED <<directory, keyspace, audit, calls, ghosts>>

-----------------------------------------------------------------------------
(* The end of a handle *)

\* Of the journal any prefix is in the keyspace when it is opened again.
Recover ==
    /\ \E i \in 0 .. Len(journal) : disk' = Persisted(i)
    /\ journal' = << >>

\* The last owner drops the handle.
close(h) ==
    /\ vault[h].pc = "open"
    /\ \A t \in Thread : call[t].pc = "idle"
    /\ vault' = [vault EXCEPT ![h] = Closed]
    /\ Release(h)
    /\ Recover
    /\ UNCHANGED <<dir, header, salts, write_lock, call, audit, calls, faults, ghosts>>

\* What the threads of an open handle leave in the log when they die.
Interrupted ==
    {audit} \cup UNION {Leftovers(t) : t \in {u \in Thread : call[u].pc = "audit"
                                                          /\ Accepted(OpenSalt)}}

\* The process of a handle dies, with its threads.
crash(h) ==
    /\ vault[h].pc # "closed"
    /\ Fault
    /\ vault' = [vault EXCEPT ![h] = Closed]
    /\ Release(h)
    /\ IF vault[h].pc = "open"
         THEN /\ call' = [t \in Thread |-> Idle]
              /\ write_lock' = NoThread
              /\ Recover
              /\ audit' \in Interrupted
         ELSE UNCHANGED <<call, write_lock, keyspace, audit>>
    /\ harm' = IF vault[h].pc \in Creating THEN harm \cup {"create"} ELSE harm
    /\ UNCHANGED <<dir, header, salts, calls, acked, revoked>>

\* The first n entries of a segment.
Keep(f, n) == [f EXCEPT !.entries = SubSeq(@, 1, IF n < Len(@) THEN n ELSE Len(@))]

\* The machine loses power.  Neither the segments nor the header are ever synced; the
\* seals and the persisted keyspace are.
power_loss ==
    /\ Fault
    /\ vault' = [h \in Handle |-> Closed]
    /\ lock' = NoHandle
    /\ call' = [t \in Thread |-> Idle]
    /\ write_lock' = NoThread
    /\ Recover
    /\ header' \in IF header = NoHeader THEN {NoHeader} ELSE {header, Torn, NoHeader}
    /\ \E a \in Interrupted :
          \E i \in 0 .. Len(a.live.entries), cut \in [DOMAIN a.rotated -> 0 .. MaxCalls] :
             audit' = [live |-> Keep(a.live, i),
                       rotated |-> [k \in DOMAIN a.rotated |-> Keep(a.rotated[k], cut[k])]]
    /\ harm' = harm \cup {"power"}
    /\ UNCHANGED <<dir, salts, calls, acked, revoked>>

-----------------------------------------------------------------------------
Init ==
    /\ dir = FALSE
    /\ header = NoHeader
    /\ lock = NoHandle
    /\ vault = [h \in Handle |-> Closed]
    /\ write_lock = NoThread
    /\ call = [t \in Thread |-> Idle]
    /\ disk = [s \in Slot |-> Absent]
    /\ journal = << >>
    /\ audit = [live |-> NoFile, rotated |-> << >>]
    /\ salts = 0
    /\ calls = 0
    /\ faults = 0
    /\ acked = [s \in Slot |-> {}]
    /\ revoked = {}
    /\ harm = {}

Directory(h) ==
    \/ create(h)
    \/ create_owner_only_dir(h)
    \/ acquire_lock(h)
    \/ create_owner_only_file(h)
    \/ write_header(h)
    \/ create_store(h)
    \/ open(h)
    \/ open_read(h)
    \/ not_opened(h)
    \/ close(h)
    \/ crash(h)

Call(t) ==
    \/ \E n \in Name : add(t, n) \/ rotate(t, n) \/ revoke(t, n) \/ remove(t, n)
    \/ append_vault_audit(t)
    \/ audit_refused(t)
    \/ audit_fails(t)
    \/ mutate(t)
    \/ persist(t)
    \/ mutation_fails(t)

Next ==
    \/ \E h \in Handle : Directory(h)
    \/ \E t \in Thread : Call(t)
    \/ power_loss

Spec == Init /\ [][Next]_vars

-----------------------------------------------------------------------------
(* Properties *)

\* Every variable has its type.
TypeOK ==
    /\ dir \in BOOLEAN
    /\ header \in Salt \cup {NoHeader, Torn}
    /\ lock \in Handle \cup {NoHandle}
    /\ vault \in [Handle -> [pc : HandlePC, salt : Salt \cup {0}]]
    /\ write_lock \in Thread \cup {NoThread}
    /\ DOMAIN call = Thread
    /\ \A t \in Thread : /\ call[t].pc \in CallPC
                         /\ call[t].entry \in Entry
                         /\ call[t] # Idle => call[t].slot \in Slot
    /\ disk \in [Slot -> Entry]
    /\ journal \in Seq([slot : Slot, entry : Entry])
    /\ audit \in [live : File, rotated : Seq(File)]
    /\ salts \in Salt \cup {0}
    /\ calls \in 0 .. MaxCalls
    /\ faults \in 0 .. MaxFaults
    /\ acked \in [Slot -> SUBSET (1 .. MaxCalls)]
    /\ revoked \subseteq Slot
    /\ harm \subseteq {"create", "race", "power"}

Events(s) == {entry(s).history[i] : i \in DOMAIN entry(s).history}

\* The entries a reader finds in the segments of the audit log.
AuditEntries ==
    UNION {{f.entries[i] : i \in DOMAIN f.entries} :
              f \in {audit.live} \cup {audit.rotated[k] : k \in DOMAIN audit.rotated}}

\* The audit log accounts for the entry of s: for every event, and for the status.
Explained(s) ==
    LET e == entry(s)
        n == Len(e.history)
    IN \A i \in 1 .. n :
          [slot |-> s, event |-> e.history[i],
           op |-> CASE e.status = "Absent" -> "remove"
                    [] e.status = "Revoked" /\ i = n -> "revoke"
                    [] i = 1 -> "add"
                    [] OTHER -> "rotate"] \in AuditEntries

\* The commit fails closed (commit_audited): where the log does not account for what
\* the keyspace holds of the vault that the path opens as, open_inner refuses the log
\* and no further mutation is made.
FailsClosed == \A s \in Slot : s[1] = header => Explained(s) \/ ~Accepted(s[1])

\* Where the log does not account for an entry, because a loss of power took entries
\* that were flushed and never synced, a seal gives it away: either open_inner refuses
\* the live segment, or the entry was in a rotated one, which the vault does not look at
\* and verify_segment_chain reports.  The same holds of every rotation cut short.
LossIsDetected ==
    \A s \in Slot :
        Explained(s) \/ ~Accepted(s[1]) \/ verify_segment_chain(s[1]) # "Intact"

\* A mutation that returned Ok is never undone or overwritten, except by a later add
\* or remove of the same name: not by a thread that read the entry before it
\* (write_lock), nor by a death or a loss of power (persist).  This covers remove: a
\* removed entry does not come back.
NoLostUpdate == \A s \in Slot : acked[s] \subseteq Events(s)

\* Once revoke has returned Ok, get answers EntryRevoked for that name for good, in
\* every later handle of the vault: nothing removes, rotates or re-adds the entry.
RevokedForGood == \A s \in revoked : get(s) = "EntryRevoked"

\* open leaves nothing behind at a path without a vault, and create leaves one that
\* can be opened: the path is free or holds a whole header, unless a create is
\* running or was cut short, or the power failed.
PathIsUsable ==
    dir => \/ header \in Salt
           \/ \E h \in Handle : vault[h].pc \in Creating
           \/ harm \cap {"create", "power"} # {}

\* An acknowledged mutation belongs to the vault that the path opens as: create does
\* not replace a vault, unless it raced another create past the check of the path.
AckedIsReachable ==
    \A s \in Slot :
        acked[s] # {} => header = s[1] \/ harm \cap {"race", "power"} # {}

=============================================================================
