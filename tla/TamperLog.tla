------------------------------ MODULE TamperLog ------------------------------
(***************************************************************************)
(* The tamper-evident audit log of the tekmerion crate: a log file, its    *)
(* sidecar seal and its lock, written by processes that open it, append to *)
(* it, rotate it and die.  The log and the seal are two files with no      *)
(* shared transaction, so every step that changes one of them on disk is   *)
(* an action of its own, and a fault can fall between any two of them.     *)
(*                                                                         *)
(* What is abstracted.  A keyed BLAKE3 hash is the sequence of events it   *)
(* commits to: equal hashes have equal histories and nobody forges one.  A *)
(* file is its sequence of whole entries and the state of its tail.  Every *)
(* entry counts one byte against max_file_bytes.  Slot 0 stands for the    *)
(* live path `audit.log' and slot n for `audit.n.log'.                     *)
(***************************************************************************)
EXTENDS Integers, Sequences, FiniteSets

CONSTANTS
    Proc,          \* the processes that may open the log for writing
    Signed,        \* those of them that open it with open_signed
    MaxFileBytes,  \* max_file_bytes, in entries
    MaxRotation,   \* u32::MAX, where next_rotation_number saturates
    MaxEvents,     \* bound: events appended in a behaviour
    MaxFaults      \* bound: faults in a behaviour

ASSUME BoundsAssumption ==
    /\ MaxFileBytes \in Nat
    /\ MaxRotation \in Nat \ {0}
    /\ MaxEvents \in Nat
    /\ MaxFaults \in Nat

ASSUME SignedAssumption == Signed \subseteq Proc

VARIABLES
    file,       \* file[s]: the log file in slot s
    seal,       \* seal[s]: its sidecar seal
    lock,       \* the processes that hold the advisory lock
    log,        \* log[p]: the TamperLog handle of process p
    nextEvent,  \* the next event to be appended
    acked,      \* the events whose append returned Ok
    harm,       \* the kinds of fault that have happened
    faults      \* how many faults have happened

vars == <<file, seal, lock, log, nextEvent, acked, harm, faults>>

-----------------------------------------------------------------------------
\* Hashes, files and seals.

Hash == Seq(Nat)

genesis_hash == << >>

\* encode_entry: the hash of an entry commits to its content and to prev_hash.
Link(event, prev_hash) == Append(prev_hash, event)

Slot == 0 .. MaxRotation

Entry == [event : Nat, hash : Hash]

\* What the bytes after the last whole entry are: none; 1 to 3 bytes of a
\* length prefix; a whole prefix and part of an entry; or entries written
\* after torn bytes, which no reader can frame.
TailState == {"clean", "prefix", "body", "misframed"}

File == [exists : BOOLEAN, entries : Seq(Entry), tail : TailState]

NoFile == [exists |-> FALSE, entries |-> << >>, tail |-> "clean"]

SealState == [state : {"Absent", "Invalid", "Valid"}, entry_count : Nat,
              segment_start_hash : Hash, provenance : Proc \cup {"None"}, terminal_hash : Hash]

NoSeal == [state |-> "Absent", entry_count |-> 0, segment_start_hash |-> genesis_hash,
           provenance |-> "None", terminal_hash |-> genesis_hash]

\* The hash the chain of f ends at when its first entry is linked from start.
Terminal(f, start) ==
    IF f.entries = << >> THEN start ELSE f.entries[Len(f.entries)].hash

LinkHolds(f, start, i) ==
    f.entries[i].hash = Link(f.entries[i].event,
                             IF i = 1 THEN start ELSE f.entries[i - 1].hash)

-----------------------------------------------------------------------------
\* Verification.

\* A stream that ends inside a length prefix ends like a clean one.
stream_verify(f, start) ==
    IF \E i \in 1 .. Len(f.entries) : ~LinkHolds(f, start, i)
    THEN "Broken"
    ELSE IF f.tail \in {"body", "misframed"} THEN "Corrupted" ELSE "Clean"

resolve_start_hash(sl) ==
    IF sl.state = "Valid" THEN sl.segment_start_hash ELSE genesis_hash

\* Mutant: a seal behind the stream is refused like one ahead of it.
classify_terminal_strict(sl, n) ==
    IF n = 0
    THEN IF sl.state = "Absent" \/ sl.entry_count = 0 THEN "Empty" ELSE "Truncated"
    ELSE IF sl.state = "Valid" /\ sl.entry_count = n THEN "Intact" ELSE "Truncated"

classify_terminal(sl, n) ==
    IF n = 0
    THEN IF \/ sl.state = "Absent"
            \/ sl.state = "Valid" /\ sl.entry_count = 0
         THEN "Empty"
         ELSE "Truncated"
    ELSE IF sl.state # "Valid" THEN "Truncated"
    ELSE IF sl.entry_count = n THEN "Intact"
    ELSE IF sl.entry_count < n THEN "Unsealed"
    ELSE "Truncated"

ChainStatus == {"Intact", "Broken", "Empty", "Corrupted", "Truncated", "Unsealed"}

verify_from(f, sl, start) ==
    LET stream == stream_verify(f, start)
    IN  IF stream = "Clean" THEN classify_terminal(sl, Len(f.entries)) ELSE stream

verify_chain(f, sl) == verify_from(f, sl, resolve_start_hash(sl))

\* The statuses open_inner resumes from; it refuses every other one.
Resumable == {"Intact", "Empty", "Unsealed"}

\* The key_id of a signed tip is the process that opened the log with open_signed, and
\* so is the verifier.  No writer stores a signature that is not its own over
\* terminal_hash, so that SignatureInvalid is not among the results.
check_tip(sl, verifier, terminal) ==
    IF sl.state # "Valid" THEN "NoSeal"
    ELSE IF sl.provenance = "None" THEN "Unsigned"
    ELSE IF sl.provenance # verifier THEN "ForeignInstallation"
    ELSE IF sl.terminal_hash # terminal THEN "StaleTip" ELSE "Verified"

verify_tip_provenance(verifier) ==
    IF verify_chain(file[0], seal[0]) \in {"Intact", "Unsealed"}
    THEN check_tip(seal[0], verifier, Terminal(file[0], resolve_start_hash(seal[0])))
    ELSE "NoSeal"

\* The numbers of the rotated segments in the directory.
Numbers == {n \in 1 .. MaxRotation : file[n].exists}

max_n == IF Numbers = {} THEN 0 ELSE CHOOSE n \in Numbers : \A m \in Numbers : m <= n

segment_ok(status, is_live) ==
    \/ status = "Intact"
    \/ status \in {"Empty", "Unsealed"} /\ is_live

\* Where segment n must continue from: the terminal hash of segment n - 1.  A
\* rotated segment with no entries is refused before its terminal is used.
expected_start(n) ==
    IF n = 1 THEN genesis_hash ELSE Terminal(file[n - 1], genesis_hash)

\* Mutant: the live seal's segment_start_hash is taken at its word.
live_status_trusting ==
    LET stream == stream_verify(file[0], expected_start(max_n + 1))
    IN  IF stream # "Clean" THEN stream ELSE classify_terminal(seal[0], Len(file[0].entries))

live_status ==
    LET start  == expected_start(max_n + 1)
        stream == stream_verify(file[0], start)
    IN  IF stream # "Clean" THEN stream
        ELSE IF seal[0].state = "Valid" /\ seal[0].segment_start_hash # start
        THEN "Broken"
        ELSE classify_terminal(seal[0], Len(file[0].entries))

verify_segment_chain ==
    IF Numbers # 1 .. max_n THEN "MissingSegment"
    ELSE IF ~file[0].exists THEN "Io"
    ELSE IF /\ \A n \in 1 .. max_n :
                   segment_ok(verify_from(file[n], seal[n], expected_start(n)), FALSE)
            /\ segment_ok(live_status, TRUE)
    THEN "Intact"
    ELSE "SegmentBroken"

-----------------------------------------------------------------------------
\* The TamperLog handle of a process, and where its next step is.

\* The steps inside rotate, after which the live path is not what it was.
Rotating == {"rename", "rename_seal", "create", "seal_rotate"}

\* closed: no handle.  idle: between calls.  seal_open, seal_append and
\* seal_rotate: in refresh_seal, called by open_inner, append and rotate.
PC == {"closed", "idle", "seal_open", "seal_append"} \cup Rotating

\* fd is the slot of the file the BufWriter writes to, buf the entries a failed
\* flush has left in the BufWriter, and torn what that flush wrote of them.
TamperLogHandle ==
    [pc : PC, fd : Slot, buf : Seq(Entry), torn : TailState, event : Nat,
     prev_hash : Hash, segment_start_hash : Hash, sequence : Nat, bytes_written : Nat]

Closed == [pc |-> "closed", fd |-> 0, buf |-> << >>, torn |-> "clean", event |-> 0,
           prev_hash |-> genesis_hash, segment_start_hash |-> genesis_hash,
           sequence |-> 0, bytes_written |-> 0]

Faulty(kinds) ==
    /\ faults < MaxFaults
    /\ faults' = faults + 1
    /\ harm' = harm \cup kinds

Init ==
    /\ file = [s \in Slot |-> NoFile]
    /\ seal = [s \in Slot |-> NoSeal]
    /\ lock = {}
    /\ log = [p \in Proc |-> Closed]
    /\ nextEvent = 1
    /\ acked = {}
    /\ harm = {}
    /\ faults = 0

-----------------------------------------------------------------------------
\* Opening and closing.

\* Mutant: the lock is not exclusive.
acquire_shared(p) == lock' = lock \cup {p}

\* try_lock on the `.lock' sidecar.
acquire(p) ==
    /\ lock = {}
    /\ lock' = {p}

\* Mutants: the index of the last entry is taken for the count; the chain is
\* resumed from the hash the segment started at.
recover_state_index(f, start) ==
    [prev_hash |-> Terminal(f, start), sequence |-> Len(f.entries) - 1]

recover_state_start(f, start) == [prev_hash |-> start, sequence |-> Len(f.entries)]

\* recover_state reads the tail the content has, not what the seal claims.
recover_state(f, start) ==
    [prev_hash |-> Terminal(f, start), sequence |-> Len(f.entries)]

\* Mutant: the file is opened with truncate(true).
open_inner_truncating(p) ==
    /\ log[p].pc = "closed"
    /\ acquire(p)
    /\ file[0].exists => verify_chain(file[0], seal[0]) \in Resumable
    /\ log' = [log EXCEPT ![p].pc = "seal_open"]
    /\ file' = [file EXCEPT ![0] = [NoFile EXCEPT !.exists = TRUE]]
    /\ UNCHANGED <<seal, nextEvent, acked, harm, faults>>

open_inner(p) ==
    /\ log[p].pc = "closed"
    /\ acquire(p)
    /\ file[0].exists => verify_chain(file[0], seal[0]) \in Resumable
    /\ LET start == IF file[0].exists THEN resolve_start_hash(seal[0]) ELSE genesis_hash
           found == recover_state(file[0], start)
       IN  log' = [log EXCEPT ![p] =
                      [Closed EXCEPT !.pc = "seal_open",
                                     !.prev_hash = found.prev_hash,
                                     !.segment_start_hash = start,
                                     !.sequence = found.sequence,
                                     !.bytes_written = found.sequence]]
    /\ file' = [file EXCEPT ![0].exists = TRUE]
    /\ UNCHANGED <<seal, nextEvent, acked, harm, faults>>

\* ChainCompromised: the lock is taken and dropped, nothing else is touched.
open_refused(p) ==
    /\ log[p].pc = "closed"
    /\ lock = {}
    /\ file[0].exists
    /\ verify_chain(file[0], seal[0]) \notin Resumable
    /\ UNCHANGED vars

\* What f holds once the handle h has written its leftovers and `new' to it.
\* The bytes of another writer's torn tail stay in front of them.
Written(f, h, new) ==
    IF f.tail = h.torn
    THEN [f EXCEPT !.entries = f.entries \o h.buf \o new, !.tail = "clean"]
    ELSE [f EXCEPT !.tail = "misframed"]

\* Drop: the BufWriter writes what it still holds, the lock is freed.
drop(p) ==
    /\ log[p].pc = "idle"
    /\ file' = IF log[p].buf = << >> THEN file
               ELSE [file EXCEPT ![log[p].fd] = Written(file[log[p].fd], log[p], << >>)]
    /\ log' = [log EXCEPT ![p] = Closed]
    /\ lock' = lock \ {p}
    /\ UNCHANGED <<seal, nextEvent, acked, harm, faults>>

-----------------------------------------------------------------------------
\* Appending.

encode_entry(p) == [event |-> nextEvent, hash |-> Link(nextEvent, log[p].prev_hash)]

\* append, up to the call of refresh_seal.
append(p) ==
    /\ log[p].pc = "idle"
    /\ nextEvent <= MaxEvents
    /\ LET h == log[p]
           entry == encode_entry(p)
       IN  /\ file' = [file EXCEPT ![h.fd] = Written(file[h.fd], h, <<entry>>)]
           /\ log' = [log EXCEPT ![p] =
                         [h EXCEPT !.pc = "seal_append",
                                   !.buf = << >>,
                                   !.torn = "clean",
                                   !.event = nextEvent,
                                   !.prev_hash = entry.hash,
                                   !.sequence = h.sequence + 1,
                                   !.bytes_written = h.bytes_written + 1]]
    /\ nextEvent' = nextEvent + 1
    /\ UNCHANGED <<seal, lock, acked, harm, faults>>

\* How far the handle h can get with a write that stops short.
Torn(h) == IF h.torn = "clean" THEN {"clean", "prefix", "body"} ELSE {h.torn, "body"}

\* The tail of f after h's write to it stopped at t.
TornTail(f, h, t) ==
    IF f.tail = h.torn THEN t ELSE IF t = h.torn THEN f.tail ELSE "misframed"

\* write_all or flush fails: append returns Err with its state as it was.  An
\* entry that fits the BufWriter stays in it, with the part of it that was
\* written; a larger one is gone.
append_fails(p) ==
    /\ log[p].pc = "idle"
    /\ nextEvent <= MaxEvents
    /\ Faulty({"flush"})
    /\ \E t \in Torn(log[p]), fits \in BOOLEAN :
           LET h == log[p]
               left == IF fits THEN Append(h.buf, encode_entry(p)) ELSE h.buf
               mine == file[h.fd].tail = h.torn /\ left # << >>
           IN  /\ file' = [file EXCEPT ![h.fd].tail = TornTail(file[h.fd], h, t)]
               /\ log' = [log EXCEPT ![p] =
                             [h EXCEPT !.buf = left, !.torn = IF mine THEN t ELSE h.torn]]
    /\ nextEvent' = nextEvent + 1
    /\ UNCHANGED <<seal, lock, acked>>

-----------------------------------------------------------------------------
\* Sealing: write_seal publishes a whole new seal with one rename.

Sealing == {"seal_open", "seal_append", "seal_rotate"}

\* Mutant: the tip is signed over the hash the segment started at.
refresh_seal_start(p) ==
    [state |-> "Valid",
     entry_count |-> log[p].sequence,
     segment_start_hash |-> log[p].segment_start_hash,
     provenance |-> IF p \in Signed THEN p ELSE "None",
     terminal_hash |-> log[p].segment_start_hash]

refresh_seal(p) ==
    [state |-> "Valid",
     entry_count |-> log[p].sequence,
     segment_start_hash |-> log[p].segment_start_hash,
     provenance |-> IF p \in Signed THEN p ELSE "None",
     terminal_hash |-> IF p \in Signed THEN log[p].prev_hash ELSE genesis_hash]

\* append rotates once the seal is written and the file has grown too long.
must_rotate(p) == log[p].pc = "seal_append" /\ log[p].bytes_written > MaxFileBytes

write_seal(p) ==
    /\ log[p].pc \in Sealing
    /\ seal' = [seal EXCEPT ![0] = refresh_seal(p)]
    /\ log' = [log EXCEPT ![p].pc = IF must_rotate(p) THEN "rename" ELSE "idle"]
    /\ acked' = IF log[p].pc = "seal_open" \/ must_rotate(p) THEN acked
                ELSE acked \cup {log[p].event}
    /\ UNCHANGED <<file, lock, nextEvent, harm, faults>>

\* write_seal fails before its rename, or in sync_parent_dir after it.  The
\* error ends open_inner, append or rotate there; a failed open drops the handle.
write_seal_fails(p) ==
    /\ log[p].pc \in Sealing
    /\ Faulty({IF log[p].pc = "seal_rotate" THEN "rotate" ELSE "seal"})
    /\ seal' \in {seal, [seal EXCEPT ![0] = refresh_seal(p)]}
    /\ IF log[p].pc = "seal_open"
       THEN log' = [log EXCEPT ![p] = Closed] /\ lock' = lock \ {p}
       ELSE log' = [log EXCEPT ![p].pc = "idle"] /\ lock' = lock
    /\ UNCHANGED <<file, nextEvent, acked>>

-----------------------------------------------------------------------------
\* Rotating.

\* Mutant: the numbers already in the directory are not looked at.
next_rotation_number_first == 1

next_rotation_number == IF max_n < MaxRotation THEN max_n + 1 ELSE MaxRotation

\* rotate: the log file is renamed, and the open descriptor moves with it.
rotate_rename(p) ==
    /\ log[p].pc = "rename"
    /\ file[0].exists
    /\ file' = [file EXCEPT ![next_rotation_number] = file[0], ![0] = NoFile]
    /\ log' = [log EXCEPT ![p] =
                  [log[p] EXCEPT !.pc = "rename_seal", !.fd = next_rotation_number]]
    /\ UNCHANGED <<seal, lock, nextEvent, acked, harm, faults>>

\* A seal that is not there is nothing to rename.
rename_seal(p) ==
    /\ log[p].pc = "rename_seal"
    /\ seal' = IF seal[0].state = "Absent" THEN seal
               ELSE [seal EXCEPT ![log[p].fd] = seal[0], ![0] = NoSeal]
    /\ log' = [log EXCEPT ![p].pc = "create"]
    /\ UNCHANGED <<file, lock, nextEvent, acked, harm, faults>>

\* Mutant: the new segment is rooted at genesis.
rotate_create_reset(p) ==
    /\ log[p].pc = "create"
    /\ file' = [file EXCEPT ![0].exists = TRUE]
    /\ log' = [log EXCEPT ![p] = [Closed EXCEPT !.pc = "seal_rotate", !.event = log[p].event]]
    /\ UNCHANGED <<seal, lock, nextEvent, acked, harm, faults>>

rotate_create(p) ==
    /\ log[p].pc = "create"
    /\ file' = [file EXCEPT ![0].exists = TRUE]
    /\ log' = [log EXCEPT ![p] =
                  [log[p] EXCEPT !.pc = "seal_rotate",
                                 !.fd = 0,
                                 !.segment_start_hash = log[p].prev_hash,
                                 !.sequence = 0,
                                 !.bytes_written = 0]]
    /\ UNCHANGED <<seal, lock, nextEvent, acked, harm, faults>>

\* A rename or the open of the new file fails: append returns Err and the handle
\* lives on.  A rename of a log that is no longer there always fails.
rotate_fails(p) ==
    /\ log[p].pc \in {"rename", "rename_seal", "create"}
    /\ \/ Faulty({"rotate"})
       \/ log[p].pc = "rename" /\ ~file[0].exists /\ UNCHANGED <<harm, faults>>
    /\ log' = [log EXCEPT ![p].pc = "idle"]
    /\ UNCHANGED <<file, seal, lock, nextEvent, acked>>

-----------------------------------------------------------------------------
\* Deaths, and what the environment does to the files.

Die(P) ==
    /\ log' = [p \in Proc |-> IF p \in P THEN Closed ELSE log[p]]
    /\ lock' = lock \ P

\* A process dies between two of its steps: the kernel frees its lock.
crash(p) ==
    /\ log[p].pc # "closed"
    /\ Faulty({IF log[p].pc \in Rotating THEN "rotate" ELSE "crash"})
    /\ Die({p})
    /\ UNCHANGED <<file, seal, nextEvent, acked>>

\* It dies inside the write of an entry, part of which is in the file.
crash_in_write(p) ==
    /\ log[p].pc = "idle"
    /\ nextEvent <= MaxEvents
    /\ Faulty({"torn"})
    /\ \E t \in Torn(log[p]) \ {log[p].torn} :
           file' = [file EXCEPT ![log[p].fd].tail = TornTail(file[log[p].fd], log[p], t)]
    /\ nextEvent' = nextEvent + 1
    /\ Die({p})
    /\ UNCHANGED <<seal, acked>>

\* The last entries of the file in slot s are gone.
LosesTail(s) ==
    \E n \in 0 .. Len(file[s].entries) - 1 :
        file' = [file EXCEPT ![s].entries = SubSeq(@, 1, n)]

\* The machine loses power.  write_seal syncs the seal and its directory; the
\* log file itself is flushed to the kernel and never synced.
power_loss ==
    /\ Faulty({"power"} \cup {IF log[p].pc \in Rotating THEN "rotate" ELSE "power" : p \in Proc})
    /\ \E s \in Slot : LosesTail(s)
    /\ Die(Proc)
    /\ UNCHANGED <<seal, nextEvent, acked>>

\* Someone truncates a closed log, or deletes a rotated segment of it.
lose_tail ==
    /\ lock = {}
    /\ Faulty({"loss"})
    /\ \E s \in Slot : LosesTail(s)
    /\ UNCHANGED <<seal, lock, log, nextEvent, acked>>

lose_segment ==
    /\ lock = {}
    /\ Faulty({"loss"})
    /\ \E n \in Numbers : /\ file' = [file EXCEPT ![n] = NoFile]
                          /\ seal' = [seal EXCEPT ![n] = NoSeal]
    /\ UNCHANGED <<lock, log, nextEvent, acked>>

Next ==
    \/ \E p \in Proc :
           \/ open_inner(p)
           \/ open_refused(p)
           \/ append(p)
           \/ append_fails(p)
           \/ write_seal(p)
           \/ write_seal_fails(p)
           \/ rotate_rename(p)
           \/ rename_seal(p)
           \/ rotate_create(p)
           \/ rotate_fails(p)
           \/ drop(p)
           \/ crash(p)
           \/ crash_in_write(p)
    \/ power_loss
    \/ lose_tail
    \/ lose_segment

Spec == Init /\ [][Next]_vars

-----------------------------------------------------------------------------
\* Properties.

\* Every variable has its type.
TypeOK ==
    /\ file \in [Slot -> File]
    /\ seal \in [Slot -> SealState]
    /\ lock \subseteq Proc
    /\ log \in [Proc -> TamperLogHandle]
    /\ nextEvent \in Nat
    /\ acked \subseteq Nat
    /\ harm \subseteq {"crash", "seal", "rotate", "torn", "flush", "power", "loss"}
    /\ faults \in Nat

\* Only processes that died, or seals that could not be written, outside rotate.
Benign == harm \subseteq {"crash", "seal"}

\* No process is inside a call.
AtRest == \A p \in Proc : log[p].pc \in {"closed", "idle"}

\* The entries a reader finds in the segments.
Entries == UNION {{file[s].entries[i] : i \in 1 .. Len(file[s].entries)} : s \in Slot}

\* The single-writer lock (tamper_log_lock): a process with an open handle is the
\* only one that holds the lock, so two handles never exist at once.
SingleWriter == \A p \in Proc : log[p].pc # "closed" => lock = {p}

\* A crashed writer never wedges the next opener: whatever step outside rotate
\* the writers died in, and whichever seals failed to be written, open_inner
\* resumes the log they left.
Recoverable ==
    Benign /\ lock = {} /\ file[0].exists => verify_chain(file[0], seal[0]) \in Resumable

\* The same for the whole segment set: between calls verify_segment_chain accepts
\* what benign crashes and failed seals leave, across any number of rotations.
SegmentsProvable ==
    Benign /\ AtRest /\ (file[0].exists \/ Numbers # {}) => verify_segment_chain = "Intact"

\* The chain never forks: no two entries, of whatever segments and writers, have
\* the same predecessor hash, unless an interrupted rotation re-roots the chain
\* or a failed flush leaves an entry in the BufWriter.
NoFork ==
    harm \cap {"rotate", "flush", "loss", "power"} = {} =>
        \A e, f \in Entries :
            SubSeq(e.hash, 1, Len(e.hash) - 1) = SubSeq(f.hash, 1, Len(f.hash) - 1) => e = f

\* An append that returned Ok is in the log as long as nobody removes it: no
\* crash, failed seal or interrupted rotation loses an acknowledged entry.
AckedDurable ==
    harm \subseteq {"crash", "seal", "rotate"} => acked \subseteq {e.event : e \in Entries}

\* Loss is evident: when entries that were acknowledged are missing, by
\* truncation, by a deleted segment or by a power loss, or because they were written
\* behind what a failed or interrupted write left in the file, verify_segment_chain
\* does not report the segment set intact.  A failed write and a loss together can
\* deceive it: the entry that was reported as failed then stands in for the next.
LossDetected ==
    /\ \/ harm \subseteq {"crash", "seal", "torn", "power", "loss"}
       \/ harm \subseteq {"crash", "seal", "torn", "flush"}
    /\ AtRest
    /\ acked \ {e.event : e \in Entries} # {}
    => verify_segment_chain # "Intact"

\* The claim of the rotation design: a rotated-away segment remains provable, and
\* verify_segment_chain accepts the set, also when rotate was cut short.
InterruptedRotationProvable ==
    harm \subseteq {"crash", "seal", "rotate"} /\ AtRest /\ file[0].exists
    => verify_segment_chain = "Intact"

\* The claim of the lock's design: a writer that dies mid-append frees the lock for
\* the next opener, which recovers from whatever was durably written.
MidAppendRecoverable ==
    harm \subseteq {"crash", "seal", "torn"} /\ lock = {} /\ file[0].exists
    => verify_chain(file[0], seal[0]) \in Resumable

\* A signed tip is the terminal hash of the chain it is stored beside: to the
\* installation that signed it check_tip never reports StaleTip for a log that
\* verify_chain finds Intact, whatever the crashes, seal failures, interrupted
\* rotations and losses before it, and whoever else has written the log.
IntactTipIsCurrent ==
    "flush" \notin harm /\ verify_chain(file[0], seal[0]) = "Intact"
    => \A p \in Proc : verify_tip_provenance(p) # "StaleTip"

\* Append-only: no step of a writer, a rotation's renames included, removes or
\* changes an entry.
AppendOnly == [][harm' \cap {"power", "loss"} = {} => Entries \subseteq Entries']_vars

=============================================================================
