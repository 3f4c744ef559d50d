-------------------------- MODULE TamperLogProofs --------------------------
(***************************************************************************)
(* Proofs about TamperLog, for every set of processes, every rotation      *)
(* threshold and every bound on events, rotations and faults.              *)
(***************************************************************************)
EXTENDS TamperLog, TLAPS, WellFoundedInduction

-----------------------------------------------------------------------------
\* Lemmas about the operators of the model.

\* A nonempty bounded set of naturals has a largest element.
LEMMA LargestElement ==
    ASSUME NEW S, NEW b \in Nat, S \subseteq 0 .. b, S # {}
    PROVE  \E n \in S : \A m \in S : m <= n
<1> DEFINE T == {b - n : n \in S}
<1>1. T \subseteq Nat
  OBVIOUS
<1>2. T # {}
  <2>1. PICK n \in S : TRUE
    BY Zenon
  <2>2. b - n \in T
    BY <2>1
  <2> QED
    BY <2>2
<1>3. \E x \in T : \A y \in T : ~(<<y, x>> \in OpToRel(<, Nat))
  <2> HIDE DEF T
  <2> QED
    BY Zenon, <1>1, <1>2, NatLessThanWellFounded, WFMin
<1>4. PICK x \in T : \A y \in T : ~(y < x)
  BY Zenon, <1>1, <1>3 DEF OpToRel
<1>5. PICK n \in S : x = b - n
  OBVIOUS
<1>6. \A m \in S : m <= n
  BY <1>4, <1>5
<1> QED
  BY <1>6

\* rotation::next_rotation_number never names the live path.
LEMMA NextNumber == next_rotation_number \in 1 .. MaxRotation
<1>1. max_n \in 0 .. MaxRotation
  <2>1. CASE Numbers = {}
    BY <2>1, BoundsAssumption DEF max_n
  <2>2. CASE Numbers # {}
    <3>1. Numbers \subseteq 0 .. MaxRotation
      BY BoundsAssumption DEF Numbers
    <3>2. \E n \in Numbers : \A m \in Numbers : m <= n
      BY Zenon, <2>2, <3>1, LargestElement, BoundsAssumption
    <3>3. max_n \in Numbers
      BY <2>2, <3>2 DEF max_n
    <3> QED
      BY <3>1, <3>3
  <2> QED
    BY <2>1, <2>2
<1> QED
  BY <1>1, BoundsAssumption DEF next_rotation_number

\* encode_entry: linking an event to a hash gives a hash.
LEMMA LinkType ==
    ASSUME NEW e \in Nat, NEW h \in Hash
    PROVE  Link(e, h) \in Hash
BY DEF Link, Hash

\* The last element of a nonempty sequence of entries is one of them.
LEMMA LastIsEntry ==
    ASSUME NEW s \in Seq(Entry), s # << >>
    PROVE  Len(s) \in 1 .. Len(s) /\ s[Len(s)] \in Entry
<1>1. Len(s) \in 1 .. Len(s)
  BY DEF Entry
<1> QED
  BY <1>1

\* The terminal hash of a file is a hash, whatever hash its chain starts from.
LEMMA TerminalType ==
    ASSUME NEW f \in File, NEW start \in Hash
    PROVE  Terminal(f, start) \in Hash
<1>1. CASE f.entries # << >>
  <2>1. f.entries[Len(f.entries)] \in Entry
    BY <1>1, LastIsEntry DEF File
  <2> QED
    BY <1>1, <2>1 DEF Terminal, Entry
<1> QED
  BY <1>1 DEF Terminal

\* What a BufWriter writes to a file leaves a file, torn tails included.
LEMMA WrittenType ==
    ASSUME NEW f \in File, NEW h \in TamperLogHandle, NEW new \in Seq(Entry)
    PROVE  Written(f, h, new) \in File
<1>1. f.entries \o h.buf \o new \in Seq(Entry)
  BY DEF File, TamperLogHandle
<1> QED
  BY Zenon, <1>1 DEF Written, File, TailState

\* The initial file, seal and handle have their types.
LEMMA ConstantTypes ==
    /\ genesis_hash \in Hash
    /\ 0 \in Slot
    /\ NoFile \in File
    /\ NoSeal \in SealState
    /\ Closed \in TamperLogHandle
<1>1. genesis_hash \in Hash
  BY DEF genesis_hash, Hash
<1>2. 0 \in Slot
  BY BoundsAssumption DEF Slot
<1> QED
  BY <1>1, <1>2 DEF NoFile, File, TailState, NoSeal, SealState, Closed, TamperLogHandle, PC

\* The seal refresh_seal computes from a typed handle is a seal.
LEMMA SealType ==
    ASSUME TypeOK, NEW p \in Proc
    PROVE  refresh_seal(p) \in SealState
<1>1. log[p] \in TamperLogHandle
  BY DEF TypeOK
<1>2. (IF p \in Signed THEN log[p].prev_hash ELSE genesis_hash) \in Hash
  BY <1>1, ConstantTypes DEF TamperLogHandle
<1>3. log[p].sequence \in Nat /\ log[p].segment_start_hash \in Hash
  BY <1>1 DEF TamperLogHandle
<1> QED
  BY <1>2, <1>3 DEF refresh_seal, SealState

-----------------------------------------------------------------------------
\* Type correctness.

Kinds == {"crash", "seal", "rotate", "torn", "flush", "power", "loss"}

\* A fault of a known kind keeps the record of faults typed.
LEMMA FaultyType ==
    ASSUME NEW kinds \in SUBSET Kinds, harm \subseteq Kinds, faults \in Nat, Faulty(kinds)
    PROVE  harm' \subseteq Kinds /\ faults' \in Nat
BY DEF Faulty

\* The death of any set of processes leaves typed handles and lock holders.
LEMMA DieType ==
    ASSUME TypeOK, NEW P \in SUBSET Proc, Die(P)
    PROVE  log' \in [Proc -> TamperLogHandle] /\ lock' \subseteq Proc
BY ConstantTypes DEF TypeOK, Die

\* A file that loses its last entries is still a file.
LEMMA LosesTailType ==
    ASSUME TypeOK, NEW s \in Slot, LosesTail(s)
    PROVE  file' \in [Slot -> File]
<1>1. PICK n \in 0 .. Len(file[s].entries) - 1 :
          file' = [file EXCEPT ![s].entries = SubSeq(file[s].entries, 1, n)]
  BY Zenon DEF LosesTail
<1>2. file[s] \in File /\ file[s].entries \in Seq(Entry)
  BY DEF TypeOK, File
<1>3. SubSeq(file[s].entries, 1, n) \in Seq(Entry)
  BY <1>2
<1>4. [file[s] EXCEPT !.entries = SubSeq(file[s].entries, 1, n)] \in File
  BY Zenon, <1>2, <1>3 DEF File
<1> QED
  BY <1>1, <1>4 DEF TypeOK

\* The entry append writes is an entry.
LEMMA EncodeType ==
    ASSUME TypeOK, NEW p \in Proc
    PROVE  encode_entry(p) \in Entry
BY LinkType DEF TypeOK, encode_entry, Entry, TamperLogHandle

\* Every step of the log, its writers and its environment preserves the types.
LEMMA TypeStep == TypeOK /\ [Next]_vars => TypeOK'
<1> SUFFICES ASSUME TypeOK, [Next]_vars PROVE TypeOK'
  OBVIOUS
<1> USE ConstantTypes
<1>1. ASSUME NEW p \in Proc, open_inner(p) PROVE TypeOK'
  <2> DEFINE start == IF file[0].exists THEN resolve_start_hash(seal[0]) ELSE genesis_hash
             found == recover_state(file[0], start)
             h == [Closed EXCEPT !.pc = "seal_open",
                                 !.prev_hash = found.prev_hash,
                                 !.segment_start_hash = start,
                                 !.sequence = found.sequence,
                                 !.bytes_written = found.sequence]
  <2>1. file[0] \in File /\ seal[0] \in SealState
    BY DEF TypeOK
  <2>2. start \in Hash
    BY <2>1 DEF resolve_start_hash, SealState
  <2>3. found.prev_hash \in Hash /\ found.sequence \in Nat
    <3>1. Terminal(file[0], start) \in Hash
      BY <2>1, <2>2, TerminalType
    <3>2. Len(file[0].entries) \in Nat
      BY <2>1 DEF File
    <3> QED
      BY <3>1, <3>2 DEF recover_state
  <2> HIDE DEF start, found
  <2>4. h \in TamperLogHandle
    BY Zenon, <2>2, <2>3 DEF TamperLogHandle, PC
  <2>5. log' = [log EXCEPT ![p] = h]
    BY <1>1 DEF open_inner, start, found
  <2>6. log' \in [Proc -> TamperLogHandle]
    BY <2>4, <2>5 DEF TypeOK
  <2>7. file' \in [Slot -> File]
    BY Zenon, <1>1, <2>1 DEF open_inner, TypeOK, File
  <2>8. lock' \subseteq Proc
    BY <1>1 DEF open_inner, acquire
  <2> QED
    BY <1>1, <2>6, <2>7, <2>8 DEF TypeOK, open_inner
<1>2. ASSUME NEW p \in Proc, open_refused(p) PROVE TypeOK'
  BY <1>2 DEF TypeOK, open_refused, vars
<1>3. ASSUME NEW p \in Proc, append(p) PROVE TypeOK'
  <2>1. log[p] \in TamperLogHandle /\ log[p].fd \in Slot /\ file[log[p].fd] \in File
    BY DEF TypeOK, TamperLogHandle
  <2>2. encode_entry(p) \in Entry /\ encode_entry(p).hash \in Hash
    BY EncodeType DEF Entry
  <2>3. Written(file[log[p].fd], log[p], <<encode_entry(p)>>) \in File
    <3>1. <<encode_entry(p)>> \in Seq(Entry)
      BY <2>2
    <3> QED
      BY Zenon, <2>1, <3>1, WrittenType
  <2>4. file' \in [Slot -> File]
    BY <1>3, <2>1, <2>3 DEF append, TypeOK
  <2>5. log' \in [Proc -> TamperLogHandle]
    <3> DEFINE h == [log[p] EXCEPT !.pc = "seal_append",
                                   !.buf = << >>,
                                   !.torn = "clean",
                                   !.event = nextEvent,
                                   !.prev_hash = encode_entry(p).hash,
                                   !.sequence = log[p].sequence + 1,
                                   !.bytes_written = log[p].bytes_written + 1]
    <3>1. << >> \in Seq(Entry) /\ nextEvent \in Nat
      BY DEF TypeOK
    <3>2. log[p].sequence + 1 \in Nat /\ log[p].bytes_written + 1 \in Nat
      BY <2>1 DEF TamperLogHandle
    <3>3. h \in TamperLogHandle
      BY Zenon, <2>1, <2>2, <3>1, <3>2 DEF TamperLogHandle, PC, TailState
    <3>4. log' = [log EXCEPT ![p] = h]
      BY <1>3 DEF append
    <3> HIDE DEF h
    <3> QED
      BY <3>3, <3>4 DEF TypeOK
  <2>6. nextEvent' \in Nat
    BY <1>3 DEF append, TypeOK
  <2> QED
    BY <1>3, <2>4, <2>5, <2>6 DEF append, TypeOK
<1>4. ASSUME NEW p \in Proc, append_fails(p) PROVE TypeOK'
  <2>1. log[p] \in TamperLogHandle /\ log[p].fd \in Slot /\ file[log[p].fd] \in File
    BY DEF TypeOK, TamperLogHandle
  <2>2. encode_entry(p) \in Entry
    BY EncodeType
  <2>3. PICK t \in Torn(log[p]), fits \in BOOLEAN :
          LET left == IF fits THEN Append(log[p].buf, encode_entry(p)) ELSE log[p].buf
              mine == file[log[p].fd].tail = log[p].torn /\ left # << >>
          IN  /\ file' = [file EXCEPT ![log[p].fd].tail = TornTail(file[log[p].fd], log[p], t)]
              /\ log' = [log EXCEPT ![p] =
                            [log[p] EXCEPT !.buf = left,
                                           !.torn = IF mine THEN t ELSE log[p].torn]]
    BY Zenon, <1>4 DEF append_fails
  <2>4. t \in TailState
    BY <2>1, <2>3 DEF Torn, TailState, TamperLogHandle
  <2>5. file' \in [Slot -> File]
    BY Zenon, <2>1, <2>3, <2>4 DEF TypeOK, TornTail, File, TailState
  <2>6. log' \in [Proc -> TamperLogHandle]
    <3>1. Append(log[p].buf, encode_entry(p)) \in Seq(Entry)
      BY <2>1, <2>2 DEF TamperLogHandle
    <3> QED
      BY Zenon, <2>1, <2>3, <2>4, <3>1 DEF TypeOK, TamperLogHandle
  <2>7. harm' \subseteq Kinds /\ faults' \in Nat
    BY <1>4, FaultyType DEF append_fails, TypeOK, Kinds
  <2>8. nextEvent' \in Nat
    BY <1>4 DEF append_fails, TypeOK
  <2> QED
    BY <1>4, <2>5, <2>6, <2>7, <2>8 DEF append_fails, TypeOK, Kinds
<1>5. ASSUME NEW p \in Proc, write_seal(p) PROVE TypeOK'
  <2>1. log[p] \in TamperLogHandle
    BY DEF TypeOK
  <2>2. seal' \in [Slot -> SealState]
    BY <1>5, SealType DEF write_seal, TypeOK
  <2>3. log' \in [Proc -> TamperLogHandle]
    BY Zenon, <1>5, <2>1 DEF write_seal, TypeOK, TamperLogHandle, PC, Rotating
  <2>4. acked' \subseteq Nat
    BY <1>5, <2>1 DEF write_seal, TypeOK, TamperLogHandle
  <2> QED
    BY <1>5, <2>2, <2>3, <2>4 DEF write_seal, TypeOK
<1>6. ASSUME NEW p \in Proc, write_seal_fails(p) PROVE TypeOK'
  <2>1. log[p] \in TamperLogHandle
    BY DEF TypeOK
  <2>2. seal' \in [Slot -> SealState]
    BY <1>6, SealType DEF write_seal_fails, TypeOK
  <2>3. log' \in [Proc -> TamperLogHandle] /\ lock' \subseteq Proc
    <3>1. [log[p] EXCEPT !.pc = "idle"] \in TamperLogHandle
      BY <2>1 DEF TamperLogHandle, PC
    <3> QED
      BY <1>6, <3>1 DEF write_seal_fails, TypeOK
  <2>4. harm' \subseteq Kinds /\ faults' \in Nat
    BY <1>6, FaultyType DEF write_seal_fails, TypeOK, Kinds
  <2> QED
    BY <1>6, <2>2, <2>3, <2>4 DEF write_seal_fails, TypeOK, Kinds
<1>7. ASSUME NEW p \in Proc, rotate_rename(p) PROVE TypeOK'
  <2>1. next_rotation_number \in Slot
    BY NextNumber, BoundsAssumption DEF Slot
  <2>2. file' \in [Slot -> File]
    BY <1>7, <2>1 DEF rotate_rename, TypeOK
  <2>3. log' \in [Proc -> TamperLogHandle]
    <3>1. [log[p] EXCEPT !.pc = "rename_seal", !.fd = next_rotation_number] \in TamperLogHandle
      BY Zenon, <2>1 DEF TypeOK, TamperLogHandle, PC, Rotating
    <3> QED
      BY <1>7, <3>1 DEF rotate_rename, TypeOK
  <2> QED
    BY <1>7, <2>2, <2>3 DEF rotate_rename, TypeOK
<1>8. ASSUME NEW p \in Proc, rename_seal(p) PROVE TypeOK'
  <2>1. seal' \in [Slot -> SealState]
    BY Zenon, <1>8 DEF rename_seal, TypeOK, TamperLogHandle
  <2>2. log' \in [Proc -> TamperLogHandle]
    <3>1. [log[p] EXCEPT !.pc = "create"] \in TamperLogHandle
      BY Zenon DEF TypeOK, TamperLogHandle, PC, Rotating
    <3> QED
      BY <1>8, <3>1 DEF rename_seal, TypeOK
  <2> QED
    BY <1>8, <2>1, <2>2 DEF rename_seal, TypeOK
<1>9. ASSUME NEW p \in Proc, rotate_create(p) PROVE TypeOK'
  <2>1. file' \in [Slot -> File]
    BY Zenon, <1>9 DEF rotate_create, TypeOK, File
  <2>2. log' \in [Proc -> TamperLogHandle]
    <3>1. [log[p] EXCEPT !.pc = "seal_rotate",
                         !.fd = 0,
                         !.segment_start_hash = log[p].prev_hash,
                         !.sequence = 0,
                         !.bytes_written = 0] \in TamperLogHandle
      BY Zenon DEF TypeOK, TamperLogHandle, PC, Rotating
    <3> QED
      BY <1>9, <3>1 DEF rotate_create, TypeOK
  <2> QED
    BY <1>9, <2>1, <2>2 DEF rotate_create, TypeOK
<1>10. ASSUME NEW p \in Proc, rotate_fails(p) PROVE TypeOK'
  <2>1. log' \in [Proc -> TamperLogHandle]
    BY Zenon, <1>10 DEF rotate_fails, TypeOK, TamperLogHandle, PC
  <2>2. harm' \subseteq Kinds /\ faults' \in Nat
    BY <1>10, FaultyType DEF rotate_fails, TypeOK, Kinds
  <2> QED
    BY <1>10, <2>1, <2>2 DEF rotate_fails, TypeOK, Kinds
<1>11. ASSUME NEW p \in Proc, drop(p) PROVE TypeOK'
  <2>1. log[p] \in TamperLogHandle /\ log[p].fd \in Slot /\ file[log[p].fd] \in File
    BY DEF TypeOK, TamperLogHandle
  <2>2. Written(file[log[p].fd], log[p], << >>) \in File
    <3>1. << >> \in Seq(Entry)
      OBVIOUS
    <3> QED
      BY Zenon, <2>1, <3>1, WrittenType
  <2>3. file' \in [Slot -> File]
    BY <1>11, <2>1, <2>2 DEF drop, TypeOK
  <2>4. log' \in [Proc -> TamperLogHandle] /\ lock' \subseteq Proc
    BY <1>11 DEF drop, TypeOK
  <2> QED
    BY <1>11, <2>3, <2>4 DEF drop, TypeOK
<1>12. ASSUME NEW p \in Proc, crash(p) PROVE TypeOK'
  <2>1. harm' \subseteq Kinds /\ faults' \in Nat
    BY <1>12, FaultyType DEF crash, TypeOK, Kinds
  <2>2. log' \in [Proc -> TamperLogHandle] /\ lock' \subseteq Proc
    BY <1>12, DieType DEF crash
  <2> QED
    BY <1>12, <2>1, <2>2 DEF crash, TypeOK, Kinds
<1>13. ASSUME NEW p \in Proc, crash_in_write(p) PROVE TypeOK'
  <2>1. harm' \subseteq Kinds /\ faults' \in Nat
    BY <1>13, FaultyType DEF crash_in_write, TypeOK, Kinds
  <2>2. log' \in [Proc -> TamperLogHandle] /\ lock' \subseteq Proc
    BY <1>13, DieType DEF crash_in_write
  <2>3. log[p] \in TamperLogHandle /\ log[p].fd \in Slot /\ file[log[p].fd] \in File
    BY DEF TypeOK, TamperLogHandle
  <2>4. file' \in [Slot -> File]
    <3>1. PICK t \in Torn(log[p]) :
              file' = [file EXCEPT ![log[p].fd].tail = TornTail(file[log[p].fd], log[p], t)]
      BY Zenon, <1>13 DEF crash_in_write
    <3>2. TornTail(file[log[p].fd], log[p], t) \in TailState
      BY <2>3, <3>1 DEF Torn, TornTail, File, TailState, TamperLogHandle
    <3> QED
      BY Zenon, <2>3, <3>1, <3>2 DEF TypeOK, File
  <2>5. nextEvent' \in Nat
    BY <1>13 DEF crash_in_write, TypeOK
  <2> QED
    BY <1>13, <2>1, <2>2, <2>4, <2>5 DEF crash_in_write, TypeOK, Kinds
<1>14. ASSUME power_loss PROVE TypeOK'
  <2>1. harm' \subseteq Kinds /\ faults' \in Nat
    BY <1>14, FaultyType DEF power_loss, TypeOK, Kinds
  <2>2. log' \in [Proc -> TamperLogHandle] /\ lock' \subseteq Proc
    BY <1>14, DieType DEF power_loss
  <2>3. file' \in [Slot -> File]
    BY <1>14, LosesTailType DEF power_loss
  <2> QED
    BY <1>14, <2>1, <2>2, <2>3 DEF power_loss, TypeOK, Kinds
<1>15. ASSUME lose_tail PROVE TypeOK'
  <2>1. harm' \subseteq Kinds /\ faults' \in Nat
    BY <1>15, FaultyType DEF lose_tail, TypeOK, Kinds
  <2>2. file' \in [Slot -> File]
    BY <1>15, LosesTailType DEF lose_tail
  <2> QED
    BY <1>15, <2>1, <2>2 DEF lose_tail, TypeOK, Kinds
<1>16. ASSUME lose_segment PROVE TypeOK'
  <2>1. harm' \subseteq Kinds /\ faults' \in Nat
    BY <1>16, FaultyType DEF lose_segment, TypeOK, Kinds
  <2>2. file' \in [Slot -> File] /\ seal' \in [Slot -> SealState]
    BY Zenon, <1>16 DEF lose_segment, TypeOK
  <2> QED
    BY <1>16, <2>1, <2>2 DEF lose_segment, TypeOK, Kinds
<1>17. ASSUME UNCHANGED vars PROVE TypeOK'
  BY <1>17 DEF TypeOK, vars
<1> QED
  BY <1>1, <1>2, <1>3, <1>4, <1>5, <1>6, <1>7, <1>8, <1>9, <1>10, <1>11, <1>12,
     <1>13, <1>14, <1>15, <1>16, <1>17 DEF Next

\* Type correctness of the tamper log.
THEOREM TypeCorrect == Spec => []TypeOK
<1>1. Init => TypeOK
  BY ConstantTypes DEF Init, TypeOK
<1> QED
  BY <1>1, TypeStep, PTL DEF Spec

-----------------------------------------------------------------------------
\* The single-writer lock.

\* Every step preserves the single-writer lock: only acquire adds a holder, and
\* only to an empty lock.
LEMMA SingleWriterStep == TypeOK /\ SingleWriter /\ [Next]_vars => SingleWriter'
<1> SUFFICES ASSUME TypeOK, SingleWriter, [Next]_vars PROVE SingleWriter'
  OBVIOUS
<1> USE DEF SingleWriter, TypeOK
<1>1. ASSUME NEW p \in Proc, open_inner(p) PROVE SingleWriter'
  BY <1>1 DEF open_inner, acquire
<1>2. ASSUME NEW p \in Proc, open_refused(p) PROVE SingleWriter'
  BY <1>2 DEF open_refused, vars
<1>3. ASSUME NEW p \in Proc, append(p) PROVE SingleWriter'
  BY <1>3 DEF append
<1>4. ASSUME NEW p \in Proc, append_fails(p) PROVE SingleWriter'
  BY <1>4 DEF append_fails
<1>5. ASSUME NEW p \in Proc, write_seal(p) PROVE SingleWriter'
  BY <1>5 DEF write_seal, Sealing
<1>6. ASSUME NEW p \in Proc, write_seal_fails(p) PROVE SingleWriter'
  BY <1>6 DEF write_seal_fails, Sealing, Closed
<1>7. ASSUME NEW p \in Proc, rotate_rename(p) PROVE SingleWriter'
  BY <1>7 DEF rotate_rename
<1>8. ASSUME NEW p \in Proc, rename_seal(p) PROVE SingleWriter'
  BY <1>8 DEF rename_seal
<1>9. ASSUME NEW p \in Proc, rotate_create(p) PROVE SingleWriter'
  BY <1>9 DEF rotate_create
<1>10. ASSUME NEW p \in Proc, rotate_fails(p) PROVE SingleWriter'
  BY <1>10 DEF rotate_fails
<1>11. ASSUME NEW p \in Proc, drop(p) PROVE SingleWriter'
  BY <1>11 DEF drop, Closed
<1>12. ASSUME NEW p \in Proc, crash(p) PROVE SingleWriter'
  BY <1>12 DEF crash, Die, Closed
<1>13. ASSUME NEW p \in Proc, crash_in_write(p) PROVE SingleWriter'
  BY <1>13 DEF crash_in_write, Die, Closed
<1>14. ASSUME power_loss PROVE SingleWriter'
  BY <1>14 DEF power_loss, Die, Closed
<1>15. ASSUME lose_tail PROVE SingleWriter'
  BY <1>15 DEF lose_tail
<1>16. ASSUME lose_segment PROVE SingleWriter'
  BY <1>16 DEF lose_segment
<1>17. ASSUME UNCHANGED vars PROVE SingleWriter'
  BY <1>17 DEF vars
<1> QED
  BY <1>1, <1>2, <1>3, <1>4, <1>5, <1>6, <1>7, <1>8, <1>9, <1>10, <1>11, <1>12,
     <1>13, <1>14, <1>15, <1>16, <1>17 DEF Next

\* A process with an open TamperLog handle is the only holder of the lock, under
\* every fault, so no two handles of the log are ever open at once.
THEOREM WritersExclude == Spec => []SingleWriter
<1>1. Init => SingleWriter
  BY DEF Init, SingleWriter, Closed
<1> QED
  BY <1>1, TypeCorrect, SingleWriterStep, PTL DEF Spec

-----------------------------------------------------------------------------
(***************************************************************************)
(* Recovery from crashes and failed seals.  Recoverable is not inductive:  *)
(* it is silent while a handle is open.  The invariant says what the log,  *)
(* its seal and the open handle have to do with each other at every step.  *)
(***************************************************************************)

LinksHold(f, start) == \A i \in 1 .. Len(f.entries) : LinkHolds(f, start, i)

\* What open_inner resumes from: whole entries, linked from where the seal says
\* they start and no fewer than it counts; or no entry and no seal yet.
LiveSound ==
    /\ file[0].exists
    /\ file[0].tail = "clean"
    /\ \/ /\ seal[0].state = "Valid"
          /\ seal[0].entry_count <= Len(file[0].entries)
          /\ LinksHold(file[0], seal[0].segment_start_hash)
       \/ seal[0].state = "Absent" /\ file[0].entries = << >>

\* The handle h is at the end of the live file.
AtEnd(h) ==
    /\ h.fd = 0
    /\ h.sequence = Len(file[0].entries)
    /\ h.segment_start_hash = resolve_start_hash(seal[0])
    /\ h.prev_hash = Terminal(file[0], h.segment_start_hash)

\* What the handle h and the live path are, at each step of h.
HandleSound(h) ==
    /\ h.pc # "closed" => h.buf = << >> /\ h.torn = "clean"
    /\ h.pc \in {"seal_open", "idle", "seal_append", "rename"} => LiveSound /\ AtEnd(h)
    /\ h.pc \in {"idle", "seal_append", "rename"} => seal[0].state = "Valid"
    /\ h.pc \in {"rename_seal", "create"} => h.fd # 0 /\ file[0] = NoFile
    /\ h.pc \in {"create", "seal_rotate"} => seal[0].state = "Absent"
    /\ h.pc = "seal_rotate" =>
           /\ file[0].exists /\ file[0].tail = "clean" /\ file[0].entries = << >>
           /\ h.fd = 0 /\ h.sequence = 0 /\ h.prev_hash = h.segment_start_hash

CrashSafe ==
    Benign =>
        /\ lock = {} => LiveSound \/ (file[0] = NoFile /\ seal[0].state = "Absent")
        /\ \A p \in Proc : HandleSound(log[p])

\* What refresh_seal is about to authenticate is what the live file holds.
Sealed(p) ==
    /\ file[0].exists /\ file[0].tail = "clean"
    /\ LinksHold(file[0], log[p].segment_start_hash)
    /\ log[p].fd = 0
    /\ log[p].sequence = Len(file[0].entries)
    /\ log[p].prev_hash = Terminal(file[0], log[p].segment_start_hash)

\* The invariant is what open_inner needs.
LEMMA SoundIsResumable ==
    ASSUME TypeOK, LiveSound
    PROVE  verify_chain(file[0], seal[0]) \in Resumable
<1>1. file[0] \in File /\ seal[0] \in SealState /\ Len(file[0].entries) \in Nat
  BY ConstantTypes DEF TypeOK, File
<1>2. LinksHold(file[0], resolve_start_hash(seal[0]))
  BY <1>1 DEF LiveSound, LinksHold, resolve_start_hash
<1>3. stream_verify(file[0], resolve_start_hash(seal[0])) = "Clean"
  BY <1>2 DEF LinksHold, stream_verify, LiveSound
<1>4. verify_chain(file[0], seal[0]) = classify_terminal(seal[0], Len(file[0].entries))
  BY <1>3 DEF verify_chain, verify_from
<1>5. classify_terminal(seal[0], Len(file[0].entries)) \in Resumable
  BY <1>1 DEF LiveSound, classify_terminal, Resumable, SealState
<1> QED
  BY <1>4, <1>5

\* Appending an entry linked from the end of a chain extends the chain by one.
LEMMA AppendExtends ==
    ASSUME NEW f \in File, NEW start \in Hash, LinksHold(f, start),
           NEW entry \in Entry, entry.hash = Link(entry.event, Terminal(f, start)),
           NEW g \in File, g.entries = f.entries \o << >> \o <<entry>>
    PROVE  /\ Len(g.entries) = Len(f.entries) + 1
           /\ LinksHold(g, start)
           /\ Terminal(g, start) = entry.hash
<1> DEFINE s == f.entries
           t == g.entries
<1>1. s \in Seq(Entry)
  BY DEF File
<1>2. entry \in Entry
  OBVIOUS
<1>3. t = Append(s, entry)
  BY <1>1, <1>2
<1>4. Len(t) = Len(s) + 1 /\ Len(s) \in Nat
  BY <1>1, <1>2, <1>3
<1>5. \A i \in 1 .. Len(s) : t[i] = s[i]
  BY <1>1, <1>2, <1>3
<1>6. t[Len(s) + 1] = entry
  BY <1>1, <1>2, <1>3
<1>7. LinksHold(g, start)
  <2> SUFFICES ASSUME NEW i \in 1 .. Len(t) PROVE LinkHolds(g, start, i)
    BY DEF LinksHold
  <2>1. CASE i \in 1 .. Len(s)
    <3>1. LinkHolds(f, start, i)
      BY <2>1 DEF LinksHold
    <3>2. t[i] = s[i]
      BY <1>5, <2>1
    <3>3. ASSUME i # 1 PROVE t[i - 1] = s[i - 1]
      <4>1. i - 1 \in 1 .. Len(s)
        BY <1>4, <2>1, <3>3
      <4> QED
        BY Zenon, <1>5, <4>1
    <3> QED
      BY Zenon, <3>1, <3>2, <3>3 DEF LinkHolds
  <2>2. CASE i = Len(s) + 1
    <3>1. Terminal(f, start) = IF i = 1 THEN start ELSE t[i - 1].hash
      <4>1. CASE s = << >>
        BY <1>4, <2>2, <4>1 DEF Terminal
      <4>2. CASE s # << >>
        BY <1>1, <1>4, <1>5, <2>2, <4>2, LastIsEntry DEF Terminal
      <4> QED
        BY Zenon, <4>1, <4>2
    <3>2. t[i] = entry
      BY <1>6, <2>2
    <3>3. t[i].hash = Link(t[i].event, Terminal(f, start))
      BY <3>2
    <3> QED
      BY Zenon, <3>1, <3>3 DEF LinkHolds
  <2> QED
    BY <1>4, <2>1, <2>2
<1>8. Terminal(g, start) = entry.hash
  <2>1. t # << >>
    BY <1>4
  <2> QED
    BY <1>4, <1>6, <2>1 DEF Terminal
<1> QED
  BY <1>4, <1>7, <1>8

\* Every step preserves the strengthened invariant: the live chain is well linked
\* and its seal is never ahead of it, at every point of append, write_seal and
\* rotate.
LEMMA CrashSafeStep ==
    TypeOK /\ SingleWriter /\ CrashSafe /\ [Next]_vars => CrashSafe'
<1> DEFINE Goal == /\ lock' = {} => LiveSound' \/ (file'[0] = NoFile /\ seal'[0].state = "Absent")
                   /\ \A q \in Proc : HandleSound(log[q])'
<1> SUFFICES ASSUME TypeOK, SingleWriter, CrashSafe, [Next]_vars, Benign'
             PROVE  Goal
  BY DEF CrashSafe
<1> HIDE DEF Goal
<1> USE ConstantTypes
<1>a. TypeOK' /\ SingleWriter'
  BY TypeStep, SingleWriterStep
<1>b. ASSUME NEW kinds, Faulty(kinds) PROVE Benign /\ kinds \subseteq {"crash", "seal"}
  BY <1>b DEF Faulty, Benign
<1>c. ASSUME harm' = harm PROVE Benign
  BY <1>c DEF Benign
<1>d. ASSUME NEW p \in Proc, lock' = {p}, HandleSound(log[p])' PROVE Goal
  <2>1. \A q \in Proc \ {p} : log'[q].pc = "closed"
    BY <1>a, <1>d DEF SingleWriter
  <2> QED
    BY <1>d, <2>1 DEF HandleSound, Goal
<1>e. ASSUME lock' = {}, LiveSound' \/ (file'[0] = NoFile /\ seal'[0].state = "Absent") PROVE Goal
  <2>1. \A q \in Proc : log'[q].pc = "closed"
    BY <1>a, <1>e DEF SingleWriter
  <2> QED
    BY <1>e, <2>1 DEF HandleSound, Goal
<1>f. ASSUME NEW p \in Proc, log[p].pc # "closed" PROVE lock = {p}
  BY <1>f DEF SingleWriter
<1>g. file[0] \in File /\ seal[0] \in SealState
  BY DEF TypeOK
<1>h. ASSUME UNCHANGED <<file, seal>>
      PROVE  (LiveSound <=> LiveSound') /\ \A h : AtEnd(h) <=> AtEnd(h)'
  BY <1>h DEF LiveSound, AtEnd
<1>i. ASSUME NEW p \in Proc, HandleSound(log[p]), log[p].pc \in Sealing PROVE Sealed(p)
  <2>1. CASE log[p].pc = "seal_rotate"
    <3>1. file[0].entries = << >>
      BY <1>i, <2>1 DEF HandleSound
    <3>2. Terminal(file[0], log[p].segment_start_hash) = log[p].segment_start_hash
      BY <3>1 DEF Terminal
    <3>3. LinksHold(file[0], log[p].segment_start_hash)
      BY <3>1 DEF LinksHold
    <3> QED
      BY <1>i, <2>1, <3>1, <3>2, <3>3 DEF Sealed, HandleSound
  <2>2. CASE log[p].pc \in {"seal_open", "seal_append"}
    <3>1. LiveSound /\ AtEnd(log[p])
      BY <1>i, <2>2 DEF HandleSound
    <3>2. LinksHold(file[0], resolve_start_hash(seal[0]))
      BY <3>1 DEF LiveSound, LinksHold, resolve_start_hash
    <3> QED
      BY <3>1, <3>2 DEF Sealed, LiveSound, AtEnd
  <2> QED
    BY <1>i, <2>1, <2>2 DEF Sealing
<1>j. ASSUME NEW p \in Proc
      PROVE  /\ refresh_seal(p).state = "Valid"
             /\ refresh_seal(p).entry_count = log[p].sequence
             /\ refresh_seal(p).segment_start_hash = log[p].segment_start_hash
  BY DEF refresh_seal
<1>k. ASSUME NEW p \in Proc, Sealed(p), file' = file, seal'[0] = refresh_seal(p)
      PROVE  LiveSound'
  <2>1. Len(file[0].entries) \in Nat
    BY <1>g DEF File
  <2>2. seal'[0].entry_count <= Len(file[0].entries)
    BY <1>j, <1>k, <2>1 DEF Sealed
  <2> QED
    BY <1>j, <1>k, <2>2 DEF Sealed, LiveSound
<1>1. ASSUME NEW p \in Proc, open_inner(p) PROVE Goal
  <2>1. Benign /\ lock = {} /\ lock' = {p}
    BY <1>1, <1>c DEF open_inner, acquire
  <2>2. LiveSound \/ (file[0] = NoFile /\ seal[0].state = "Absent")
    BY <2>1 DEF CrashSafe
  <2>3. /\ file'[0].exists
        /\ file'[0].entries = file[0].entries
        /\ file'[0].tail = file[0].tail
        /\ seal'[0] = seal[0]
    BY <1>1, <1>g DEF open_inner, TypeOK, File
  <2>4. LiveSound'
    <3>1. ASSUME NEW start, LinksHold(file[0], start) PROVE LinksHold(file'[0], start)
      BY Zenon, <2>3, <3>1 DEF LinksHold, LinkHolds
    <3>2. CASE LiveSound
      BY <2>3, <3>1, <3>2 DEF LiveSound
    <3>3. CASE file[0] = NoFile /\ seal[0].state = "Absent"
      BY <2>3, <3>3 DEF LiveSound, NoFile
    <3> QED
      BY <2>2, <3>2, <3>3
  <2>5. /\ log'[p].pc = "seal_open" /\ log'[p].fd = 0
        /\ log'[p].buf = << >> /\ log'[p].torn = "clean"
        /\ log'[p].sequence = Len(file[0].entries)
        /\ log'[p].segment_start_hash = resolve_start_hash(seal[0])
        /\ log'[p].prev_hash = Terminal(file[0], log'[p].segment_start_hash)
    BY <1>1, <2>2 DEF open_inner, TypeOK, Closed, recover_state, LiveSound, resolve_start_hash
  <2>6. AtEnd(log[p])'
    BY <2>3, <2>5 DEF AtEnd, Terminal
  <2> QED
    BY <2>1, <2>4, <2>5, <2>6, <1>d DEF HandleSound
<1>2. ASSUME UNCHANGED vars PROVE Goal
  <2>1. Benign /\ file' = file /\ seal' = seal /\ lock' = lock /\ log' = log
    BY <1>2, <1>c DEF vars
  <2>2. \A q \in Proc : HandleSound(log[q]) <=> HandleSound(log[q])'
    BY <1>h, <2>1 DEF HandleSound
  <2> QED
    BY <1>h, <2>1, <2>2 DEF CrashSafe, Goal
<1>3. ASSUME NEW p \in Proc, append(p) PROVE Goal
  <2> DEFINE h == log[p]
             start == seal[0].segment_start_hash
             entry == encode_entry(p)
  <2>1. Benign /\ lock' = {p} /\ h.pc = "idle"
    BY <1>3, <1>c, <1>f DEF append
  <2>2. LiveSound /\ AtEnd(h) /\ seal[0].state = "Valid" /\ h.buf = << >> /\ h.torn = "clean"
    BY <2>1 DEF CrashSafe, HandleSound
  <2>3. start \in Hash /\ LinksHold(file[0], start) /\ h.segment_start_hash = start
    BY <1>g, <2>2 DEF SealState, LiveSound, AtEnd, resolve_start_hash
  <2>4. file'[0] = [file[0] EXCEPT !.entries = file[0].entries \o << >> \o <<entry>>,
                                   !.tail = "clean"]
    BY <1>3, <2>2 DEF append, Written, LiveSound, AtEnd, TypeOK
  <2>5. file'[0] \in File
    BY <1>a DEF TypeOK
  <2>6. /\ file'[0].exists /\ file'[0].tail = "clean"
        /\ file'[0].entries = file[0].entries \o << >> \o <<entry>>
    BY <1>g, <2>2, <2>4 DEF LiveSound, File
  <2>7. entry \in Entry /\ entry.hash = Link(entry.event, Terminal(file[0], start))
    BY <2>2, <2>3, EncodeType DEF encode_entry, AtEnd
  <2>8. /\ Len(file'[0].entries) = Len(file[0].entries) + 1
        /\ LinksHold(file'[0], start)
        /\ Terminal(file'[0], start) = entry.hash
    <3> DEFINE f == file[0]
               g == file'[0]
    <3>1. /\ f \in File /\ g \in File /\ start \in Hash /\ entry \in Entry
          /\ LinksHold(f, start)
          /\ entry.hash = Link(entry.event, Terminal(f, start))
          /\ g.entries = f.entries \o << >> \o <<entry>>
      BY <1>g, <2>3, <2>5, <2>6, <2>7
    <3> HIDE DEF start, entry, f, g
    <3>2. /\ Len(g.entries) = Len(f.entries) + 1
          /\ LinksHold(g, start)
          /\ Terminal(g, start) = entry.hash
      BY <3>1, AppendExtends
    <3> QED
      BY <3>2 DEF f, g
  <2>9. Len(file[0].entries) \in Nat /\ seal[0].entry_count \in Nat
    BY <1>g DEF File, SealState
  <2>10. seal' = seal
    BY <1>3 DEF append
  <2>11. LiveSound'
    <3>1. seal[0].entry_count <= Len(file[0].entries)
      BY <2>2 DEF LiveSound
    <3>2. seal'[0].entry_count <= Len(file'[0].entries)
      BY <2>8, <2>9, <2>10, <3>1
    <3>3. seal'[0].state = "Valid" /\ LinksHold(file'[0], seal'[0].segment_start_hash)
      BY <2>2, <2>8, <2>10
    <3> QED
      BY <2>6, <3>2, <3>3 DEF LiveSound
  <2>12. log'[p] = [h EXCEPT !.pc = "seal_append", !.buf = << >>, !.torn = "clean",
                             !.event = nextEvent, !.prev_hash = entry.hash,
                             !.sequence = h.sequence + 1,
                             !.bytes_written = h.bytes_written + 1]
    BY <1>3 DEF append, TypeOK
  <2>13. /\ log'[p].pc = "seal_append" /\ log'[p].buf = << >> /\ log'[p].torn = "clean"
         /\ log'[p].fd = h.fd /\ log'[p].segment_start_hash = h.segment_start_hash
         /\ log'[p].sequence = h.sequence + 1 /\ log'[p].prev_hash = entry.hash
    <3>1. h \in TamperLogHandle
      BY DEF TypeOK
    <3> HIDE DEF h, entry
    <3> QED
      BY <2>12, <3>1 DEF TamperLogHandle
  <2>14. AtEnd(log[p])'
    BY <2>2, <2>3, <2>8, <2>10, <2>13 DEF AtEnd, resolve_start_hash
  <2> QED
    BY <2>1, <2>2, <2>10, <2>11, <2>13, <2>14, <1>d DEF HandleSound
<1>4. ASSUME NEW p \in Proc, append_fails(p) PROVE Goal
  BY <1>b, <1>4 DEF append_fails
<1>5. ASSUME NEW p \in Proc, write_seal(p) PROVE Goal
  <2>1. Benign /\ lock' = {p} /\ HandleSound(log[p]) /\ log[p].pc \in Sealing
    BY <1>5, <1>c, <1>f DEF write_seal, CrashSafe, Sealing
  <2>2. file' = file /\ seal'[0] = refresh_seal(p)
    BY <1>5 DEF write_seal, TypeOK
  <2>3. Sealed(p)
    BY <1>i, <2>1
  <2>4. LiveSound' /\ seal'[0].state = "Valid"
    BY <1>j, <1>k, <2>2, <2>3
  <2>5. /\ log'[p].pc \in {"idle", "rename"}
        /\ log'[p].fd = log[p].fd /\ log'[p].buf = log[p].buf /\ log'[p].torn = log[p].torn
        /\ log'[p].sequence = log[p].sequence /\ log'[p].prev_hash = log[p].prev_hash
        /\ log'[p].segment_start_hash = log[p].segment_start_hash
    BY <1>5 DEF write_seal, TypeOK, TamperLogHandle
  <2>6. AtEnd(log[p])'
    <3>1. resolve_start_hash(seal[0])' = log[p].segment_start_hash
      BY <2>2, <1>j DEF resolve_start_hash
    <3> QED
      BY <2>2, <2>3, <2>5, <3>1 DEF Sealed, AtEnd
  <2>7. log[p].buf = << >> /\ log[p].torn = "clean"
    BY <2>1 DEF HandleSound, Sealing
  <2>8. HandleSound(log[p])'
    BY <2>4, <2>5, <2>6, <2>7 DEF HandleSound
  <2> QED
    BY <2>1, <2>8, <1>d
<1>6. ASSUME NEW p \in Proc, write_seal_fails(p) PROVE Goal
  <2>1. Benign /\ log[p].pc \in {"seal_open", "seal_append"}
    BY <1>6, <1>b DEF write_seal_fails, Sealing
  <2>2. HandleSound(log[p]) /\ lock = {p} /\ Sealed(p) /\ LiveSound
    BY <2>1, <1>f, <1>i DEF CrashSafe, Sealing, HandleSound
  <2>3. file' = file /\ (seal' = seal \/ seal'[0] = refresh_seal(p))
    BY <1>6 DEF write_seal_fails, TypeOK
  <2>4. LiveSound'
    <3>1. CASE seal' = seal
      BY <2>2, <2>3, <3>1, <1>h
    <3>2. CASE seal'[0] = refresh_seal(p)
      BY <1>j, <1>k, <2>2, <2>3, <3>2
    <3> QED
      BY <2>3, <3>1, <3>2
  <2>5. CASE log[p].pc = "seal_open"
    BY <1>6, <1>e, <2>2, <2>4, <2>5 DEF write_seal_fails
  <2>6. CASE log[p].pc = "seal_append"
    <3>1. /\ log'[p].pc = "idle" /\ lock' = {p}
          /\ log'[p].fd = log[p].fd /\ log'[p].buf = log[p].buf /\ log'[p].torn = log[p].torn
          /\ log'[p].sequence = log[p].sequence /\ log'[p].prev_hash = log[p].prev_hash
          /\ log'[p].segment_start_hash = log[p].segment_start_hash
      BY <1>6, <2>2, <2>6 DEF write_seal_fails, TypeOK, TamperLogHandle
    <3>2. AtEnd(log[p])' /\ seal'[0].state = "Valid"
      <4>1. seal[0].state = "Valid" /\ AtEnd(log[p])
        BY <2>2, <2>6 DEF HandleSound
      <4>2. resolve_start_hash(seal[0])' = log[p].segment_start_hash /\ seal'[0].state = "Valid"
        BY <1>j, <2>3, <4>1 DEF AtEnd, resolve_start_hash
      <4> QED
        BY <2>3, <3>1, <4>1, <4>2 DEF AtEnd
    <3>3. log[p].buf = << >> /\ log[p].torn = "clean"
      BY <2>2, <2>6 DEF HandleSound
    <3>4. HandleSound(log[p])'
      BY <2>4, <3>1, <3>2, <3>3 DEF HandleSound
    <3> QED
      BY <3>1, <3>4, <1>d
  <2> QED
    BY <2>1, <2>5, <2>6
<1>7. ASSUME NEW p \in Proc, rotate_rename(p) PROVE Goal
  <2>1. Benign /\ lock' = {p} /\ HandleSound(log[p]) /\ log[p].pc = "rename"
    BY <1>7, <1>c, <1>f DEF rotate_rename, CrashSafe
  <2>2. next_rotation_number \in Slot /\ next_rotation_number # 0
    BY NextNumber, BoundsAssumption DEF Slot
  <2>3. file'[0] = NoFile
    BY <1>7, <2>2 DEF rotate_rename, TypeOK
  <2>4. /\ log'[p].pc = "rename_seal" /\ log'[p].fd = next_rotation_number
        /\ log'[p].buf = log[p].buf /\ log'[p].torn = log[p].torn
    BY <1>7 DEF rotate_rename, TypeOK, TamperLogHandle
  <2> QED
    BY <2>1, <2>2, <2>3, <2>4, <1>d DEF HandleSound
<1>8. ASSUME NEW p \in Proc, rename_seal(p) PROVE Goal
  <2>1. Benign /\ lock' = {p} /\ HandleSound(log[p]) /\ log[p].pc = "rename_seal"
    BY <1>8, <1>c, <1>f DEF rename_seal, CrashSafe
  <2>2. log[p].fd # 0 /\ log[p].fd \in Slot /\ file[0] = NoFile
    BY <2>1 DEF HandleSound, TypeOK, TamperLogHandle
  <2>3. seal'[0].state = "Absent"
    BY <1>8, <2>2 DEF rename_seal, TypeOK, NoSeal
  <2>4. /\ file' = file
        /\ log'[p].pc = "create" /\ log'[p].fd = log[p].fd
        /\ log'[p].buf = log[p].buf /\ log'[p].torn = log[p].torn
    BY <1>8 DEF rename_seal, TypeOK, TamperLogHandle
  <2> QED
    BY <2>1, <2>2, <2>3, <2>4, <1>d DEF HandleSound
<1>9. ASSUME NEW p \in Proc, rotate_create(p) PROVE Goal
  <2>1. Benign /\ lock' = {p} /\ HandleSound(log[p]) /\ log[p].pc = "create"
    BY <1>9, <1>c, <1>f DEF rotate_create, CrashSafe
  <2>2. file'[0].exists /\ file'[0].entries = << >> /\ file'[0].tail = "clean"
    BY <1>9, <2>1 DEF rotate_create, TypeOK, HandleSound, NoFile
  <2>3. /\ seal' = seal
        /\ log'[p].pc = "seal_rotate" /\ log'[p].fd = 0 /\ log'[p].sequence = 0
        /\ log'[p].buf = log[p].buf /\ log'[p].torn = log[p].torn
        /\ log'[p].prev_hash = log'[p].segment_start_hash
    BY <1>9 DEF rotate_create, TypeOK, TamperLogHandle
  <2> QED
    BY <2>1, <2>2, <2>3, <1>d DEF HandleSound
<1>10. ASSUME NEW p \in Proc, rotate_fails(p) PROVE Goal
  <2>1. Benign /\ log[p].pc = "rename" /\ ~file[0].exists
    BY <1>10, <1>b, <1>c DEF rotate_fails
  <2> QED
    BY <2>1 DEF CrashSafe, HandleSound, LiveSound
<1>11. ASSUME NEW p \in Proc, drop(p) PROVE Goal
  <2>1. Benign /\ lock = {p} /\ HandleSound(log[p]) /\ log[p].pc = "idle"
    BY <1>11, <1>c, <1>f DEF drop, CrashSafe
  <2>2. LiveSound /\ UNCHANGED <<file, seal>> /\ lock' = {}
    BY <1>11, <2>1 DEF drop, HandleSound
  <2> QED
    BY <2>2, <1>e, <1>h
<1>12. ASSUME NEW p \in Proc, crash(p) PROVE Goal
  <2>1. Benign /\ log[p].pc \notin Rotating /\ log[p].pc # "closed"
    BY <1>12, <1>b DEF crash
  <2>2. LiveSound
    BY <2>1 DEF CrashSafe, HandleSound, TypeOK, TamperLogHandle, PC
  <2>3. UNCHANGED <<file, seal>> /\ lock' = {}
    BY <1>12, <2>1, <1>f DEF crash, Die
  <2> QED
    BY <2>2, <2>3, <1>e, <1>h
<1>13. ASSUME NEW p \in Proc, crash_in_write(p) PROVE Goal
  BY <1>b, <1>13 DEF crash_in_write
<1>14. ASSUME power_loss PROVE Goal
  BY <1>b, <1>14 DEF power_loss
<1>15. ASSUME lose_tail PROVE Goal
  BY <1>b, <1>15 DEF lose_tail
<1>16. ASSUME lose_segment PROVE Goal
  BY <1>b, <1>16 DEF lose_segment
<1>17. ASSUME NEW p \in Proc, open_refused(p) PROVE Goal
  BY <1>2, <1>17 DEF open_refused
<1> QED
  BY <1>1, <1>2, <1>3, <1>4, <1>5, <1>6, <1>7, <1>8, <1>9, <1>10, <1>11, <1>12,
     <1>13, <1>14, <1>15, <1>16, <1>17 DEF Next

\* Whatever writers crash outside rotate and whichever seals they fail to write,
\* open_inner can resume the log they leave: verify_chain finds it Intact, Empty
\* or Unsealed, after any number of rotations.
THEOREM CrashRecovery == Spec => []Recoverable
<1>1. Init => CrashSafe
  <2> SUFFICES ASSUME Init PROVE CrashSafe
    OBVIOUS
  <2>1. file[0] = NoFile /\ seal[0].state = "Absent"
    BY ConstantTypes DEF Init, NoSeal
  <2>2. \A p \in Proc : log[p].pc = "closed"
    BY DEF Init, Closed
  <2> QED
    BY <2>1, <2>2 DEF CrashSafe, HandleSound
<1>2. TypeOK /\ CrashSafe => Recoverable
  <2> SUFFICES ASSUME TypeOK, CrashSafe, Benign, lock = {}, file[0].exists
               PROVE  verify_chain(file[0], seal[0]) \in Resumable
    BY DEF Recoverable
  <2>1. file[0] # NoFile
    BY DEF NoFile
  <2>2. LiveSound
    BY <2>1 DEF CrashSafe
  <2> QED
    BY <2>2, SoundIsResumable
<1> QED
  BY <1>1, <1>2, TypeCorrect, WritersExclude, CrashSafeStep, PTL DEF Spec

=============================================================================
