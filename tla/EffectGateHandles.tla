------------------------- MODULE EffectGateHandles --------------------------
(***************************************************************************)
(* What a step of EffectGate does to the ledger and to the handles, for    *)
(* every set of effects, every validity of the caller's context and every  *)
(* bound.  It either leaves the ledger alone and makes no handle but of a  *)
(* claimed receipt (Steady), or appends one receipt and passes on the      *)
(* handle of its predecessor (Grown).                                      *)
(***************************************************************************)
EXTENDS EffectGate, TLAPS

\* What the constructors of receipts make of the recovery relation.
Shape(r) ==
    /\ r.relation = "None" => r.target = NoEffect
    /\ r.relation # "None" => r.target \in Effect
    /\ r.event = "Intent" => r.relation \in {"None", "RecoveryOf"}
    /\ r.relation = "RequiredFor" => r.event \in Incomplete /\ r.target = r.effect
    /\ r.relation = "RecoveryOf" => r.event \in Unchanged \cup {"Intent", "Recovered"}

WellShaped == \A d \in DOMAIN ledger : Shape(ledger[d])

Requirement(d) == d \in DOMAIN ledger /\ outcome_needs_recovery(ledger[d])

\* What a call holds, and that the receipt it is about to append continues the chain.
GateSound ==
    /\ gate.pc \in {"append_intent", "append_outcome"} =>
         gate.pending \in EffectReceipt /\ Shape(gate.pending)
    /\ gate.pc = "append_intent" =>
         /\ gate.pending.event = "Intent"
         /\ IF gate.pending.predecessor = 0
              THEN gate.pending.relation = "None"
              ELSE /\ Requirement(gate.pending.predecessor)
                   /\ validate_child_of(gate.pending, ledger[gate.pending.predecessor])
    /\ gate.pc \in Settling => IsIntent(gate.intent) /\ Children(gate.intent) = {}
    /\ gate.pc = "append_outcome" =>
         /\ gate.pending.event # "Intent"
         /\ gate.pending.predecessor = gate.intent
         /\ validate_child_of(gate.pending, ledger[gate.intent])

\* What the application holds.
HandlesValid ==
    /\ \A d \in Digest : intents[d] > 0 \/ tickets[d] > 0 => IsIntent(d)
    /\ \A d \in Digest : authorities[d] > 0 => Requirement(d)

\* The inductive invariant of the ledger and the handles.
Sound == TypeOK /\ WellShaped /\ ChainValid /\ GateSound /\ HandlesValid

-----------------------------------------------------------------------------
(* Receipts *)

\* What sink.append does to the ledger: one receipt more, the others unchanged.
LEMMA AppendReceipt ==
    ASSUME ledger \in Seq(EffectReceipt), NEW r \in EffectReceipt,
           ledger' = Append(ledger, r)
    PROVE  /\ Len(ledger) \in Nat
           /\ DOMAIN ledger = 1 .. Len(ledger)
           /\ DOMAIN ledger' = 1 .. Len(ledger) + 1
           /\ Len(ledger') = Len(ledger) + 1
           /\ ledger' \in Seq(EffectReceipt)
           /\ \A d \in DOMAIN ledger : ledger'[d] = ledger[d]
           /\ ledger'[Len(ledger) + 1] = r
  OBVIOUS

\* Every position of the ledger is a digest, and has a receipt.
LEMMA LedgerTypes ==
    ASSUME TypeOK
    PROVE  /\ Len(ledger) \in Nat
           /\ DOMAIN ledger = 1 .. Len(ledger)
           /\ DOMAIN ledger \subseteq Digest
           /\ \A d \in DOMAIN ledger : ledger[d] \in EffectReceipt
<1>1. Len(ledger) \in Nat /\ DOMAIN ledger = 1 .. Len(ledger)
  BY DEF TypeOK
<1>2. 1 .. Len(ledger) \subseteq Digest
  BY <1>1, TimeAssumption DEF TypeOK, Digest
<1> QED
  BY <1>1, <1>2 DEF TypeOK

\* A handle of an intent is never one of a requirement.
LEMMA IntentIsNoRequirement ==
    ASSUME NEW r, r.event = "Intent"
    PROVE  ~outcome_needs_recovery(r)
  BY DEF outcome_needs_recovery, Incomplete, Unchanged

\* outcome_from makes a receipt that validate_child_of accepts.
LEMMA OutcomeValid ==
    ASSUME TypeOK, WellShaped, NEW d, IsIntent(d), NEW t \in Time,
           t >= ledger[d].observed_at, NEW o \in EffectOutcome,
           o = "Recovered" => ledger[d].relation = "RecoveryOf"
    PROVE  /\ outcome_from(d, t, o) \in EffectReceipt
           /\ Shape(outcome_from(d, t, o))
           /\ outcome_from(d, t, o).event = Recorded(ledger[d], o)
           /\ outcome_from(d, t, o).event # "Intent"
           /\ outcome_from(d, t, o).predecessor = d
           /\ validate_child_of(outcome_from(d, t, o), ledger[d])
<1> DEFINE p == ledger[d]
           r == outcome_from(d, t, o)
<1>1. p \in EffectReceipt /\ d \in Digest /\ p.event = "Intent" /\ Shape(p)
  BY LedgerTypes DEF IsIntent, WellShaped
<1>2. p.relation \in {"None", "RecoveryOf"}
  BY <1>1 DEF Shape
<1>3. /\ r.effect = p.effect /\ r.event = Recorded(p, o) /\ r.observed_at = t
      /\ r.predecessor = d
      /\ r.relation = IF o \in Incomplete THEN "RequiredFor" ELSE p.relation
      /\ r.target = IF o \in Incomplete THEN p.effect ELSE p.target
  BY DEF outcome_from
<1>4. p.effect \in Effect /\ p.target \in Effect \cup {NoEffect}
  BY <1>1 DEF EffectReceipt
<1>5. Recorded(p, o) \in EffectOutcome /\ Recorded(p, o) # "Intent"
  BY DEF Recorded, EffectOutcome, Incomplete, Unchanged
<1>6. r \in EffectReceipt
  <2>1. d \in Digest \cup {0} /\ r.relation \in {"None", "RequiredFor", "RecoveryOf"}
        /\ r.target \in Effect \cup {NoEffect}
    BY <1>1, <1>2, <1>3, <1>4
  <2>2. r = [effect |-> r.effect, event |-> r.event, observed_at |-> r.observed_at,
             predecessor |-> r.predecessor, relation |-> r.relation, target |-> r.target]
    BY DEF outcome_from
  <2> HIDE DEF r, p
  <2> QED
    BY <1>3, <1>4, <1>5, <2>1, <2>2 DEF EffectReceipt
<1>a. o = "Recovered" => p.relation = "RecoveryOf"
  OBVIOUS
<1> HIDE DEF p, r
<1>7. CASE o \in Incomplete
  <2>1. Recorded(p, o) = o
    BY <1>7 DEF Recorded, Incomplete
  <2>2. Shape(r)
    BY <1>3, <1>4, <1>7, <2>1 DEF Shape, Incomplete
  <2>3. <<r.relation, r.target>> = expected_outcome_relation(p, r.event)
    BY <1>2, <1>3, <1>7, <2>1 DEF expected_outcome_relation, Incomplete, Unchanged
  <2> QED
    BY <1>1, <1>3, <1>5, <1>6, <2>2, <2>3 DEF validate_child_of, p, r
<1>8. CASE o \notin Incomplete /\ p.relation = "None"
  <2>1. Recorded(p, o) = o /\ o \in Unchanged \cup {"Succeeded"}
    BY <1>a, <1>8 DEF Recorded, EffectOutcome
  <2>2. p.target = NoEffect
    BY <1>1, <1>8 DEF Shape
  <2>3. Shape(r)
    BY <1>3, <1>8, <2>1, <2>2 DEF Shape, Unchanged
  <2>4. <<r.relation, r.target>> = expected_outcome_relation(p, r.event)
    BY <1>3, <1>8, <2>1, <2>2 DEF expected_outcome_relation, Incomplete, Unchanged
  <2> QED
    BY <1>1, <1>3, <1>5, <1>6, <2>3, <2>4 DEF validate_child_of, p, r
<1>9. CASE o \notin Incomplete /\ p.relation = "RecoveryOf"
  <2>1. Recorded(p, o) \in Unchanged \cup {"Recovered"}
    BY <1>9 DEF Recorded, EffectOutcome
  <2>2. p.target \in Effect
    BY <1>1, <1>9 DEF Shape
  <2>3. Shape(r)
    BY <1>3, <1>9, <2>1, <2>2 DEF Shape, Unchanged
  <2>4. <<r.relation, r.target>> = expected_outcome_relation(p, r.event)
    BY <1>3, <1>9, <2>1 DEF expected_outcome_relation, Incomplete, Unchanged
  <2> QED
    BY <1>1, <1>3, <1>5, <1>6, <2>3, <2>4 DEF validate_child_of, p, r
<1> QED
  BY <1>2, <1>7, <1>8, <1>9

\* The two receipts a request makes.
LEMMA IntentValid ==
    ASSUME NEW e \in Effect, NEW t \in Time
    PROVE  /\ intent(e, t) \in EffectReceipt /\ Shape(intent(e, t))
           /\ intent(e, t).event = "Intent" /\ intent(e, t).predecessor = 0
           /\ intent(e, t).relation = "None"
  BY EffectAssumption DEF intent, EffectReceipt, Shape

\* The recovery intent made from an authorization passes validate_child_of for its
\* requirement.
LEMMA RecoveryIntentValid ==
    ASSUME NEW e \in Effect, NEW t \in Time, NEW r \in EffectReceipt, NEW d \in Digest,
           Shape(r), outcome_needs_recovery(r), t >= r.observed_at
    PROVE  LET i == recovery_intent(e, into_recovery_authorization(r, d), t)
           IN /\ i \in EffectReceipt /\ Shape(i)
              /\ i.event = "Intent" /\ i.predecessor = d
              /\ validate_child_of(i, r)
<1> DEFINE i == recovery_intent(e, into_recovery_authorization(r, d), t)
<1>1. i = [effect |-> e, event |-> "Intent", observed_at |-> t, predecessor |-> d,
           relation |-> "RecoveryOf", target |-> r.target]
  BY DEF recovery_intent, into_recovery_authorization
<1>2. r.target \in Effect
  BY DEF Shape, outcome_needs_recovery
<1>3. i \in EffectReceipt
  BY <1>1, <1>2 DEF EffectReceipt
<1>4. /\ i.event = "Intent" /\ i.predecessor = d /\ i.observed_at = t
      /\ i.relation = "RecoveryOf" /\ i.target = r.target
  BY <1>1
<1> HIDE DEF i
<1>5. Shape(i)
  BY <1>2, <1>4 DEF Shape
<1>6. r.event # "Intent"
  BY IntentIsNoRequirement
<1>7. validate_recovery_intent_child(i, r)
  BY <1>4 DEF validate_recovery_intent_child, outcome_needs_recovery
<1>8. validate_child_of(i, r)
  BY <1>4, <1>6, <1>7 DEF validate_child_of
<1> QED
  BY <1>3, <1>4, <1>5, <1>8 DEF i

-----------------------------------------------------------------------------
(* The chain *)

\* The ledger may be continued with r.
Continues(r) ==
    IF r.predecessor = 0
      THEN r.event = "Intent" /\ r.relation = "None"
      ELSE /\ r.predecessor \in DOMAIN ledger
           /\ validate_child_of(r, ledger[r.predecessor])

\* The receipt a call is about to append continues the ledger.
LEMMA PendingContinues ==
    ASSUME Sound, gate.pc \in {"append_intent", "append_outcome"}
    PROVE  gate.pending \in EffectReceipt /\ Shape(gate.pending) /\ Continues(gate.pending)
<1>1. gate.pending \in EffectReceipt /\ Shape(gate.pending)
  BY DEF Sound, GateSound
<1>2. CASE gate.pc = "append_intent"
  BY <1>1, <1>2 DEF Sound, GateSound, Continues, Requirement
<1>3. CASE gate.pc = "append_outcome"
  <2>1. gate.intent \in DOMAIN ledger /\ gate.intent # 0
    BY <1>3, LedgerTypes DEF Sound, GateSound, Settling, IsIntent
  <2> QED
    BY <1>1, <1>3, <2>1 DEF Sound, GateSound, Continues
<1> QED
  BY <1>1, <1>2, <1>3

\* What an append does to the chain, to the descendants and to what is unsettled.
LEMMA Grow ==
    ASSUME TypeOK, ChainValid, WellShaped, NEW r \in EffectReceipt, Shape(r), Continues(r),
           ledger' = Append(ledger, r), NEW n \in Digest, n = Len(ledger) + 1
    PROVE  /\ ledger' \in Seq(EffectReceipt) /\ Len(ledger') <= MaxReceipts
           /\ DOMAIN ledger' = DOMAIN ledger \cup {n} /\ n \notin DOMAIN ledger
           /\ ledger'[n] = r /\ \A d \in DOMAIN ledger : ledger'[d] = ledger[d]
           /\ ChainValid' /\ WellShaped'
           /\ Children(n)' = {}
           /\ \A d \in Digest : d # r.predecessor => Children(d)' = Children(d)
<1>1. /\ Len(ledger) \in Nat /\ DOMAIN ledger = 1 .. Len(ledger)
      /\ DOMAIN ledger' = 1 .. n /\ ledger'[n] = r
      /\ \A d \in DOMAIN ledger : ledger'[d] = ledger[d]
  BY AppendReceipt DEF TypeOK
<1>2. \A d \in DOMAIN ledger' : d = n \/ d \in DOMAIN ledger
  BY <1>1
<1>3. \A d \in DOMAIN ledger : ledger[d].predecessor \in Nat /\ ledger[d].predecessor < d
  BY <1>1, LedgerTypes DEF ChainValid, EffectReceipt, Digest
<1>4. r.predecessor = 0 \/ r.predecessor \in DOMAIN ledger
  BY DEF Continues
<1>5. r.predecessor # n /\ n \notin DOMAIN ledger
  BY <1>1, <1>4
<1>6. ChainValid'
  <2> SUFFICES ASSUME NEW d \in DOMAIN ledger'
               PROVE  IF ledger'[d].predecessor = 0
                        THEN ledger'[d].event = "Intent" /\ ledger'[d].relation = "None"
                        ELSE /\ ledger'[d].predecessor < d
                             /\ validate_child_of(ledger'[d], ledger'[ledger'[d].predecessor])
    BY Zenon DEF ChainValid, validate_child_of, validate_recovery_intent_child,
           expected_outcome_relation
  <2>1. CASE d = n
    <3>1. r.predecessor # 0 => r.predecessor < n /\ ledger'[r.predecessor] = ledger[r.predecessor]
      BY <1>1, <1>4
    <3> QED
      BY <1>1, <2>1, <3>1 DEF Continues
  <2>2. CASE d \in DOMAIN ledger
    <3>1. ledger[d].predecessor # 0 => ledger[d].predecessor \in DOMAIN ledger
      BY <1>1, <1>3, <2>2
    <3>2. ledger'[d] = ledger[d]
      BY <1>1, <2>2
    <3>3. CASE ledger[d].predecessor = 0
      BY <2>2, <3>2, <3>3 DEF ChainValid
    <3>4. CASE ledger[d].predecessor # 0
      <4>1. ledger'[ledger[d].predecessor] = ledger[ledger[d].predecessor]
        BY <1>1, <3>1, <3>4
      <4>2. /\ ledger[d].predecessor < d
            /\ validate_child_of(ledger[d], ledger[ledger[d].predecessor])
        BY <2>2, <3>4 DEF ChainValid
      <4> QED
        BY <3>2, <3>4, <4>1, <4>2
    <3> QED
      BY Zenon, <3>3, <3>4
  <2> QED
    BY Zenon, <1>2, <2>1, <2>2
<1>7. WellShaped'
  BY <1>1, <1>2 DEF WellShaped
<1>8. Children(n)' = {}
  BY <1>1, <1>2, <1>3, <1>5 DEF Children
<1>9. ASSUME NEW d \in Digest, d # r.predecessor
      PROVE  Children(d)' = Children(d)
  BY <1>1, <1>2, <1>5, <1>9 DEF Children
<1>10. DOMAIN ledger' = DOMAIN ledger \cup {n} /\ Len(ledger') <= MaxReceipts
       /\ ledger' \in Seq(EffectReceipt)
  <2>1. Len(ledger') = n /\ ledger' \in Seq(EffectReceipt)
    BY AppendReceipt DEF TypeOK
  <2> QED
    BY <1>1, <2>1, TimeAssumption DEF Digest
<1> QED
  BY <1>1, <1>5, <1>6, <1>7, <1>8, <1>9, <1>10

-----------------------------------------------------------------------------
(* Handles *)

Counts == [Digest -> Nat]

\* Taking a handle of d adds one to its count, and changes no other.
LEMMA TakeOne ==
    ASSUME NEW f \in Counts, NEW d \in Digest
    PROVE  /\ Take(f, d) \in Counts /\ Take(f, d)[d] = f[d] + 1
           /\ \A c \in Digest : c # d => Take(f, d)[c] = f[c]
  BY DEF Counts, Take

\* Consuming a handle of d takes one from its count, and changes no other.
LEMMA ConsumeOne ==
    ASSUME NEW f \in Counts, NEW d \in Digest, f[d] > 0
    PROVE  /\ Consume(f, d) \in Counts /\ Consume(f, d)[d] = f[d] - 1
           /\ \A c \in Digest : c # d => Consume(f, d)[c] = f[c]
  BY DEF Counts, Consume

\* The number of handles of a digest is a natural number.
LEMMA HandleTypes ==
    ASSUME TypeOK
    PROVE  /\ intents \in Counts /\ tickets \in Counts /\ authorities \in Counts
           /\ \A d \in Digest : /\ intents[d] \in Nat /\ tickets[d] \in Nat
                                /\ authorities[d] \in Nat /\ Handles(d) \in Nat
<1>1. /\ intents \in Counts /\ tickets \in Counts /\ authorities \in Counts
      /\ \A d \in Digest : intents[d] \in Nat /\ tickets[d] \in Nat /\ authorities[d] \in Nat
  BY DEF TypeOK, Counts
<1>2. ASSUME NEW d \in Digest PROVE Handles(d) \in Nat
  <2>1. (IF InCall(d) THEN 1 ELSE 0) \in Nat
    OBVIOUS
  <2> QED
    BY <1>1, <2>1 DEF Handles
<1> QED
  BY <1>1, <1>2

GateType == [pc : PC, intent : Digest \cup {0}, pending : EffectReceipt \cup {NoReceipt}]

\* The gate between two calls has its type.
LEMMA IdleType == Idle \in GateType /\ Idle.pc = "idle"
  BY DEF Idle, GateType, PC

\* Between calls the gate holds nothing.
LEMMA IdleHoldsNothing ==
    /\ gate.pc = "idle" => \A d : ~InCall(d)
    /\ gate'.pc = "idle" => \A d : ~InCall(d)'
  BY DEF InCall, Settling

\* Nobody has a handle of a receipt that is not in the ledger.
LEMMA HeldIsDurable ==
    ASSUME Sound, NEW d \in Digest, d \notin DOMAIN ledger
    PROVE  ~InCall(d) /\ intents[d] = 0 /\ tickets[d] = 0 /\ authorities[d] = 0
<1>1. intents[d] = 0 /\ tickets[d] = 0 /\ authorities[d] = 0
  BY HandleTypes DEF Sound, HandlesValid, IsIntent, Requirement
<1>2. d # 0
  BY DEF Digest
<1>3. ~InCall(d)
  BY <1>2 DEF Sound, GateSound, InCall, IsIntent, Requirement
<1> QED
  BY <1>1, <1>3

\* A step that appends nothing: what it has more handles of than before was claimed,
\* and what it has no handle of any more was dropped.
Steady ==
    /\ ledger' = ledger
    /\ doubled \subseteq doubled'
    /\ \A d \in Digest : \/ d \in doubled'
                         \/ Handles(d)' <= Handles(d)
                         \/ Handles(d)' = 1 /\ Children(d) = {}
    /\ \A d \in Digest : Handles(d) > 0 \/ d \in dropped => Handles(d)' > 0 \/ d \in dropped'

\* A step that appends r: the handle of its predecessor becomes that of r, if r is
\* not settled.
Grown(r, n) ==
    /\ Shape(r) /\ Continues(r)
    /\ n = Len(ledger) + 1
    /\ ledger' = Append(ledger, r)
    /\ doubled' = doubled /\ dropped' = dropped
    /\ \A d \in Digest : d # n =>
         Handles(d)' = IF d = r.predecessor THEN Handles(d) - 1 ELSE Handles(d)
    /\ Handles(n)' = IF r.event = "Intent" \/ outcome_needs_recovery(r) THEN 1 ELSE 0

\* While the ledger has room, the digest of the next receipt is a new one.
LEMMA NextDigest ==
    ASSUME TypeOK, Len(ledger) < MaxReceipts
    PROVE  Len(ledger) + 1 \in Digest /\ Len(ledger) + 1 \notin DOMAIN ledger
  BY LedgerTypes, TimeAssumption DEF Digest

\* The authorization that PersistedOutcome gives for an outcome that needs recovery.
LEMMA AppendTo ==
    ASSUME Sound, NEW r \in EffectReceipt, append_to(r), NEW n, n = Len(ledger) + 1
    PROVE  /\ n \in Digest /\ n \notin DOMAIN ledger /\ ledger' = Append(ledger, r)
           /\ authorities' \in Counts
           /\ authorities'[n] = IF outcome_needs_recovery(r) THEN 1 ELSE 0
           /\ \A d \in Digest : d # n => authorities'[d] = authorities[d]
           /\ intents[n] = 0 /\ tickets[n] = 0
<1>1. n \in Digest /\ n \notin DOMAIN ledger /\ ledger' = Append(ledger, r)
  BY NextDigest DEF append_to, Sound
<1>2. intents[n] = 0 /\ tickets[n] = 0 /\ authorities[n] = 0
  BY <1>1, HeldIsDurable
<1>3. authorities' = IF outcome_needs_recovery(r) THEN Take(authorities, n) ELSE authorities
  BY DEF append_to
<1>4. authorities \in Counts
  BY HandleTypes DEF Sound
<1> QED
  BY <1>1, <1>2, <1>3, <1>4, TakeOne

\* A call that has its outcome, or cannot have it at the time it is observed, still
\* holds its intent or leaves a ticket of it.
LEMMA OutcomeSteady ==
    ASSUME Sound, gate.pc \in {"reauthorize", "effect"}, NEW t, NEW o, outcome(t, o),
           UNCHANGED <<ledger, intents, authorities, dropped, doubled>>
    PROVE  Steady
<1>1. gate.intent \in Digest /\ gate \in GateType
  BY LedgerTypes DEF Sound, GateSound, Settling, IsIntent, TypeOK, GateType
<1>2. PICK i \in Digest : i = gate.intent
  BY <1>1
<1>3. \A d \in Digest : InCall(d) <=> d = i
  BY <1>2 DEF InCall, Settling
<1>4. ASSUME NEW d \in Digest PROVE Handles(d)' = Handles(d)
  <2>1. /\ intents[d] \in Nat /\ tickets[d] \in Nat /\ authorities[d] \in Nat
        /\ tickets \in Counts
    BY HandleTypes DEF Sound
  <2>2. CASE t < ledger[gate.intent].observed_at
    <3>1. gate'.pc = "idle" /\ tickets' = Take(tickets, i)
      BY <1>2, <2>2, IdleType DEF outcome
    <3>2. ~InCall(d)'
      BY <3>1, IdleHoldsNothing
    <3>3. tickets'[d] = IF d = i THEN tickets[d] + 1 ELSE tickets[d]
      BY <2>1, <3>1, TakeOne
    <3> QED
      BY <1>3, <2>1, <3>2, <3>3 DEF Handles
  <2>3. CASE ~(t < ledger[gate.intent].observed_at)
    <3>1. /\ tickets' = tickets
          /\ gate' = [gate EXCEPT !.pc = "append_outcome",
                                  !.pending = outcome_from(gate.intent, t, o)]
      BY <2>3 DEF outcome
    <3>2. gate'.pc = "append_outcome" /\ gate'.intent = i
      BY <1>1, <1>2, <3>1 DEF GateType
    <3>3. InCall(d)' <=> d = i
      BY <3>2 DEF InCall, Settling
    <3> QED
      BY <1>3, <2>1, <3>1, <3>3 DEF Handles
  <2> QED
    BY <2>2, <2>3
<1>5. \A d \in Digest : Handles(d) \in Nat
  BY HandleTypes DEF Sound
<1> QED
  BY <1>4, <1>5 DEF Steady

\* An outcome of the intent d, by whoever appends it.
LEMMA OutcomeGrown ==
    ASSUME Sound, NEW r \in EffectReceipt, Shape(r), Continues(r), r.event # "Intent",
           r.predecessor \in DOMAIN ledger, append_to(r), gate'.pc = "idle",
           dropped' = dropped, doubled' = doubled,
           \A d \in Digest :
             intents'[d] + tickets'[d] =
                 intents[d] + tickets[d] + (IF InCall(d) THEN 1 ELSE 0)
                     - (IF d = r.predecessor THEN 1 ELSE 0),
           intents' \in Counts, tickets' \in Counts
    PROVE  \E n \in Digest : Grown(r, n)
<1>1. PICK n : n = Len(ledger) + 1
  OBVIOUS
<1>2. /\ n \in Digest /\ n \notin DOMAIN ledger /\ ledger' = Append(ledger, r)
      /\ authorities' \in Counts
      /\ authorities'[n] = IF outcome_needs_recovery(r) THEN 1 ELSE 0
      /\ \A d \in Digest : d # n => authorities'[d] = authorities[d]
      /\ intents[n] = 0 /\ tickets[n] = 0 /\ ~InCall(n)
  BY <1>1, AppendTo, HeldIsDurable
<1>3. /\ \A d : ~InCall(d)'
      /\ \A d \in Digest : /\ intents[d] \in Nat /\ tickets[d] \in Nat
                           /\ authorities[d] \in Nat
                           /\ intents'[d] \in Nat /\ tickets'[d] \in Nat
                           /\ authorities'[d] \in Nat
  BY <1>2, HandleTypes, IdleHoldsNothing DEF Sound, Counts
<1>4. ASSUME NEW d \in Digest, d # n
      PROVE  Handles(d)' = IF d = r.predecessor THEN Handles(d) - 1 ELSE Handles(d)
  <2>1. Handles(d)' = intents'[d] + tickets'[d] + authorities[d]
    BY <1>2, <1>3, <1>4 DEF Handles
  <2>2. /\ InCall(d) => Handles(d) = intents[d] + tickets[d] + authorities[d] + 1
        /\ ~InCall(d) => Handles(d) = intents[d] + tickets[d] + authorities[d]
    BY <1>3 DEF Handles
  <2>3. /\ InCall(d) /\ d = r.predecessor => intents'[d] + tickets'[d] = intents[d] + tickets[d]
        /\ InCall(d) /\ d # r.predecessor
             => intents'[d] + tickets'[d] = intents[d] + tickets[d] + 1
        /\ ~InCall(d) /\ d = r.predecessor
             => intents'[d] + tickets'[d] = intents[d] + tickets[d] - 1
        /\ ~InCall(d) /\ d # r.predecessor
             => intents'[d] + tickets'[d] = intents[d] + tickets[d]
    BY <1>3
  <2> QED
    BY <1>3, <2>1, <2>2, <2>3
<1>5. Handles(n)' = IF outcome_needs_recovery(r) THEN 1 ELSE 0
  <2>1. n # r.predecessor
    BY <1>2
  <2>2. intents'[n] + tickets'[n] = 0
    BY <1>2, <2>1
  <2> QED
    BY <1>2, <1>3, <2>2 DEF Handles
<1> QED
  BY <1>1, <1>2, <1>4, <1>5 DEF Grown

\* Every step leaves the ledger alone or appends one receipt, and accounts for the
\* handles it makes and consumes.
LEMMA HandleStep ==
    ASSUME Sound, [Next]_vars
    PROVE  Steady \/ \E r \in EffectReceipt, n \in Digest : Grown(r, n)
<1>a. /\ intents \in Counts /\ tickets \in Counts /\ authorities \in Counts
      /\ \A d \in Digest : /\ intents[d] \in Nat /\ tickets[d] \in Nat
                           /\ authorities[d] \in Nat /\ Handles(d) \in Nat /\ d # 0
  BY HandleTypes DEF Sound, Digest
<1>b. ASSUME UNCHANGED <<ledger, doubled>>, dropped \subseteq dropped',
             \A d \in Digest : /\ Handles(d)' <= Handles(d)
                               /\ Handles(d)' = Handles(d) \/ d \in dropped'
      PROVE  Steady
  BY <1>a, <1>b DEF Steady
<1>1. ASSUME NEW e \in Effect, NEW t \in Time, request(e, t) PROVE Steady
  <2>1. /\ UNCHANGED <<ledger, intents, tickets, authorities, dropped, doubled>>
        /\ gate.pc = "idle" /\ gate'.pc = "append_intent" /\ gate'.pending.predecessor = 0
    BY <1>1, IntentValid DEF request, ghosts
  <2>2. \A d \in Digest : ~InCall(d) /\ ~InCall(d)'
    BY <1>a, <2>1 DEF InCall, Settling
  <2>3. \A d \in Digest : Handles(d)' = Handles(d)
    BY <2>1, <2>2 DEF Handles
  <2> QED
    BY <1>a, <1>b, <2>1, <2>3
<1>2. ASSUME NEW e \in Effect, NEW t \in Time, NEW i \in Digest, request_recovery(e, i, t)
      PROVE  Steady
  <2>1. /\ UNCHANGED <<ledger, intents, tickets, dropped, doubled>>
        /\ authorities[i] > 0 /\ authorities' = Consume(authorities, i)
        /\ gate.pc = "idle" /\ gate'.pc = "append_intent" /\ gate'.pending.predecessor = i
    BY <1>2 DEF request_recovery, recovery_intent, into_recovery_authorization, ghosts
  <2>2. \A d \in Digest : ~InCall(d) /\ (InCall(d)' <=> d = i)
    BY <1>a, <2>1 DEF InCall, Settling
  <2>3. \A d \in Digest : authorities'[d] = IF d = i THEN authorities[d] - 1 ELSE authorities[d]
    BY <1>a, <2>1, ConsumeOne
  <2>4. \A d \in Digest : Handles(d)' = Handles(d)
    BY <1>a, <2>1, <2>2, <2>3 DEF Handles
  <2> QED
    BY <1>a, <1>b, <2>1, <2>4
<1>3. ASSUME NEW i \in Digest, request_refused(i) PROVE Steady
  <2>1. /\ UNCHANGED <<ledger, gate, intents, tickets, doubled>> /\ dropped' = dropped \cup {i}
        /\ authorities[i] > 0 /\ authorities' = Consume(authorities, i)
    BY <1>3 DEF request_refused
  <2>2. \A d \in Digest : InCall(d)' <=> InCall(d)
    BY <2>1 DEF InCall
  <2>3. \A d \in Digest : authorities'[d] = IF d = i THEN authorities[d] - 1 ELSE authorities[d]
    BY <1>a, <2>1, ConsumeOne
  <2>4. \A d \in Digest : Handles(d)' = IF d = i THEN Handles(d) - 1 ELSE Handles(d)
    BY <1>a, <2>1, <2>2, <2>3 DEF Handles
  <2> QED
    BY <1>a, <1>b, <2>1, <2>4
<1>4. ASSUME append_intent PROVE \E r \in EffectReceipt, n \in Digest : Grown(r, n)
  <2>1. gate.pending \in EffectReceipt /\ Shape(gate.pending) /\ Continues(gate.pending)
        /\ gate.pending.event = "Intent" /\ gate.pc = "append_intent" /\ gate \in GateType
    BY <1>4, PendingContinues DEF append_intent, Sound, GateSound, TypeOK, GateType
  <2>2. PICK r \in EffectReceipt, n \in Nat : r = gate.pending /\ n = Len(ledger) + 1
    BY <2>1, LedgerTypes DEF Sound
  <2>3. /\ ledger' = Append(ledger, r) /\ Len(ledger) < MaxReceipts
        /\ UNCHANGED <<intents, tickets, authorities, dropped, doubled>>
        /\ gate' = [gate EXCEPT !.pc = "reauthorize", !.intent = n, !.pending = NoReceipt]
    BY <1>4, <2>2 DEF append_intent, ghosts
  <2>4. n \in Digest /\ n \notin DOMAIN ledger
    BY <2>2, <2>3, NextDigest DEF Sound
  <2>5. intents[n] = 0 /\ tickets[n] = 0 /\ authorities[n] = 0
    BY <2>4, HeldIsDurable
  <2>6. gate'.pc = "reauthorize" /\ gate'.intent = n
    BY <2>1, <2>3 DEF GateType
  <2>7. \A d \in Digest : (InCall(d) <=> d = r.predecessor) /\ (InCall(d)' <=> d = n)
    BY <2>1, <2>2, <2>6 DEF InCall, Settling
  <2>8. \A d \in Digest : d # n =>
          Handles(d)' = IF d = r.predecessor THEN Handles(d) - 1 ELSE Handles(d)
    BY <1>a, <2>3, <2>7 DEF Handles
  <2>9. Handles(n)' = 1
    BY <2>3, <2>4, <2>5, <2>7 DEF Handles
  <2> QED
    BY <2>1, <2>2, <2>3, <2>4, <2>8, <2>9 DEF Grown
<1>5. ASSUME append_intent_fails PROVE Steady
  <2>1. /\ UNCHANGED <<ledger, intents, tickets, authorities, doubled>>
        /\ gate.pc = "append_intent" /\ gate'.pc = "idle"
        /\ dropped' = dropped \cup ({gate.pending.predecessor} \ {0})
    BY <1>5, IdleType DEF append_intent_fails
  <2>2. \A d \in Digest : (InCall(d) => d \in dropped') /\ ~InCall(d)'
    BY <1>a, <2>1, IdleHoldsNothing DEF InCall, Settling
  <2>3. \A d \in Digest : Handles(d)' = IF InCall(d) THEN Handles(d) - 1 ELSE Handles(d)
    BY <1>a, <2>1, <2>2 DEF Handles
  <2> QED
    BY <1>a, <1>b, <2>1, <2>2, <2>3
<1>6. ASSUME NEW t \in Time, reauthorize_denied(t) PROVE Steady
  <2>1. PICK u : outcome(u, "AuthorizationDenied")
    BY <1>6 DEF reauthorize_denied
  <2> QED
    BY <1>6, <2>1, OutcomeSteady DEF reauthorize_denied, ghosts
<1>7. ASSUME NEW t \in Time, admit(t) PROVE Steady
  <2>1. /\ UNCHANGED <<ledger, intents, tickets, authorities, dropped, doubled>>
        /\ gate.pc = "reauthorize" /\ gate' = [gate EXCEPT !.pc = "effect"]
        /\ gate \in GateType
    BY <1>7 DEF admit, ghosts, Sound, TypeOK, GateType
  <2>2. gate'.pc = "effect" /\ gate'.intent = gate.intent
    BY <2>1 DEF GateType
  <2>3. \A d \in Digest : InCall(d)' <=> InCall(d)
    BY <2>1, <2>2 DEF InCall, Settling
  <2>4. \A d \in Digest : Handles(d)' = Handles(d)
    BY <2>1, <2>3 DEF Handles
  <2> QED
    BY <1>a, <1>b, <2>1, <2>4
<1>8. ASSUME NEW admission, NEW t, NEW u, admission_refused(admission, t, u) PROVE Steady
  BY <1>8, OutcomeSteady DEF admission_refused, ghosts
<1>9. ASSUME NEW o, NEW u, invoke(o, u) PROVE Steady
  BY <1>9, OutcomeSteady DEF invoke
<1>10. ASSUME append_outcome PROVE \E r \in EffectReceipt, n \in Digest : Grown(r, n)
  <2>1. /\ gate.pending \in EffectReceipt /\ Shape(gate.pending) /\ Continues(gate.pending)
        /\ gate.pending.event # "Intent" /\ gate.pc = "append_outcome"
        /\ gate.pending.predecessor = gate.intent /\ gate.intent \in DOMAIN ledger
    BY <1>10, PendingContinues DEF append_outcome, Sound, GateSound, Settling, IsIntent
  <2>2. PICK r \in EffectReceipt : r = gate.pending
    BY <2>1
  <2>3. /\ append_to(r) /\ gate'.pc = "idle"
        /\ UNCHANGED <<intents, tickets, dropped, doubled>>
    BY <1>10, <2>2, IdleType DEF append_outcome, ghosts
  <2>4. \A d \in Digest : InCall(d) <=> d = r.predecessor
    BY <2>1, <2>2 DEF InCall, Settling
  <2>5. \A d \in Digest :
          intents'[d] + tickets'[d] =
              intents[d] + tickets[d] + (IF InCall(d) THEN 1 ELSE 0)
                  - (IF d = r.predecessor THEN 1 ELSE 0)
    BY <1>a, <2>3, <2>4
  <2> QED
    BY <1>a, <2>1, <2>2, <2>3, <2>5, OutcomeGrown
<1>11. ASSUME append_outcome_fails PROVE Steady
  <2>1. gate.pc = "append_outcome" /\ gate.intent \in Digest
    BY <1>11, LedgerTypes DEF append_outcome_fails, Sound, GateSound, Settling, IsIntent
  <2>2. PICK i \in Digest : i = gate.intent
    BY <2>1
  <2>3. /\ UNCHANGED <<ledger, intents, authorities, dropped, doubled>> /\ gate'.pc = "idle"
        /\ tickets' = Take(tickets, i)
    BY <1>11, <2>2, IdleType DEF append_outcome_fails, ghosts
  <2>4. \A d \in Digest : (InCall(d) <=> d = i) /\ ~InCall(d)'
    BY <2>1, <2>2, <2>3, IdleHoldsNothing DEF InCall, Settling
  <2>5. \A d \in Digest : tickets'[d] = IF d = i THEN tickets[d] + 1 ELSE tickets[d]
    BY <1>a, <2>3, TakeOne
  <2>6. \A d \in Digest : Handles(d)' = Handles(d)
    BY <1>a, <2>3, <2>4, <2>5 DEF Handles
  <2> QED
    BY <1>a, <1>b, <2>3, <2>6
<1>c. ASSUME NEW i \in Digest, IsIntent(i), NEW t \in Time, t >= ledger[i].observed_at,
             NEW o \in EffectOutcome, o = "Recovered" => ledger[i].relation = "RecoveryOf",
             append_to(outcome_from(i, t, o)), gate.pc = "idle", gate' = gate,
             UNCHANGED <<dropped, doubled>>, intents' \in Counts, tickets' \in Counts,
             \A d \in Digest : intents'[d] + tickets'[d] =
                 intents[d] + tickets[d] - (IF d = i THEN 1 ELSE 0)
      PROVE  \E r \in EffectReceipt, n \in Digest : Grown(r, n)
  <2>1. /\ outcome_from(i, t, o) \in EffectReceipt /\ Shape(outcome_from(i, t, o))
        /\ outcome_from(i, t, o).event # "Intent" /\ outcome_from(i, t, o).predecessor = i
        /\ validate_child_of(outcome_from(i, t, o), ledger[i])
    BY <1>c, OutcomeValid DEF Sound
  <2>2. PICK r \in EffectReceipt : r = outcome_from(i, t, o)
    BY <2>1
  <2>3. Continues(r) /\ r.predecessor \in DOMAIN ledger
    BY <1>a, <1>c, <2>1, <2>2 DEF Continues, IsIntent
  <2>4. \A d \in Digest :
          intents'[d] + tickets'[d] =
              intents[d] + tickets[d] + (IF InCall(d) THEN 1 ELSE 0)
                  - (IF d = r.predecessor THEN 1 ELSE 0)
    <3>1. \A d \in Digest : ~InCall(d)
      BY <1>c, IdleHoldsNothing
    <3> QED
      BY <1>a, <1>c, <2>1, <2>2, <3>1
  <2> QED
    BY <1>c, <2>1, <2>2, <2>3, <2>4, OutcomeGrown
<1>12. ASSUME NEW i \in Digest, NEW t \in Time, recovery_required(i, t)
       PROVE  \E r \in EffectReceipt, n \in Digest : Grown(r, n)
  <2>1. /\ append_to(outcome_from(i, t, "RecoveryRequired")) /\ gate.pc = "idle"
        /\ UNCHANGED <<gate, intents, dropped, doubled>> /\ t >= ledger[i].observed_at
        /\ tickets[i] > 0 /\ tickets' = Consume(tickets, i)
    BY <1>12 DEF recovery_required, ghosts
  <2>2. IsIntent(i)
    BY <2>1 DEF Sound, HandlesValid
  <2>3. /\ tickets' \in Counts
        /\ \A d \in Digest : tickets'[d] = IF d = i THEN tickets[d] - 1 ELSE tickets[d]
    BY <1>a, <2>1, ConsumeOne
  <2>4. \A d \in Digest : intents'[d] + tickets'[d] =
                            intents[d] + tickets[d] - (IF d = i THEN 1 ELSE 0)
    BY <1>a, <2>1, <2>3
  <2>5. "RecoveryRequired" \in EffectOutcome /\ "RecoveryRequired" # "Recovered"
    BY DEF EffectOutcome, Incomplete
  <2> QED
    BY <1>a, <1>c, <2>1, <2>2, <2>3, <2>4, <2>5
<1>13. ASSUME NEW i \in Digest, NEW t \in Time, NEW o \in EffectOutcome,
              report_outcome(i, t, o)
       PROVE  \E r \in EffectReceipt, n \in Digest : Grown(r, n)
  <2>1. /\ append_to(outcome_from(i, t, o)) /\ gate.pc = "idle"
        /\ UNCHANGED <<gate, tickets, dropped, doubled>> /\ t >= ledger[i].observed_at
        /\ o = "Recovered" => ledger[i].relation = "RecoveryOf"
        /\ intents[i] > 0 /\ intents' = Consume(intents, i)
    BY <1>13 DEF report_outcome
  <2>2. IsIntent(i)
    BY <2>1 DEF Sound, HandlesValid
  <2>3. /\ intents' \in Counts
        /\ \A d \in Digest : intents'[d] = IF d = i THEN intents[d] - 1 ELSE intents[d]
    BY <1>a, <2>1, ConsumeOne
  <2>4. \A d \in Digest : intents'[d] + tickets'[d] =
                            intents[d] + tickets[d] - (IF d = i THEN 1 ELSE 0)
    BY <1>a, <2>1, <2>3
  <2> QED
    BY <1>a, <1>c, <2>1, <2>2, <2>3, <2>4
<1>14. ASSUME NEW i \in Digest, into_recovery_ticket(i) PROVE Steady
  <2>1. /\ UNCHANGED <<ledger, gate, authorities, dropped, doubled>>
        /\ intents[i] > 0 /\ intents' = Consume(intents, i) /\ tickets' = Take(tickets, i)
    BY <1>14 DEF into_recovery_ticket, ghosts
  <2>2. \A d \in Digest : /\ intents'[d] = IF d = i THEN intents[d] - 1 ELSE intents[d]
                          /\ tickets'[d] = IF d = i THEN tickets[d] + 1 ELSE tickets[d]
    BY <1>a, <2>1, ConsumeOne, TakeOne
  <2>3. \A d \in Digest : InCall(d)' <=> InCall(d)
    BY <2>1 DEF InCall
  <2>4. \A d \in Digest : Handles(d)' = Handles(d)
    BY <1>a, <2>1, <2>2, <2>3 DEF Handles
  <2> QED
    BY <1>a, <1>b, <2>1, <2>4
<1>15. ASSUME crash PROVE Steady
  <2>1. /\ UNCHANGED <<ledger, doubled>> /\ gate'.pc = "idle" /\ dropped' = dropped \cup Held
        /\ \A d \in Digest : intents'[d] = 0 /\ tickets'[d] = 0 /\ authorities'[d] = 0
    BY <1>15, IdleType DEF crash
  <2>2. \A d \in Digest : Handles(d)' = 0
    BY <2>1, IdleHoldsNothing DEF Handles
  <2> QED
    BY <1>a, <1>b, <2>1, <2>2 DEF Held
<1>d. ASSUME NEW i \in Digest, UNCHANGED <<ledger, gate>>, dropped' = dropped \ {i},
             \A d \in Digest : d # i => /\ intents'[d] = intents[d] /\ tickets'[d] = tickets[d]
                                        /\ authorities'[d] = authorities[d],
             intents'[i] + tickets'[i] + authorities'[i] =
                 intents[i] + tickets[i] + authorities[i] + 1,
             doubled' = IF Handles(i) > 0 \/ Children(i) # {} THEN doubled \cup {i} ELSE doubled
      PROVE  Steady
  <2>1. \A d \in Digest : InCall(d)' <=> InCall(d)
    BY <1>d DEF InCall
  <2>2. \A d \in Digest : d # i => Handles(d)' = Handles(d)
    BY <1>d, <2>1 DEF Handles
  <2>3. Handles(i)' = Handles(i) + 1
    BY <1>a, <1>d, <2>1 DEF Handles
  <2> QED
    BY <1>a, <1>d, <2>2, <2>3 DEF Steady
<1>16. ASSUME NEW i \in Digest, claim_intent(i) PROVE Steady
  <2>1. /\ UNCHANGED <<ledger, gate, tickets, authorities>> /\ dropped' = dropped \ {i}
        /\ intents' = Take(intents, i) /\ Children(i) = {}
        /\ doubled' = IF Handles(i) > 0 \/ Children(i) # {} THEN doubled \cup {i} ELSE doubled
    BY <1>16 DEF claim_intent
  <2>2. intents'[i] = intents[i] + 1 /\ \A d \in Digest : d # i => intents'[d] = intents[d]
    BY <1>a, <2>1, TakeOne
  <2>3. intents'[i] + tickets'[i] + authorities'[i] =
          intents[i] + tickets[i] + authorities[i] + 1
    BY <1>a, <2>1, <2>2
  <2> QED
    BY <1>d, <2>1, <2>2, <2>3
<1>17. ASSUME NEW i \in Digest, claim_recovery(i) PROVE Steady
  <2>1. /\ UNCHANGED <<ledger, gate, intents, tickets>> /\ dropped' = dropped \ {i}
        /\ authorities' = Take(authorities, i)
        /\ doubled' = IF Handles(i) > 0 \/ Children(i) # {} THEN doubled \cup {i} ELSE doubled
    BY <1>17 DEF claim_recovery
  <2>2. /\ authorities'[i] = authorities[i] + 1
        /\ \A d \in Digest : d # i => authorities'[d] = authorities[d]
    BY <1>a, <2>1, TakeOne
  <2>3. intents'[i] + tickets'[i] + authorities'[i] =
          intents[i] + tickets[i] + authorities[i] + 1
    BY <1>a, <2>1, <2>2
  <2> QED
    BY <1>d, <2>1, <2>2, <2>3
<1>18. ASSUME UNCHANGED vars PROVE Steady
  <2>1. \A d \in Digest : Handles(d)' = Handles(d)
    BY <1>18 DEF vars, Handles, InCall
  <2> QED
    BY <1>a, <1>b, <1>18, <2>1 DEF vars
<1> QED
  BY <1>1, <1>2, <1>3, <1>4, <1>5, <1>6, <1>7, <1>8, <1>9, <1>10, <1>11, <1>12, <1>13,
     <1>14, <1>15, <1>16, <1>17, <1>18 DEF Next, Request, Gate

=============================================================================
