-------------------------- MODULE EffectGateProofs --------------------------
(***************************************************************************)
(* The invariant of EffectGate: receipts form a chain, and handles are     *)
(* linear.                                                                 *)
(***************************************************************************)
EXTENDS EffectGateHandles

(* The invariant *)

\* The ledger only grows, and stays a chain.
LEMMA LedgerStep ==
    ASSUME Sound, [Next]_vars
    PROVE  /\ ledger' \in Seq(EffectReceipt) /\ Len(ledger') <= MaxReceipts
           /\ ChainValid' /\ WellShaped'
           /\ \A d : IsIntent(d) => IsIntent(d)'
           /\ \A d : Requirement(d) => Requirement(d)'
<1>1. CASE Steady
  <2>1. ledger' = ledger
    BY <1>1 DEF Steady
  <2>2. ChainValid'
    <3> SUFFICES ASSUME NEW d \in DOMAIN ledger'
                 PROVE  IF ledger'[d].predecessor = 0
                          THEN ledger'[d].event = "Intent" /\ ledger'[d].relation = "None"
                          ELSE /\ ledger'[d].predecessor < d
                               /\ validate_child_of(ledger'[d], ledger'[ledger'[d].predecessor])
      BY DEF ChainValid, validate_child_of, validate_recovery_intent_child,
             expected_outcome_relation
    <3> QED
      BY <2>1 DEF Sound, ChainValid
  <2> QED
    BY <2>1, <2>2 DEF Sound, TypeOK, WellShaped, IsIntent, Requirement, outcome_needs_recovery
<1>2. ASSUME NEW r \in EffectReceipt, NEW n \in Digest, Grown(r, n)
      PROVE  /\ ledger' \in Seq(EffectReceipt) /\ Len(ledger') <= MaxReceipts
             /\ ChainValid' /\ WellShaped'
             /\ \A d : IsIntent(d) => IsIntent(d)'
             /\ \A d : Requirement(d) => Requirement(d)'
  <2>1. /\ ledger' \in Seq(EffectReceipt) /\ Len(ledger') <= MaxReceipts
        /\ DOMAIN ledger' = DOMAIN ledger \cup {n}
        /\ \A d \in DOMAIN ledger : ledger'[d] = ledger[d]
        /\ ChainValid' /\ WellShaped'
    BY <1>2, Grow DEF Grown, Sound
  <2> QED
    BY <2>1 DEF IsIntent, Requirement, outcome_needs_recovery
<1> QED
  BY <1>1, <1>2, HandleStep

\* A call that has its outcome, or cannot have it at the time it is observed.
LEMMA OutcomeSound ==
    ASSUME Sound, gate.pc \in {"reauthorize", "effect"}, ledger' = ledger,
           NEW t \in Time, NEW o \in EffectOutcome \ {"Recovered"}, outcome(t, o)
    PROVE  /\ gate' \in GateType /\ GateSound' /\ tickets' \in Counts
           /\ \A d \in Digest : tickets'[d] > 0 => tickets[d] > 0 \/ IsIntent(d)
<1>1. /\ IsIntent(gate.intent) /\ Children(gate.intent) = {} /\ gate.intent \in Digest
      /\ gate \in GateType /\ tickets \in Counts
  BY LedgerTypes, HandleTypes DEF Sound, GateSound, Settling, IsIntent, TypeOK, GateType
<1>2. ledger[gate.intent].observed_at \in Int /\ t \in Int
  BY <1>1, LedgerTypes DEF Sound, IsIntent, EffectReceipt, Time
<1>3. CASE t < ledger[gate.intent].observed_at
  <2>1. gate' = Idle /\ tickets' = Take(tickets, gate.intent)
    BY <1>3 DEF outcome
  <2>2. gate'.pc = "idle" /\ gate' \in GateType
    BY <2>1, IdleType
  <2>3. GateSound'
    BY <2>2 DEF GateSound, Settling
  <2>4. /\ tickets' \in Counts
        /\ \A d \in Digest : d # gate.intent => tickets'[d] = tickets[d]
    BY <1>1, <2>1, TakeOne
  <2> QED
    BY <1>1, <2>2, <2>3, <2>4
<1>4. CASE ~(t < ledger[gate.intent].observed_at)
  <2> DEFINE r == outcome_from(gate.intent, t, o)
  <2>1. /\ r \in EffectReceipt /\ Shape(r) /\ r.event # "Intent"
        /\ r.predecessor = gate.intent /\ validate_child_of(r, ledger[gate.intent])
    BY <1>1, <1>2, <1>4, OutcomeValid DEF Sound
  <2>2. gate' = [gate EXCEPT !.pc = "append_outcome", !.pending = r] /\ tickets' = tickets
    BY <1>4 DEF outcome
  <2> HIDE DEF r
  <2>3. /\ gate' \in GateType /\ gate'.pc = "append_outcome" /\ gate'.pending = r
        /\ gate'.intent = gate.intent
    BY Zenon, <1>1, <2>1, <2>2 DEF GateType, PC
  <2>4. /\ ledger'[gate'.intent].event = "Intent" /\ gate'.intent \in DOMAIN ledger'
        /\ Children(gate.intent)' = {}
    BY <1>1, <2>3 DEF IsIntent, Children
  <2>5. validate_child_of(gate.pending, ledger[gate.intent])'
    BY <2>1, <2>3 DEF validate_child_of, validate_recovery_intent_child,
                      expected_outcome_relation
  <2>6. GateSound'
    BY <2>1, <2>3, <2>4, <2>5 DEF GateSound, IsIntent
  <2> QED
    BY <1>1, <2>2, <2>3, <2>6
<1> QED
  BY <1>3, <1>4

\* Every step keeps the invariant.
LEMMA SoundStep == Sound /\ [Next]_vars => Sound'
<1> SUFFICES ASSUME Sound, [Next]_vars PROVE Sound'
  OBVIOUS
<1>a. /\ gate \in GateType /\ invoked \in Counts /\ DOMAIN ledger \subseteq Digest
      /\ intents \in Counts /\ tickets \in Counts /\ authorities \in Counts
      /\ dropped \subseteq Digest /\ doubled \subseteq Digest /\ reported \subseteq Digest
      /\ claims \in Nat /\ \A d \in Digest : d # 0
  BY LedgerTypes DEF Sound, TypeOK, GateType, Counts, Digest
<1>b. ASSUME gate' \in GateType, GateSound',
             intents' \in Counts, tickets' \in Counts, authorities' \in Counts,
             invoked' \in Counts, dropped' \subseteq Digest, claims' \in Nat,
             doubled' \subseteq Digest, reported' \subseteq Digest,
             \A d \in Digest : intents'[d] > 0 => intents[d] > 0 \/ IsIntent(d),
             \A d \in Digest : tickets'[d] > 0 => tickets[d] > 0 \/ IsIntent(d),
             \A d \in Digest : authorities'[d] > 0
                                 => authorities[d] > 0 \/ Requirement(d) \/ Requirement(d)'
      PROVE  Sound'
  <2>1. HandlesValid'
    BY <1>b, LedgerStep DEF Sound, HandlesValid
  <2>2. \A d \in DOMAIN ledger' : ledger'[d].relation # "None" => ledger'[d].target \in Effect
    BY LedgerStep DEF WellShaped, Shape
  <2>3. TypeOK'
    BY <1>b, <2>2, LedgerStep DEF TypeOK, GateType, Counts
  <2> QED
    BY <1>b, <2>1, <2>3, LedgerStep DEF Sound
<1>c. ASSUME gate'.pc = "idle" PROVE GateSound'
  BY <1>c DEF GateSound, Settling
<1>d. ASSUME UNCHANGED <<ledger, gate>> PROVE GateSound'
  <2>1. ASSUME gate.pc = "append_intent", gate.pending.predecessor # 0
        PROVE  validate_child_of(gate.pending, ledger[gate.pending.predecessor])'
    BY Zenon, <1>d, <2>1 DEF Sound, GateSound, validate_child_of,
                validate_recovery_intent_child, expected_outcome_relation
  <2>2. ASSUME gate.pc = "append_outcome"
        PROVE  validate_child_of(gate.pending, ledger[gate.intent])'
    BY Zenon, <1>d, <2>2 DEF Sound, GateSound, validate_child_of,
                validate_recovery_intent_child, expected_outcome_relation
  <2>3. gate.pc = "append_intent" =>
          /\ gate.pending.event = "Intent"
          /\ gate.pending.predecessor = 0 => gate.pending.relation = "None"
          /\ gate.pending.predecessor # 0 => Requirement(gate.pending.predecessor)'
    BY Zenon, <1>d DEF Sound, GateSound, Requirement, outcome_needs_recovery
  <2>4. gate.pc \in Settling => IsIntent(gate.intent)' /\ Children(gate.intent)' = {}
    BY Zenon, <1>d DEF Sound, GateSound, IsIntent, Children
  <2>5. gate.pc \in {"append_intent", "append_outcome"} =>
          gate.pending \in EffectReceipt /\ Shape(gate.pending)
    BY DEF Sound, GateSound
  <2>6. gate.pc = "append_outcome" =>
          gate.pending.event # "Intent" /\ gate.pending.predecessor = gate.intent
    BY DEF Sound, GateSound
  <2> QED
    BY Zenon, <1>d, <2>1, <2>2, <2>3, <2>4, <2>5, <2>6 DEF GateSound
<1>1. ASSUME NEW e \in Effect, NEW t \in Time, request(e, t) PROVE Sound'
  <2>1. UNCHANGED <<ledger, intents, tickets, authorities, ghosts>>
    BY <1>1 DEF request
  <2>2. gate' \in GateType /\ gate'.pc = "append_intent" /\ gate'.pending = intent(e, t)
    BY <1>1, IntentValid DEF request, GateType, PC
  <2>3. GateSound'
    BY <2>2, IntentValid DEF GateSound, Settling
  <2> QED
    BY <1>a, <1>b, <2>1, <2>2, <2>3 DEF ghosts
<1>2. ASSUME NEW e \in Effect, NEW t \in Time, NEW d \in Digest, request_recovery(e, d, t)
      PROVE  Sound'
  <2> DEFINE i == recovery_intent(e, into_recovery_authorization(ledger[d], d), t)
  <2>1. /\ UNCHANGED <<ledger, intents, tickets, ghosts>> /\ authorities[d] > 0
        /\ authorities' = Consume(authorities, d) /\ t >= ledger[d].observed_at
        /\ gate' = [pc |-> "append_intent", intent |-> 0, pending |-> i]
    BY <1>2 DEF request_recovery, into_recovery_authorization
  <2>2. Requirement(d) /\ ledger[d] \in EffectReceipt /\ Shape(ledger[d])
    BY <2>1, LedgerTypes DEF Sound, HandlesValid, Requirement, WellShaped
  <2>3. /\ i \in EffectReceipt /\ Shape(i) /\ i.event = "Intent" /\ i.predecessor = d
        /\ validate_child_of(i, ledger[d])
    BY <2>1, <2>2, RecoveryIntentValid DEF Requirement
  <2> HIDE DEF i
  <2>4. gate' \in GateType /\ gate'.pc = "append_intent" /\ gate'.pending = i
    BY <2>1, <2>3 DEF GateType, PC
  <2>5. Requirement(d)'
    BY <2>2, LedgerStep
  <2>6. validate_child_of(gate.pending, ledger[gate.pending.predecessor])'
    BY <2>1, <2>3, <2>4 DEF validate_child_of, validate_recovery_intent_child,
                            expected_outcome_relation
  <2>7. Requirement(gate.pending.predecessor)'
    BY <2>3, <2>4, <2>5 DEF Requirement
  <2>8. GateSound'
    BY <1>a, <2>3, <2>4, <2>6, <2>7 DEF GateSound, Settling
  <2>9. authorities' \in Counts /\ \A c \in Digest : c # d => authorities'[c] = authorities[c]
    BY <1>a, <2>1, ConsumeOne
  <2> QED
    BY <1>a, <1>b, <2>1, <2>2, <2>4, <2>8, <2>9 DEF ghosts
<1>3. ASSUME NEW d \in Digest, request_refused(d) PROVE Sound'
  <2>1. /\ UNCHANGED <<ledger, gate, intents, tickets, invoked, claims, doubled, reported>>
        /\ authorities[d] > 0 /\ authorities' = Consume(authorities, d)
        /\ dropped' = dropped \cup {d}
    BY <1>3 DEF request_refused
  <2>2. authorities' \in Counts /\ \A c \in Digest : c # d => authorities'[c] = authorities[c]
    BY <1>a, <2>1, ConsumeOne
  <2> QED
    BY <1>a, <1>b, <1>d, <2>1, <2>2
<1>4. ASSUME append_intent PROVE Sound'
  <2>1. /\ gate.pc = "append_intent" /\ Len(ledger) < MaxReceipts
        /\ ledger' = Append(ledger, gate.pending)
        /\ UNCHANGED <<intents, tickets, authorities, ghosts>>
    BY <1>4 DEF append_intent
  <2>2. /\ gate.pending \in EffectReceipt /\ Shape(gate.pending) /\ Continues(gate.pending)
        /\ gate.pending.event = "Intent"
    BY <2>1, PendingContinues DEF Sound, GateSound
  <2>3. PICK n \in Digest : n = Len(ledger) + 1
    BY <2>1, NextDigest DEF Sound
  <2>4. gate' \in GateType /\ gate'.pc = "reauthorize" /\ gate'.intent = n
    BY Zenon, <1>4, <1>a, <2>3 DEF append_intent, GateType, PC
  <2>5. PICK r \in EffectReceipt : r = gate.pending
    BY <2>2
  <2>6. /\ DOMAIN ledger' = DOMAIN ledger \cup {n} /\ ledger'[n] = r /\ Children(n)' = {}
    BY <2>1, <2>2, <2>3, <2>5, Grow DEF Sound
  <2>7. IsIntent(gate.intent)' /\ Children(gate.intent)' = {}
    BY <2>2, <2>4, <2>5, <2>6 DEF IsIntent, Children
  <2>8. GateSound'
    BY <2>4, <2>7 DEF GateSound
  <2> QED
    BY <1>a, <1>b, <2>1, <2>4, <2>8 DEF ghosts
<1>5. ASSUME append_intent_fails PROVE Sound'
  <2>1. /\ UNCHANGED <<ledger, intents, tickets, authorities, invoked, claims, doubled, reported>>
        /\ gate' = Idle /\ dropped' = dropped \cup ({gate.pending.predecessor} \ {0})
        /\ gate.pc = "append_intent"
    BY <1>5 DEF append_intent_fails
  <2>2. gate.pending.predecessor \in Digest \cup {0}
    BY <2>1, PendingContinues DEF EffectReceipt
  <2> QED
    BY <1>a, <1>b, <1>c, <2>1, <2>2, IdleType
<1>6. ASSUME NEW t \in Time, reauthorize_denied(t) PROVE Sound'
  <2> DEFINE at == ledger[gate.intent].observed_at
             u == IF t > at THEN t ELSE at
  <2>1. /\ gate.pc = "reauthorize" /\ UNCHANGED <<ledger, intents, authorities, ghosts>>
        /\ outcome(u, "AuthorizationDenied")
    BY <1>6 DEF reauthorize_denied
  <2>2. at \in Time
    BY <2>1, LedgerTypes DEF Sound, GateSound, Settling, IsIntent, EffectReceipt
  <2>3. u \in Time
    BY <2>2
  <2> HIDE DEF u
  <2>4. "AuthorizationDenied" \in EffectOutcome \ {"Recovered"}
    BY DEF EffectOutcome, Unchanged
  <2>5. /\ gate' \in GateType /\ GateSound' /\ tickets' \in Counts
        /\ \A d \in Digest : tickets'[d] > 0 => tickets[d] > 0 \/ IsIntent(d)
    BY <2>1, <2>3, <2>4, OutcomeSound
  <2> QED
    BY <1>a, <1>b, <2>1, <2>5 DEF ghosts
<1>7. ASSUME NEW t \in Time, admit(t) PROVE Sound'
  <2>1. /\ UNCHANGED <<ledger, intents, tickets, authorities, ghosts>>
        /\ gate' = [gate EXCEPT !.pc = "effect"] /\ gate.pc = "reauthorize"
    BY <1>7 DEF admit
  <2>2. gate' \in GateType /\ gate'.pc = "effect" /\ gate'.intent = gate.intent
    BY <1>a, <2>1 DEF GateType, PC
  <2>3. IsIntent(gate.intent)' /\ Children(gate.intent)' = {}
    BY <2>1, <2>2 DEF Sound, GateSound, Settling, IsIntent, Children
  <2>4. GateSound'
    BY <2>2, <2>3 DEF GateSound
  <2> QED
    BY <1>a, <1>b, <2>1, <2>2, <2>4 DEF ghosts
<1>8. ASSUME NEW admission \in {"Cancelled", "Backpressured"}, NEW t \in Time, NEW u \in Time,
             admission_refused(admission, t, u)
      PROVE  Sound'
  <2>1. /\ gate.pc = "reauthorize" /\ UNCHANGED <<ledger, intents, authorities, ghosts>>
        /\ outcome(u, admission) /\ admission \in EffectOutcome \ {"Recovered"}
    BY <1>8 DEF admission_refused, EffectOutcome, Unchanged
  <2>2. /\ gate' \in GateType /\ GateSound' /\ tickets' \in Counts
        /\ \A d \in Digest : tickets'[d] > 0 => tickets[d] > 0 \/ IsIntent(d)
    BY <2>1, OutcomeSound
  <2> QED
    BY <1>a, <1>b, <2>1, <2>2 DEF ghosts
<1>9. ASSUME NEW o \in {"Succeeded", "Failed", "Partial"}, NEW u \in Time, invoke(o, u)
      PROVE  Sound'
  <2>1. /\ gate.pc = "effect"
        /\ UNCHANGED <<ledger, intents, authorities, dropped, claims, doubled, reported>>
        /\ outcome(u, o) /\ o \in EffectOutcome \ {"Recovered"}
    BY <1>9 DEF invoke, EffectOutcome, Unchanged, Incomplete
  <2>2. /\ gate' \in GateType /\ GateSound' /\ tickets' \in Counts
        /\ \A d \in Digest : tickets'[d] > 0 => tickets[d] > 0 \/ IsIntent(d)
    BY <2>1, OutcomeSound
  <2>3. invoked' \in Counts
    <3>1. gate.intent \in Digest
      BY <1>a, <2>1 DEF Sound, GateSound, Settling, IsIntent
    <3> QED
      BY <1>9, <1>a, <3>1 DEF invoke, Counts
  <2> QED
    BY <1>a, <1>b, <2>1, <2>2, <2>3
<1>e. ASSUME NEW r \in EffectReceipt, Shape(r), Continues(r), append_to(r)
      PROVE  /\ authorities' \in Counts /\ Len(ledger) + 1 \in Digest
             /\ \A d \in Digest : authorities'[d] > 0 => authorities[d] > 0 \/ Requirement(d)'
  <2>1. PICK n : n = Len(ledger) + 1
    OBVIOUS
  <2>2. /\ n \in Digest /\ ledger' = Append(ledger, r) /\ authorities' \in Counts
        /\ authorities'[n] = IF outcome_needs_recovery(r) THEN 1 ELSE 0
        /\ \A d \in Digest : d # n => authorities'[d] = authorities[d]
    BY <1>e, <2>1, AppendTo
  <2>3. DOMAIN ledger' = DOMAIN ledger \cup {n} /\ ledger'[n] = r
    BY <1>e, <2>1, <2>2, Grow DEF Sound
  <2>4. outcome_needs_recovery(r) => Requirement(n)'
    BY <2>3 DEF Requirement, outcome_needs_recovery
  <2> QED
    BY <2>1, <2>2, <2>4
<1>10. ASSUME append_outcome PROVE Sound'
  <2>1. /\ gate.pc = "append_outcome" /\ append_to(gate.pending) /\ gate' = Idle
        /\ UNCHANGED <<intents, tickets, ghosts>>
    BY <1>10 DEF append_outcome
  <2>2. /\ authorities' \in Counts
        /\ \A d \in Digest : authorities'[d] > 0 => authorities[d] > 0 \/ Requirement(d)'
    BY <1>e, <2>1, PendingContinues
  <2> QED
    BY <1>a, <1>b, <1>c, <2>1, <2>2, IdleType DEF ghosts
<1>11. ASSUME append_outcome_fails PROVE Sound'
  <2>1. /\ UNCHANGED <<ledger, intents, authorities, ghosts>> /\ gate' = Idle
        /\ tickets' = Take(tickets, gate.intent) /\ gate.pc = "append_outcome"
    BY <1>11 DEF append_outcome_fails
  <2>2. IsIntent(gate.intent) /\ gate.intent \in Digest
    BY <1>a, <2>1 DEF Sound, GateSound, Settling, IsIntent
  <2>3. /\ tickets' \in Counts
        /\ \A d \in Digest : d # gate.intent => tickets'[d] = tickets[d]
    BY <1>a, <2>1, <2>2, TakeOne
  <2> QED
    BY <1>a, <1>b, <1>c, <2>1, <2>2, <2>3, IdleType DEF ghosts
<1>f. ASSUME NEW i \in Digest, IsIntent(i), NEW t \in Time, t >= ledger[i].observed_at,
             NEW o \in EffectOutcome, o = "Recovered" => ledger[i].relation = "RecoveryOf",
             append_to(outcome_from(i, t, o))
      PROVE  /\ authorities' \in Counts /\ Len(ledger) + 1 \in Digest
             /\ \A d \in Digest : authorities'[d] > 0 => authorities[d] > 0 \/ Requirement(d)'
  <2>1. /\ outcome_from(i, t, o) \in EffectReceipt /\ Shape(outcome_from(i, t, o))
        /\ outcome_from(i, t, o).predecessor = i
        /\ validate_child_of(outcome_from(i, t, o), ledger[i])
    BY <1>f, OutcomeValid DEF Sound
  <2>2. Continues(outcome_from(i, t, o))
    BY <1>a, <1>f, <2>1 DEF Continues, IsIntent
  <2> QED
    BY <1>e, <1>f, <2>1, <2>2
<1>12. ASSUME NEW i \in Digest, NEW t \in Time, recovery_required(i, t) PROVE Sound'
  <2>1. /\ append_to(outcome_from(i, t, "RecoveryRequired")) /\ gate.pc = "idle"
        /\ UNCHANGED <<gate, intents, ghosts>> /\ t >= ledger[i].observed_at
        /\ tickets[i] > 0 /\ tickets' = Consume(tickets, i)
    BY <1>12 DEF recovery_required
  <2>2. IsIntent(i) /\ "RecoveryRequired" \in EffectOutcome
    BY <2>1 DEF Sound, HandlesValid, EffectOutcome, Incomplete
  <2>3. tickets' \in Counts /\ \A d \in Digest : d # i => tickets'[d] = tickets[d]
    BY <1>a, <2>1, ConsumeOne
  <2>4. /\ authorities' \in Counts
        /\ \A d \in Digest : authorities'[d] > 0 => authorities[d] > 0 \/ Requirement(d)'
    BY <1>f, <2>1, <2>2
  <2> QED
    BY <1>a, <1>b, <1>c, <2>1, <2>2, <2>3, <2>4 DEF ghosts
<1>13. ASSUME NEW i \in Digest, NEW t \in Time, NEW o \in EffectOutcome,
              report_outcome(i, t, o)
       PROVE  Sound'
  <2>1. /\ append_to(outcome_from(i, t, o)) /\ gate.pc = "idle"
        /\ UNCHANGED <<gate, tickets, invoked, dropped, claims, doubled>>
        /\ t >= ledger[i].observed_at
        /\ o = "Recovered" => ledger[i].relation = "RecoveryOf"
        /\ intents[i] > 0 /\ intents' = Consume(intents, i)
        /\ reported' = reported \cup {Len(ledger) + 1}
    BY <1>13 DEF report_outcome
  <2>2. IsIntent(i)
    BY <2>1 DEF Sound, HandlesValid
  <2>3. intents' \in Counts /\ \A d \in Digest : d # i => intents'[d] = intents[d]
    BY <1>a, <2>1, ConsumeOne
  <2>4. /\ authorities' \in Counts /\ Len(ledger) + 1 \in Digest
        /\ \A d \in Digest : authorities'[d] > 0 => authorities[d] > 0 \/ Requirement(d)'
    BY <1>f, <2>1, <2>2
  <2> QED
    BY <1>a, <1>b, <1>c, <2>1, <2>2, <2>3, <2>4
<1>14. ASSUME NEW i \in Digest, into_recovery_ticket(i) PROVE Sound'
  <2>1. /\ UNCHANGED <<ledger, gate, authorities, ghosts>> /\ intents[i] > 0
        /\ intents' = Consume(intents, i) /\ tickets' = Take(tickets, i)
    BY <1>14 DEF into_recovery_ticket
  <2>2. IsIntent(i)
    BY <2>1 DEF Sound, HandlesValid
  <2>3. /\ intents' \in Counts /\ tickets' \in Counts
        /\ \A d \in Digest : d # i => intents'[d] = intents[d] /\ tickets'[d] = tickets[d]
    BY <1>a, <2>1, ConsumeOne, TakeOne
  <2> QED
    BY <1>a, <1>b, <1>d, <2>1, <2>2, <2>3 DEF ghosts
<1>15. ASSUME crash PROVE Sound'
  <2>1. /\ UNCHANGED <<ledger, invoked, claims, doubled, reported>> /\ gate' = Idle
        /\ dropped' = dropped \cup Held /\ Held \subseteq Digest
        /\ intents' = [d \in Digest |-> 0] /\ tickets' = [d \in Digest |-> 0]
        /\ authorities' = [d \in Digest |-> 0]
    BY <1>15 DEF crash, Held
  <2>2. /\ intents' \in Counts /\ tickets' \in Counts /\ authorities' \in Counts
        /\ \A d \in Digest : intents'[d] = 0 /\ tickets'[d] = 0 /\ authorities'[d] = 0
    BY <2>1 DEF Counts
  <2> QED
    BY <1>a, <1>b, <1>c, <2>1, <2>2, IdleType
<1>16. ASSUME NEW i \in Digest, claim_intent(i) PROVE Sound'
  <2>1. /\ UNCHANGED <<ledger, gate, tickets, authorities, invoked, reported>>
        /\ dropped' \subseteq dropped /\ claims' = claims + 1
        /\ doubled' \subseteq doubled \cup {i}
        /\ intents' = Take(intents, i) /\ IsIntent(i)
    BY <1>16 DEF claim_intent
  <2>2. intents' \in Counts /\ \A d \in Digest : d # i => intents'[d] = intents[d]
    BY <1>a, <2>1, TakeOne
  <2> QED
    BY <1>a, <1>b, <1>d, <2>1, <2>2
<1>17. ASSUME NEW i \in Digest, claim_recovery(i) PROVE Sound'
  <2>1. /\ UNCHANGED <<ledger, gate, intents, tickets, invoked, reported>>
        /\ dropped' \subseteq dropped /\ claims' = claims + 1
        /\ doubled' \subseteq doubled \cup {i}
        /\ authorities' = Take(authorities, i) /\ Requirement(i)
    BY <1>17 DEF claim_recovery, Requirement
  <2>2. authorities' \in Counts /\ \A d \in Digest : d # i => authorities'[d] = authorities[d]
    BY <1>a, <2>1, TakeOne
  <2> QED
    BY <1>a, <1>b, <1>d, <2>1, <2>2
<1>18. ASSUME UNCHANGED vars PROVE Sound'
  BY <1>a, <1>b, <1>d, <1>18 DEF vars
<1> QED
  BY <1>1, <1>2, <1>3, <1>4, <1>5, <1>6, <1>7, <1>8, <1>9, <1>10, <1>11, <1>12, <1>13,
     <1>14, <1>15, <1>16, <1>17, <1>18 DEF Next, Request, Gate

\* The invariant holds of an empty ledger without handles.
LEMMA SoundInit == Init => Sound
<1> SUFFICES ASSUME Init PROVE Sound
  OBVIOUS
<1>1. /\ ledger = << >> /\ gate = Idle /\ dropped = {} /\ doubled = {} /\ reported = {}
      /\ claims = 0
  BY DEF Init
<1>2. Len(ledger) = 0 /\ DOMAIN ledger = {} /\ ledger \in Seq(EffectReceipt)
  BY <1>1
<1>3. /\ intents \in Counts /\ tickets \in Counts /\ authorities \in Counts
      /\ invoked \in Counts
      /\ \A d \in Digest : intents[d] = 0 /\ tickets[d] = 0 /\ authorities[d] = 0
  BY DEF Init, Counts
<1>4. TypeOK
  BY <1>1, <1>2, <1>3, IdleType, TimeAssumption DEF TypeOK, GateType, Counts
<1>5. GateSound
  BY <1>1, IdleType DEF GateSound, Settling
<1>6. WellShaped /\ ChainValid
  BY <1>2 DEF WellShaped, ChainValid
<1>7. HandlesValid
  BY <1>3 DEF HandlesValid
<1> QED
  BY <1>4, <1>5, <1>6, <1>7 DEF Sound

\* Every variable of the gate keeps its type: whatever was refused, lost, reported or
\* claimed before, a receipt with a recovery relation names the effect to recover.
THEOREM TypeCorrect == Spec => []TypeOK
<1>1. Sound => TypeOK
  BY DEF Sound
<1> QED
  BY <1>1, SoundInit, SoundStep, PTL DEF Spec

\* execute_effect, the recovery calls and the application's own outcomes only append
\* receipts that validate_child_of accepts, for any number of effects, recoveries,
\* claims and clock readings.
THEOREM ReceiptsChain == Spec => []ChainValid
<1>1. Sound => ChainValid
  BY DEF Sound
<1> QED
  BY <1>1, SoundInit, SoundStep, PTL DEF Spec

-----------------------------------------------------------------------------
(* Handles are linear *)

\* What is not claimed twice has one handle at most, and no descendant while it has.
HandlesLinear ==
    \A d \in Digest \ doubled : Handles(d) <= 1 /\ (Handles(d) = 1 => Children(d) = {})

\* No step makes a second handle, or a second child, of a receipt outside doubled.
LEMMA LinearStep ==
    Sound /\ HandlesLinear /\ OneChild /\ [Next]_vars => HandlesLinear' /\ OneChild'
<1> SUFFICES ASSUME Sound, HandlesLinear, OneChild, [Next]_vars
             PROVE  HandlesLinear' /\ OneChild'
  OBVIOUS
<1>a. \A d \in Digest : Handles(d) \in Nat /\ Handles(d)' \in Nat /\ d # 0
  <2>1. TypeOK /\ TypeOK'
    BY SoundStep DEF Sound
  <2>2. \A d \in Digest : Handles(d) \in Nat
    BY <2>1, HandleTypes
  <2>3. \A d \in Digest : /\ intents'[d] \in Nat /\ tickets'[d] \in Nat
                          /\ authorities'[d] \in Nat
    BY <2>1 DEF TypeOK
  <2>4. ASSUME NEW d \in Digest PROVE Handles(d)' \in Nat
    BY <2>3 DEF Handles
  <2> QED
    BY <2>2, <2>4 DEF Digest
<1>1. CASE Steady
  <2>1. ledger' = ledger /\ doubled \subseteq doubled'
    BY <1>1 DEF Steady
  <2>2. OneChild'
    BY <2>1 DEF OneChild
  <2>3. ASSUME NEW d \in Digest \ doubled'
        PROVE  Handles(d)' <= 1 /\ (Handles(d)' = 1 => Children(d)' = {})
    <3>1. Children(d)' = Children(d)
      BY <2>1 DEF Children
    <3>2. Handles(d) <= 1 /\ (Handles(d) = 1 => Children(d) = {})
      BY <2>1 DEF HandlesLinear
    <3>3. Handles(d)' <= Handles(d) \/ (Handles(d)' = 1 /\ Children(d) = {})
      BY <1>1 DEF Steady
    <3> QED
      BY <1>a, <3>1, <3>2, <3>3
  <2> QED
    BY <2>2, <2>3 DEF HandlesLinear
<1>2. ASSUME NEW r \in EffectReceipt, NEW n \in Digest, Grown(r, n)
      PROVE  HandlesLinear' /\ OneChild'
  <2>1. /\ DOMAIN ledger' = DOMAIN ledger \cup {n} /\ n \notin DOMAIN ledger
        /\ ledger'[n] = r /\ (\A d \in DOMAIN ledger : ledger'[d] = ledger[d])
        /\ Children(n)' = {} /\ doubled' = doubled
        /\ \A d \in Digest : d # r.predecessor => Children(d)' = Children(d)
    BY <1>2, Grow DEF Grown, Sound
  <2>2. /\ \A d \in Digest : d # n =>
             Handles(d)' = IF d = r.predecessor THEN Handles(d) - 1 ELSE Handles(d)
        /\ Handles(n)' <= 1
    BY <1>2 DEF Grown
  <2>3. r.predecessor # 0 => r.predecessor \in Digest /\ r.predecessor # n
    BY <1>2, <2>1, LedgerTypes DEF Grown, Continues, Sound
  <2>4. ASSUME r.predecessor \notin doubled \cup {0}
        PROVE  Handles(r.predecessor)' = 0 /\ Children(r.predecessor) = {}
    <3>1. PICK p \in Digest \ doubled : p = r.predecessor /\ p # n
      BY <2>3, <2>4
    <3>2. Handles(p)' = Handles(p) - 1 /\ Handles(p) <= 1
      BY <2>2, <3>1 DEF HandlesLinear
    <3>3. Handles(p) = 1 /\ Handles(p)' = 0
      BY <1>a, <3>2
    <3> QED
      BY <3>1, <3>3 DEF HandlesLinear
  <2>5. OneChild'
    <3> SUFFICES ASSUME NEW b \in DOMAIN ledger', NEW c \in DOMAIN ledger',
                        ledger'[b].predecessor = ledger'[c].predecessor,
                        ledger'[b].predecessor \notin doubled \cup {0}
                 PROVE  b = c
      BY <2>1 DEF OneChild
    <3>1. ASSUME NEW d \in DOMAIN ledger, r.predecessor \notin doubled \cup {0}
          PROVE  ledger[d].predecessor # r.predecessor
      BY <2>4, <3>1 DEF Children
    <3> QED
      BY <2>1, <3>1 DEF OneChild
  <2>6. ASSUME NEW d \in Digest \ doubled
        PROVE  Handles(d)' <= 1 /\ (Handles(d)' = 1 => Children(d)' = {})
    <3>1. CASE d = n
      BY <2>1, <2>2, <3>1
    <3>2. CASE d = r.predecessor /\ d # n
      <4>1. Handles(d)' = 0
        BY <1>a, <2>4, <3>2
      <4> QED
        BY <4>1
    <3>3. CASE d # r.predecessor /\ d # n
      BY <2>1, <2>2, <3>3 DEF HandlesLinear
    <3> QED
      BY <3>1, <3>2, <3>3
  <2> QED
    BY <2>1, <2>5, <2>6 DEF HandlesLinear
<1> QED
  BY <1>1, <1>2, HandleStep

\* No intent ever has two outcomes and no requirement two recovery intents, over
\* failed appends, refused requests, process deaths and claims from the ledger, unless
\* it was claimed while held or, of a requirement, after it was matched.
THEOREM HandlesAreLinear == Spec => []OneChild
<1>1. Init => HandlesLinear /\ OneChild
  <2> SUFFICES ASSUME Init PROVE HandlesLinear /\ OneChild
    OBVIOUS
  <2>1. /\ gate.pc = "idle" /\ DOMAIN ledger = {}
        /\ \A d \in Digest : intents[d] = 0 /\ tickets[d] = 0 /\ authorities[d] = 0
    BY IdleType DEF Init
  <2>2. \A d \in Digest : Handles(d) = 0
    BY <2>1, IdleHoldsNothing DEF Handles
  <2> QED
    BY <2>1, <2>2 DEF HandlesLinear, OneChild
<1> QED
  BY <1>1, SoundInit, SoundStep, LinearStep, PTL DEF Spec

=============================================================================
