------------------------- MODULE EffectGateOutcomes -------------------------
(***************************************************************************)
(* What the receipts of EffectGate say of recoveries, of the effects that  *)
(* ran and of what is unsettled.                                           *)
(***************************************************************************)
EXTENDS EffectGateProofs

(* What the receipts say *)

\* A receipt of a recovery that a step appends names an effect that was left to be
\* recovered: that of its requirement.
LEMMA RecoveryStep ==
    Sound /\ RecoveryHasRequirement /\ [Next]_vars => RecoveryHasRequirement'
<1> SUFFICES ASSUME Sound, RecoveryHasRequirement, [Next]_vars
             PROVE  RecoveryHasRequirement'
  OBVIOUS
<1>1. CASE Steady
  BY <1>1 DEF Steady, RecoveryHasRequirement
<1>2. ASSUME NEW r \in EffectReceipt, Continues(r), ledger' = Append(ledger, r)
      PROVE  RecoveryHasRequirement'
  <2> DEFINE n == Len(ledger) + 1
             p == r.predecessor
  <2>1. /\ Len(ledger) \in Nat /\ DOMAIN ledger = 1 .. Len(ledger)
        /\ DOMAIN ledger' = 1 .. n /\ ledger'[n] = r
        /\ \A d \in DOMAIN ledger : ledger'[d] = ledger[d]
    BY <1>2, AppendReceipt DEF Sound, TypeOK
  <2>2. ASSUME r.relation = "RecoveryOf"
        PROVE  \E c \in 1 .. n - 1 :
                  ledger[c].event \in Incomplete /\ ledger[c].effect = r.target
    <3>1. p \in DOMAIN ledger /\ validate_child_of(r, ledger[p])
      BY <1>2, <2>2 DEF Continues
    <3>2. Shape(ledger[p])
      BY <3>1 DEF Sound, WellShaped
    <3>3. CASE ledger[p].event \in Incomplete /\ ledger[p].relation = "RequiredFor"
               /\ r.target = ledger[p].target
      BY <2>1, <3>1, <3>2, <3>3 DEF Shape
    <3>4. CASE ledger[p].relation = "RecoveryOf" /\ r.target = ledger[p].target
      <4>1. PICK c \in 1 .. p - 1 :
               ledger[c].event \in Incomplete /\ ledger[c].effect = ledger[p].target
        BY <3>1, <3>4 DEF RecoveryHasRequirement
      <4>2. c \in 1 .. n - 1
        BY <2>1, <3>1
      <4> QED
        BY <3>4, <4>1, <4>2
    <3>5. CASE r.event = "Intent"
      <4>1. validate_recovery_intent_child(r, ledger[p])
        BY <3>1, <3>5 DEF validate_child_of
      <4> QED
        BY <3>3, <3>4, <4>1 DEF validate_recovery_intent_child
    <3>6. CASE r.event # "Intent"
      <4>1. <<r.relation, r.target>> = expected_outcome_relation(ledger[p], r.event)
        BY <3>1, <3>6 DEF validate_child_of
      <4>2. ledger[p].relation = "RecoveryOf" /\ r.target = ledger[p].target
        BY <2>2, <4>1 DEF expected_outcome_relation
      <4> QED
        BY <3>4, <4>2
    <3> QED
      BY <3>5, <3>6
  <2>3. ASSUME NEW d \in DOMAIN ledger', ledger'[d].relation = "RecoveryOf"
        PROVE  \E c \in 1 .. d - 1 :
                  ledger'[c].event \in Incomplete /\ ledger'[c].effect = ledger'[d].target
    <3>1. CASE d = n
      <4>1. PICK c \in 1 .. n - 1 :
               ledger[c].event \in Incomplete /\ ledger[c].effect = r.target
        BY <2>1, <2>2, <2>3, <3>1
      <4> QED
        BY <2>1, <3>1, <4>1
    <3>2. CASE d \in DOMAIN ledger
      <4>1. PICK c \in 1 .. d - 1 :
               ledger[c].event \in Incomplete /\ ledger[c].effect = ledger[d].target
        BY <2>1, <2>3, <3>2 DEF RecoveryHasRequirement
      <4> QED
        BY <2>1, <3>2, <4>1
    <3> QED
      BY <2>1, <2>3, <3>1, <3>2
  <2> QED
    BY <2>3 DEF RecoveryHasRequirement
<1> QED
  BY <1>1, <1>2, HandleStep DEF Grown

\* A recovery is never invented: over any number of attempts, every receipt of a
\* recovery names an effect that an earlier outcome left to be recovered.
THEOREM RecoveryJustified == Spec => []RecoveryHasRequirement
<1>1. Init => RecoveryHasRequirement
  BY DEF Init, RecoveryHasRequirement
<1> QED
  BY <1>1, SoundInit, SoundStep, RecoveryStep, PTL DEF Spec

-----------------------------------------------------------------------------
(* What ran *)

\* What says that the effect of a call ran, and how often it was invoked.
NotRun == {"Cancelled", "Backpressured", "AuthorizationDenied"}
Ran == {"Succeeded", "Recovered", "Failed", "Partial"}

CallRan ==
    /\ gate.pc \in {"reauthorize", "effect"} => invoked[gate.intent] = 0
    /\ gate.pc = "append_outcome" =>
         /\ gate.pending.event \in NotRun => invoked[gate.intent] = 0
         /\ gate.pending.event \in Ran => invoked[gate.intent] = 1

\* A receipt that says what its effect did agrees with how often it was invoked.
Agrees(r) ==
    r.predecessor # 0 =>
        /\ r.event \in NotRun => invoked[r.predecessor] = 0
        /\ r.event \in Ran => invoked[r.predecessor] = 1

\* The receipt that is appended agrees, or is the application's.
LEMMA AppendAgrees ==
    ASSUME Sound, OutcomeMatchesEffect, NEW r \in EffectReceipt, ledger' = Append(ledger, r),
           invoked' = invoked, reported \subseteq reported',
           Agrees(r) \/ Len(ledger) + 1 \in reported'
    PROVE  OutcomeMatchesEffect'
<1>1. PICK n : n = Len(ledger) + 1
  OBVIOUS
<1>2. /\ DOMAIN ledger' = DOMAIN ledger \cup {n} /\ ledger'[n] = r
      /\ \A d \in DOMAIN ledger : ledger'[d] = ledger[d]
  BY <1>1, AppendReceipt DEF Sound, TypeOK
<1> SUFFICES ASSUME NEW d \in Digest
             PROVE  /\ invoked[d] <= 1
                    /\ invoked[d] = 1 => d \in DOMAIN ledger' /\ ledger'[d].event = "Intent"
                    /\ \A c \in DOMAIN ledger' \ reported' : ledger'[c].predecessor = d =>
                         /\ ledger'[c].event \in NotRun => invoked[d] = 0
                         /\ ledger'[c].event \in Ran => invoked[d] = 1
  BY DEF OutcomeMatchesEffect, IsIntent, Children, NotRun, Ran
<1>3. /\ invoked[d] <= 1
      /\ invoked[d] = 1 => d \in DOMAIN ledger' /\ ledger'[d].event = "Intent"
  BY <1>2 DEF OutcomeMatchesEffect, IsIntent
<1>4. ASSUME NEW c \in DOMAIN ledger \ reported, ledger[c].predecessor = d
      PROVE  /\ ledger[c].event \in NotRun => invoked[d] = 0
             /\ ledger[c].event \in Ran => invoked[d] = 1
  BY <1>4 DEF OutcomeMatchesEffect, Children, NotRun, Ran
<1>5. n \notin reported' /\ r.predecessor = d =>
        /\ r.event \in NotRun => invoked[d] = 0
        /\ r.event \in Ran => invoked[d] = 1
  BY <1>1 DEF Agrees, Digest
<1> QED
  BY <1>2, <1>3, <1>4, <1>5

\* The outcome a call is to append agrees with what the call did.
LEMMA OutcomeAgrees ==
    ASSUME Sound, gate.pc \in {"reauthorize", "effect"}, NEW t \in Time, NEW o, o # "Recovered",
           outcome(t, o), o \in NotRun => invoked'[gate.intent] = 0,
           o \in {"Succeeded", "Failed", "Partial"} => invoked'[gate.intent] = 1
    PROVE  CallRan'
<1>1. IsIntent(gate.intent) /\ ledger[gate.intent].observed_at \in Int /\ t \in Int
  <2>1. IsIntent(gate.intent)
    BY DEF Sound, GateSound, Settling
  <2>2. ledger[gate.intent] \in EffectReceipt
    BY <2>1, LedgerTypes DEF Sound, IsIntent
  <2> QED
    BY <2>1, <2>2 DEF EffectReceipt, Time
<1>2. CASE t < ledger[gate.intent].observed_at
  <2>1. gate'.pc = "idle"
    BY <1>2, IdleType DEF outcome
  <2> QED
    BY <2>1 DEF CallRan
<1>3. CASE ~(t < ledger[gate.intent].observed_at)
  <2> DEFINE r == outcome_from(gate.intent, t, o)
  <2>1. gate' = [gate EXCEPT !.pc = "append_outcome", !.pending = r]
    BY <1>3 DEF outcome
  <2>2. r.event = Recorded(ledger[gate.intent], o)
    BY DEF outcome_from
  <2>3. /\ r.event \in NotRun => o \in NotRun
        /\ r.event \in Ran => o \in {"Succeeded", "Failed", "Partial"}
    BY <2>2 DEF Recorded, NotRun, Ran
  <2> HIDE DEF r
  <2>4. gate'.pc = "append_outcome" /\ gate'.pending = r /\ gate'.intent = gate.intent
    BY <2>1 DEF Sound, TypeOK
  <2> QED
    BY <2>3, <2>4 DEF CallRan
<1> QED
  BY <1>2, <1>3

\* Every step invokes an effect at most once for an intent, and records what ran.
LEMMA RunStep ==
    Sound /\ OutcomeMatchesEffect /\ CallRan /\ [Next]_vars
        => OutcomeMatchesEffect' /\ CallRan'
<1> SUFFICES ASSUME Sound, OutcomeMatchesEffect, CallRan, [Next]_vars
             PROVE  OutcomeMatchesEffect' /\ CallRan'
  OBVIOUS
<1>a. ASSUME UNCHANGED <<ledger, invoked, reported>> PROVE OutcomeMatchesEffect'
  BY <1>a DEF OutcomeMatchesEffect, IsIntent, Children
<1>b. ASSUME gate'.pc \in {"idle", "append_intent"} PROVE CallRan'
  BY <1>b DEF CallRan
<1>c. gate.pc \in Settling =>
        /\ IsIntent(gate.intent) /\ Children(gate.intent) = {}
        /\ gate.intent \in DOMAIN ledger /\ gate.intent \in Digest
  BY LedgerTypes DEF Sound, GateSound, IsIntent
<1>1. ASSUME NEW e \in Effect, NEW t \in Time,
             request(e, t) \/ (\E d \in Digest : request_recovery(e, d, t))
      PROVE  OutcomeMatchesEffect' /\ CallRan'
  BY <1>a, <1>b, <1>1 DEF request, request_recovery, ghosts
<1>2. CASE \E d \in Digest : request_refused(d) \/ into_recovery_ticket(d)
  BY <1>a, <1>2 DEF request_refused, into_recovery_ticket, ghosts, CallRan
<1>3. CASE append_intent
  <2> DEFINE n == Len(ledger) + 1
  <2>1. /\ ledger' = Append(ledger, gate.pending) /\ UNCHANGED <<invoked, reported>>
        /\ gate' = [gate EXCEPT !.pc = "reauthorize", !.intent = n, !.pending = NoReceipt]
        /\ gate.pc = "append_intent" /\ Len(ledger) < MaxReceipts
    BY <1>3 DEF append_intent, ghosts
  <2>2. gate.pending \in EffectReceipt /\ gate.pending.event = "Intent"
    BY <2>1, PendingContinues DEF Sound, GateSound
  <2>3. Agrees(gate.pending)
    BY <2>2 DEF Agrees, NotRun, Ran
  <2>4. n \in Digest /\ n \notin DOMAIN ledger
    BY <2>1, NextDigest DEF Sound
  <2>5. invoked[n] = 0
    BY <2>4 DEF OutcomeMatchesEffect, IsIntent, Sound, TypeOK
  <2>6. gate'.pc = "reauthorize" /\ gate'.intent = n
    BY <2>1 DEF Sound, TypeOK
  <2> HIDE DEF n
  <2>7. CallRan'
    BY <2>1, <2>5, <2>6 DEF CallRan
  <2> QED
    BY <2>1, <2>2, <2>3, <2>7, AppendAgrees
<1>4. CASE append_intent_fails
  BY <1>a, <1>b, <1>4, IdleType DEF append_intent_fails, ghosts
<1>5. ASSUME NEW t \in Time, reauthorize_denied(t) PROVE OutcomeMatchesEffect' /\ CallRan'
  <2> DEFINE at == ledger[gate.intent].observed_at
             u == IF t > at THEN t ELSE at
  <2>1. /\ gate.pc = "reauthorize" /\ outcome(u, "AuthorizationDenied")
        /\ UNCHANGED <<ledger, invoked, reported>>
    BY <1>5 DEF reauthorize_denied, ghosts
  <2>2. at \in Time /\ u \in Time
    BY <1>c, <2>1, LedgerTypes DEF Sound, Settling, EffectReceipt
  <2> HIDE DEF u
  <2>3. invoked'[gate.intent] = 0
    BY <2>1 DEF CallRan
  <2>4. CallRan'
    BY <2>1, <2>2, <2>3, OutcomeAgrees
  <2> QED
    BY <1>a, <2>1, <2>4
<1>6. ASSUME NEW t \in Time, admit(t) PROVE OutcomeMatchesEffect' /\ CallRan'
  <2>1. gate'.pc = "effect" /\ gate'.intent = gate.intent
    BY <1>6 DEF admit, Sound, TypeOK
  <2> QED
    BY <1>a, <1>6, <2>1 DEF admit, ghosts, CallRan
<1>7. ASSUME NEW admission \in {"Cancelled", "Backpressured"}, NEW t \in Time,
             NEW u \in Time, admission_refused(admission, t, u)
      PROVE  OutcomeMatchesEffect' /\ CallRan'
  <2>1. /\ gate.pc = "reauthorize" /\ outcome(u, admission)
        /\ UNCHANGED <<ledger, invoked, reported>>
    BY <1>7 DEF admission_refused, ghosts
  <2>2. invoked'[gate.intent] = 0
    BY <2>1 DEF CallRan
  <2>3. CallRan'
    BY <2>1, <2>2, OutcomeAgrees
  <2> QED
    BY <1>a, <2>1, <2>3
<1>8. ASSUME NEW o \in {"Succeeded", "Failed", "Partial"}, NEW u \in Time, invoke(o, u)
      PROVE  OutcomeMatchesEffect' /\ CallRan'
  <2>1. /\ gate.pc = "effect" /\ outcome(u, o) /\ UNCHANGED <<ledger, reported>>
        /\ invoked' = [invoked EXCEPT ![gate.intent] = @ + 1]
    BY <1>8 DEF invoke
  <2>2. IsIntent(gate.intent) /\ Children(gate.intent) = {} /\ gate.intent \in Digest
    BY <1>c, <2>1 DEF Settling
  <2>3. invoked[gate.intent] = 0
    BY <2>1 DEF CallRan
  <2>4. /\ invoked'[gate.intent] = 1
        /\ \A d \in Digest : d # gate.intent => invoked'[d] = invoked[d]
    BY <2>1, <2>2, <2>3 DEF Sound, TypeOK
  <2>5. o # "Recovered" /\ o \notin NotRun
    BY DEF NotRun
  <2>6. CallRan'
    BY <2>1, <2>4, <2>5, OutcomeAgrees
  <2>7. OutcomeMatchesEffect'
    <3> SUFFICES ASSUME NEW d \in Digest
                 PROVE  /\ invoked'[d] <= 1
                        /\ invoked'[d] = 1 => IsIntent(d)
                        /\ \A c \in Children(d) \ reported :
                             /\ ledger[c].event \in NotRun => invoked'[d] = 0
                             /\ ledger[c].event \in Ran => invoked'[d] = 1
      BY <2>1 DEF OutcomeMatchesEffect, IsIntent, Children, NotRun, Ran
    <3>1. CASE d = gate.intent
      BY <2>2, <2>4, <3>1
    <3>2. CASE d # gate.intent
      BY <2>4, <3>2 DEF OutcomeMatchesEffect, NotRun, Ran
    <3> QED
      BY <3>1, <3>2
  <2> QED
    BY <2>6, <2>7
<1>9. CASE append_outcome
  <2>1. /\ ledger' = Append(ledger, gate.pending) /\ UNCHANGED <<invoked, reported>>
        /\ gate' = Idle /\ gate.pc = "append_outcome"
    BY <1>9 DEF append_outcome, append_to, ghosts
  <2>2. gate.pending \in EffectReceipt /\ gate.pending.predecessor = gate.intent
    BY <2>1, PendingContinues DEF Sound, GateSound
  <2>3. Agrees(gate.pending)
    BY <2>1, <2>2 DEF Agrees, CallRan
  <2> QED
    BY <1>b, <2>1, <2>2, <2>3, AppendAgrees, IdleType
<1>10. CASE append_outcome_fails \/ crash
  BY <1>a, <1>b, <1>10, IdleType DEF append_outcome_fails, crash, ghosts
<1>11. ASSUME NEW d \in Digest, NEW t \in Time, recovery_required(d, t)
       PROVE  OutcomeMatchesEffect' /\ CallRan'
  <2> DEFINE r == outcome_from(d, t, "RecoveryRequired")
  <2>1. /\ ledger' = Append(ledger, r) /\ t >= ledger[d].observed_at /\ tickets[d] > 0
        /\ UNCHANGED <<gate, invoked, reported>>
    BY <1>11 DEF recovery_required, append_to, ghosts
  <2>2. IsIntent(d) /\ "RecoveryRequired" \in EffectOutcome
    BY <2>1 DEF Sound, HandlesValid, EffectOutcome, Incomplete
  <2>3. r \in EffectReceipt /\ r.event = Recorded(ledger[d], "RecoveryRequired")
    BY <2>1, <2>2, OutcomeValid DEF Sound
  <2>4. r.event = "RecoveryRequired"
    BY <2>3 DEF Recorded
  <2> HIDE DEF r
  <2>5. Agrees(r)
    BY <2>4 DEF Agrees, NotRun, Ran
  <2> QED
    BY <2>1, <2>3, <2>5, AppendAgrees DEF CallRan
<1>12. ASSUME NEW d \in Digest, NEW t \in Time, NEW o \in EffectOutcome, report_outcome(d, t, o)
       PROVE  OutcomeMatchesEffect' /\ CallRan'
  <2> DEFINE r == outcome_from(d, t, o)
  <2>1. /\ ledger' = Append(ledger, r) /\ t >= ledger[d].observed_at /\ intents[d] > 0
        /\ o = "Recovered" => ledger[d].relation = "RecoveryOf"
        /\ UNCHANGED <<gate, invoked>> /\ reported' = reported \cup {Len(ledger) + 1}
    BY <1>12 DEF report_outcome, append_to
  <2>2. IsIntent(d)
    BY <2>1 DEF Sound, HandlesValid
  <2>3. r \in EffectReceipt
    BY <2>1, <2>2, OutcomeValid DEF Sound
  <2> HIDE DEF r
  <2> QED
    BY <2>1, <2>3, AppendAgrees DEF CallRan
<1>13. CASE \E d \in Digest : claim_intent(d) \/ claim_recovery(d)
  BY <1>a, <1>13 DEF claim_intent, claim_recovery, CallRan
<1>14. CASE UNCHANGED vars
  BY <1>a, <1>14 DEF vars, CallRan
<1> QED
  BY <1>1, <1>2, <1>3, <1>4, <1>5, <1>6, <1>7, <1>8, <1>9, <1>10, <1>11, <1>12, <1>13, <1>14
     DEF Next, Request, Gate

\* execute_effect invokes the effect of an intent at most once and never before the
\* intent is durable, however often the intent is claimed meanwhile, and the receipts
\* it leaves tell the truth about that.
THEOREM EffectsRunOnce == Spec => []OutcomeMatchesEffect
<1>1. Init => OutcomeMatchesEffect /\ CallRan
  <2> SUFFICES ASSUME Init PROVE OutcomeMatchesEffect /\ CallRan
    OBVIOUS
  <2>1. ledger = << >> /\ gate.pc = "idle" /\ \A d \in Digest : invoked[d] = 0
    BY IdleType DEF Init
  <2>2. \A d : Children(d) = {}
    BY <2>1 DEF Children
  <2> QED
    BY <2>1, <2>2 DEF OutcomeMatchesEffect, CallRan
<1> QED
  BY <1>1, SoundInit, SoundStep, RunStep, PTL DEF Spec

-----------------------------------------------------------------------------
(* What is unsettled *)

\* What a step leaves unsettled is held by someone afterwards, or dropped.
LEMMA CoveredStep == Sound /\ NothingForgotten /\ [Next]_vars => NothingForgotten'
<1> SUFFICES ASSUME Sound, NothingForgotten, [Next]_vars PROVE NothingForgotten'
  OBVIOUS
<1>a. \A d \in Digest : Handles(d) \in Nat
  BY HandleTypes DEF Sound
<1>b. DOMAIN ledger \subseteq Digest
  BY LedgerTypes DEF Sound
<1>1. CASE Steady
  <2>1. ledger' = ledger
    BY <1>1 DEF Steady
  <2>2. \A d \in Digest : d \in Held \cup dropped => d \in Held' \cup dropped'
    BY <1>1 DEF Steady, Held
  <2>3. \A d : Children(d)' = Children(d)
    BY <2>1 DEF Children
  <2> QED
    BY <1>b, <2>1, <2>2, <2>3 DEF NothingForgotten
<1>2. ASSUME NEW r \in EffectReceipt, NEW n \in Digest, Grown(r, n) PROVE NothingForgotten'
  <2>1. /\ DOMAIN ledger' = DOMAIN ledger \cup {n} /\ n \notin DOMAIN ledger
        /\ ledger'[n] = r /\ (\A d \in DOMAIN ledger : ledger'[d] = ledger[d])
        /\ \A d \in Digest : d # r.predecessor => Children(d)' = Children(d)
    BY <1>2, Grow DEF Grown, Sound
  <2>2. /\ \A d \in Digest : d # n =>
             Handles(d)' = IF d = r.predecessor THEN Handles(d) - 1 ELSE Handles(d)
        /\ Handles(n)' = IF r.event = "Intent" \/ outcome_needs_recovery(r) THEN 1 ELSE 0
        /\ dropped' = dropped /\ Shape(r)
    BY <1>2 DEF Grown
  <2> SUFFICES ASSUME NEW d \in DOMAIN ledger', d \notin Held' \cup dropped'
               PROVE  \/ Children(d)' # {}
                      \/ ledger'[d].event = "Recovered"
                      \/ ledger'[d].event # "Intent" /\ ledger'[d].relation = "None"
    BY DEF NothingForgotten
  <2>3. CASE d = n
    <3>1. r.event # "Intent" /\ ~outcome_needs_recovery(r)
      BY <2>2, <2>3 DEF Held
    <3>2. r.relation \in {"None", "RequiredFor", "RecoveryOf"}
      BY DEF EffectReceipt
    <3>3. r.event = "Recovered" \/ r.relation = "None"
      BY <2>2, <3>1, <3>2 DEF Shape, outcome_needs_recovery
    <3> QED
      BY <2>1, <2>3, <3>1, <3>3
  <2>4. CASE d = r.predecessor
    BY <2>1, <2>4 DEF Children
  <2>5. CASE d \in DOMAIN ledger /\ d # r.predecessor /\ d # n
    <3>1. d \in Digest /\ Handles(d)' = Handles(d)
      BY <1>b, <2>2, <2>5
    <3>2. d \notin Held \cup dropped
      BY <2>2, <3>1 DEF Held
    <3> QED
      BY <2>1, <2>5, <3>1, <3>2 DEF NothingForgotten
  <2> QED
    BY <2>1, <2>3, <2>4, <2>5
<1> QED
  BY <1>1, <1>2, HandleStep

\* Whatever the receipts leave unsettled, an intent without outcome or an outcome
\* that asks for recovery, is in a handle or was dropped with a request or a process.
THEOREM UnsettledIsHeld == Spec => []NothingForgotten
<1>1. Init => NothingForgotten
  BY DEF Init, NothingForgotten
<1> QED
  BY <1>1, SoundInit, SoundStep, CoveredStep, PTL DEF Spec

=============================================================================
