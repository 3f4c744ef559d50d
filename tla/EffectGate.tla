----------------------------- MODULE EffectGate -----------------------------
(***************************************************************************)
(* The effect gate of akroasis (execute_effect) and the receipt protocol   *)
(* of tekmerion it follows: authorize, append an intent receipt, authorize *)
(* again, invoke the effect at most once, append its outcome.  Handles are *)
(* linear: a PersistedIntent becomes one outcome or one RecoveryTicket,    *)
(* and an unresolved outcome becomes one RecoveryAuthorization, which one  *)
(* further call consumes.  The process may die between any two steps.  The *)
(* application may claim a receipt from the ledger at any time, after such *)
(* a death or while its handle is still held, and do with a PersistedIntent*)
(* what the gate does.                                                     *)
(*                                                                         *)
(* The ledger is a trusted adapter: it accepts a receipt or fails, and of  *)
(* what it may refuse only the claim of an intent that has an outcome is   *)
(* relied on.  A call borrows it to its end, so that nothing else is       *)
(* appended meanwhile.                                                     *)
(*                                                                         *)
(* A digest is the receipt's position in the ledger.  Every clock.now() is *)
(* any time at all: the TrustedClock may go backwards.  The checks of      *)
(* authorize_caller that do not look at the clock give the same result     *)
(* both times in a call, so that only a request can fail them.  Of a       *)
(* receipt's context the effect alone is kept: an outcome copies the rest  *)
(* of it from its intent.                                                  *)
(***************************************************************************)
EXTENDS Integers, Sequences, FiniteSets

CONSTANTS
    Effect,           \* effect references (EffectRef)
    NoEffect,         \* the target of RecoveryRelation::None
    AuthenticatedAt,  \* of the caller's context
    ExpiresAt,        \* of the caller's context
    FreshUntil,       \* of the caller's context
    MaxTime,          \* bound: the latest time the clock shows
    MaxReceipts,      \* bound: receipts the ledger accepts
    MaxClaims,        \* bound: claims of receipts from the ledger
    MaxOperations     \* bound: intents in it that are not recoveries

ASSUME EffectAssumption == NoEffect \notin Effect

ASSUME TimeAssumption ==
    /\ AuthenticatedAt \in Nat
    /\ ExpiresAt \in Nat
    /\ FreshUntil \in Nat
    /\ MaxTime \in Nat
    /\ MaxReceipts \in Nat
    /\ MaxClaims \in Nat
    /\ MaxOperations \in Nat

VARIABLES
    ledger,       \* the receipts the EffectReceiptSink has accepted
    gate,         \* execute_effect: where the call is and what it holds
    intents,      \* how many PersistedIntents of each digest the application holds
    tickets,      \* the same for RecoveryTickets, by the digest of their intent
    authorities,  \* and for RecoveryAuthorizations, by requirement_digest
    invoked,      \* ghost: how often the effect of each intent was invoked
    dropped,      \* ghost: digests of which a call or a process lost a handle
    claims,       \* ghost: how many receipts were claimed from the ledger
    doubled,      \* ghost: digests claimed while held, or after they were matched
    reported      \* ghost: the outcomes the application recorded for an intent

vars == <<ledger, gate, intents, tickets, authorities, invoked, dropped, claims, doubled, reported>>

ghosts == <<invoked, dropped, claims, doubled, reported>>

Time == 0 .. MaxTime
Digest == 1 .. MaxReceipts

-----------------------------------------------------------------------------
(* Receipts *)

\* EffectOutcome, by what the code tells apart: what asks for recovery, what left
\* no change behind, and the two final ones.
Incomplete == {"Partial", "RecoveryRequired"}
Unchanged == {"Failed", "Cancelled", "Backpressured", "AuthorizationDenied"}
EffectOutcome == Incomplete \cup Unchanged \cup {"Succeeded", "Recovered"}

\* The predecessor of an ordinary intent is 0.  A RecoveryRelation is its name and
\* the effect it refers to.
EffectReceipt ==
    [effect : Effect, event : {"Intent"} \cup EffectOutcome, observed_at : Time,
     predecessor : Digest \cup {0}, relation : {"None", "RequiredFor", "RecoveryOf"},
     target : Effect \cup {NoEffect}]

IsIntent(d) == d \in DOMAIN ledger /\ ledger[d].event = "Intent"

Children(d) == {c \in DOMAIN ledger : ledger[c].predecessor = d}

\* EffectReceipt::intent for an ordinary descriptor, and for one made from a
\* RecoveryAuthorization.
intent(e, t) ==
    [effect |-> e, event |-> "Intent", observed_at |-> t, predecessor |-> 0,
     relation |-> "None", target |-> NoEffect]

recovery_intent(e, a, t) ==
    [effect |-> e, event |-> "Intent", observed_at |-> t,
     predecessor |-> a.requirement_digest,
     relation |-> "RecoveryOf", target |-> a.original_effect]

\* The outcome that is recorded: a successful recovery is Recovered.
Recorded(r, o) ==
    IF o = "Succeeded" /\ r.relation = "RecoveryOf" THEN "Recovered" ELSE o

\* Mutant: the outcome refers to the effect its intent recovers.
outcome_from_target(d, t, o) ==
    [effect |-> ledger[d].effect, event |-> Recorded(ledger[d], o), observed_at |-> t,
     predecessor |-> d,
     relation |-> IF o \in Incomplete THEN "RequiredFor" ELSE ledger[d].relation,
     target |-> IF o \in Incomplete /\ ledger[d].target = NoEffect
                  THEN ledger[d].effect ELSE ledger[d].target]

outcome_from(d, t, o) ==
    [effect |-> ledger[d].effect, event |-> Recorded(ledger[d], o), observed_at |-> t,
     predecessor |-> d,
     relation |-> IF o \in Incomplete THEN "RequiredFor" ELSE ledger[d].relation,
     target |-> IF o \in Incomplete THEN ledger[d].effect ELSE ledger[d].target]

\* What a ledger adapter checks of an outcome and its intent, ...
expected_outcome_relation(parent, event) ==
    CASE event \in Incomplete /\ parent.relation \in {"None", "RecoveryOf"} ->
            <<"RequiredFor", parent.effect>>
      [] event \in Unchanged \cup {"Succeeded"} /\ parent.relation = "None" ->
            <<"None", NoEffect>>
      [] event \in Unchanged \cup {"Recovered"} /\ parent.relation = "RecoveryOf" ->
            <<"RecoveryOf", parent.target>>
      [] OTHER -> <<"InvalidPredecessorTransition", NoEffect>>

\* ... of a recovery intent and the outcome it follows, ...
validate_recovery_intent_child(r, parent) ==
    /\ \/ parent.event \in Incomplete /\ parent.relation = "RequiredFor"
       \/ parent.event \in Unchanged /\ parent.relation = "RecoveryOf"
    /\ r.relation = "RecoveryOf"
    /\ r.target = parent.target

\* ... and of any receipt with a predecessor.
validate_child_of(r, parent) ==
    /\ r.observed_at >= parent.observed_at
    /\ IF r.event = "Intent"
         THEN parent.event # "Intent" /\ validate_recovery_intent_child(r, parent)
         ELSE /\ parent.event = "Intent"
              /\ r.effect = parent.effect
              /\ <<r.relation, r.target>> = expected_outcome_relation(parent, r.event)

\* Mutants: whatever was not completed needs recovery; a recovery attempt that
\* changed nothing does not.
outcome_needs_recovery_any(r) ==
    r.event \in Incomplete \cup Unchanged

outcome_needs_recovery_incomplete(r) ==
    r.event \in Incomplete /\ r.relation = "RequiredFor"

outcome_needs_recovery(r) ==
    \/ r.event \in Incomplete /\ r.relation = "RequiredFor"
    \/ r.event \in Unchanged /\ r.relation = "RecoveryOf"

\* Mutant: another attempt is made on the attempt that failed.
into_recovery_authorization_attempt(r, d) ==
    [original_effect |-> r.effect, requirement_digest |-> d,
     requirement_observed_at |-> r.observed_at]

into_recovery_authorization(r, d) ==
    [original_effect |-> r.target, requirement_digest |-> d,
     requirement_observed_at |-> r.observed_at]

-----------------------------------------------------------------------------
(* The gate *)

\* Between calls; the intent, or the outcome, is to be appended; the intent is
\* durable; the effect is admitted.
PC == {"idle", "append_intent", "reauthorize", "effect", "append_outcome"}

\* pending is the receipt to be appended, intent the digest of the durable intent.
NoReceipt == [intent(NoEffect, 0) EXCEPT !.event = "None"]

Idle == [pc |-> "idle", intent |-> 0, pending |-> NoReceipt]

\* The steps of a call that hold a durable intent.
Settling == {"reauthorize", "effect", "append_outcome"}

\* The call holds the intent d, or the authorization for the requirement d.
InCall(d) ==
    \/ gate.pc \in Settling /\ gate.intent = d
    \/ gate.pc = "append_intent" /\ gate.pending.predecessor = d

Handles(d) == intents[d] + tickets[d] + authorities[d] + (IF InCall(d) THEN 1 ELSE 0)

\* The digests that someone has a handle of.
Held == {d \in Digest : Handles(d) > 0}

Take(handles, d) == [handles EXCEPT ![d] = @ + 1]
Consume(handles, d) == [handles EXCEPT ![d] = @ - 1]

authorize_caller(t) ==
    /\ AuthenticatedAt <= t
    /\ t < ExpiresAt
    /\ t < FreshUntil

\* The first half of execute_effect for an ordinary request.  A caller that is
\* not authorized is told so: Denied, nothing has happened.
request(e, t) ==
    /\ gate.pc = "idle"
    /\ Cardinality(Children(0)) < MaxOperations
    /\ authorize_caller(t)
    /\ gate' = [pc |-> "append_intent", intent |-> 0, pending |-> intent(e, t)]
    /\ UNCHANGED <<ledger, intents, tickets, authorities, ghosts>>

\* The same for a recovery, whose authorization is consumed.
request_recovery(e, d, t) ==
    LET a == into_recovery_authorization(ledger[d], d)
    IN /\ gate.pc = "idle"
       /\ authorities[d] > 0
       /\ authorize_caller(t)
       /\ t >= a.requirement_observed_at
       /\ gate' = [pc |-> "append_intent", intent |-> 0, pending |-> recovery_intent(e, a, t)]
       /\ authorities' = Consume(authorities, d)
       /\ UNCHANGED <<ledger, intents, tickets, ghosts>>

\* Denied, for one of many reasons, or RecoveryIntentPrecedesRequirement: the
\* request, and the authorization in it, are gone.
request_refused(d) ==
    /\ gate.pc = "idle"
    /\ authorities[d] > 0
    /\ authorities' = Consume(authorities, d)
    /\ dropped' = dropped \cup {d}
    /\ UNCHANGED <<ledger, gate, intents, tickets, invoked, claims, doubled, reported>>

append_intent ==
    /\ gate.pc = "append_intent"
    /\ Len(ledger) < MaxReceipts
    /\ ledger' = Append(ledger, gate.pending)
    /\ gate' = [gate EXCEPT !.pc = "reauthorize", !.intent = Len(ledger) + 1,
                            !.pending = NoReceipt]
    /\ UNCHANGED <<intents, tickets, authorities, ghosts>>

\* IntentAudit: no effect ran, and the request is gone.
append_intent_fails ==
    /\ gate.pc = "append_intent"
    /\ gate' = Idle
    /\ dropped' = dropped \cup ({gate.pending.predecessor} \ {0})
    /\ UNCHANGED <<ledger, intents, tickets, authorities, invoked, claims, doubled, reported>>

\* PersistedIntent::outcome for the gate's intent: the outcome is ready to be
\* appended, or, observed before its intent, fails and leaves a ticket.
outcome(t, o) ==
    IF t < ledger[gate.intent].observed_at
      THEN /\ gate' = Idle
           /\ tickets' = Take(tickets, gate.intent)
      ELSE /\ gate' = [gate EXCEPT !.pc = "append_outcome",
                                   !.pending = outcome_from(gate.intent, t, o)]
           /\ UNCHANGED tickets

still_authorized(t) ==
    /\ t >= ledger[gate.intent].observed_at
    /\ authorize_caller(t)

\* The second clock reading: authority has lapsed or the clock went backwards.
\* The outcome is observed no earlier than the intent.
reauthorize_denied(t) ==
    /\ gate.pc = "reauthorize"
    /\ ~still_authorized(t)
    /\ LET at == ledger[gate.intent].observed_at
       IN outcome(IF t > at THEN t ELSE at, "AuthorizationDenied")
    /\ UNCHANGED <<ledger, intents, authorities, ghosts>>

\* The admission decision is Ready.
admit(t) ==
    /\ gate.pc = "reauthorize"
    /\ still_authorized(t)
    /\ gate' = [gate EXCEPT !.pc = "effect"]
    /\ UNCHANGED <<ledger, intents, tickets, authorities, ghosts>>

\* The admission decision is Cancelled or Backpressured; u is the third reading of
\* the clock.
admission_refused(admission, t, u) ==
    /\ gate.pc = "reauthorize"
    /\ still_authorized(t)
    /\ outcome(u, admission)
    /\ UNCHANGED <<ledger, intents, authorities, ghosts>>

\* effect(): an EffectExecution is one of three.
invoke(o, u) ==
    /\ gate.pc = "effect"
    /\ invoked' = [invoked EXCEPT ![gate.intent] = @ + 1]
    /\ outcome(u, o)
    /\ UNCHANGED <<ledger, intents, authorities, dropped, claims, doubled, reported>>

\* PendingOutcome::append_to, and an authorization for the caller when the outcome
\* needs recovery.
append_to(r) ==
    /\ Len(ledger) < MaxReceipts
    /\ ledger' = Append(ledger, r)
    /\ authorities' = IF outcome_needs_recovery(r)
                        THEN Take(authorities, Len(ledger) + 1) ELSE authorities

\* completion_from_persisted, and the end of a denied call.
append_outcome ==
    /\ gate.pc = "append_outcome"
    /\ append_to(gate.pending)
    /\ gate' = Idle
    /\ UNCHANGED <<intents, tickets, ghosts>>

\* Mutant: the call is taken up again where the effect is invoked.
append_outcome_fails_retry ==
    /\ gate.pc = "append_outcome"
    /\ gate' = [gate EXCEPT !.pc = "effect"]
    /\ UNCHANGED <<ledger, intents, tickets, authorities, ghosts>>

\* OutcomeAudit: the intent's ticket goes to the caller.
append_outcome_fails ==
    /\ gate.pc = "append_outcome"
    /\ gate' = Idle
    /\ tickets' = Take(tickets, gate.intent)
    /\ UNCHANGED <<ledger, intents, authorities, ghosts>>

-----------------------------------------------------------------------------
(* What the application does with its handles *)

\* RecoveryTicket::recovery_required and the append of its outcome.  A time before
\* the intent's and a failed append both give the ticket back.
recovery_required(d, t) ==
    /\ gate.pc = "idle"
    /\ tickets[d] > 0
    /\ t >= ledger[d].observed_at
    /\ append_to(outcome_from(d, t, "RecoveryRequired"))
    /\ tickets' = Consume(tickets, d)
    /\ UNCHANGED <<gate, intents, ghosts>>

\* PersistedIntent::outcome, for an intent the application has claimed, and the append:
\* any outcome, but Recovered only of a recovery.
report_outcome(d, t, o) ==
    /\ gate.pc = "idle"
    /\ intents[d] > 0
    /\ t >= ledger[d].observed_at
    /\ o = "Recovered" => ledger[d].relation = "RecoveryOf"
    /\ append_to(outcome_from(d, t, o))
    /\ intents' = Consume(intents, d)
    /\ reported' = reported \cup {Len(ledger) + 1}
    /\ UNCHANGED <<gate, tickets, invoked, dropped, claims, doubled>>

\* into_recovery_ticket, which is also what is left of a PersistedIntent when its
\* outcome is refused or cannot be appended.
into_recovery_ticket(d) ==
    /\ intents[d] > 0
    /\ intents' = Consume(intents, d)
    /\ tickets' = Take(tickets, d)
    /\ UNCHANGED <<ledger, gate, authorities, ghosts>>

\* The process dies, with every handle it holds.
crash ==
    /\ Held # {}
    /\ gate' = Idle
    /\ intents' = [d \in Digest |-> 0]
    /\ tickets' = [d \in Digest |-> 0]
    /\ authorities' = [d \in Digest |-> 0]
    /\ dropped' = dropped \cup Held
    /\ UNCHANGED <<ledger, invoked, claims, doubled, reported>>

\* Mutant: the ledger does not look whether the intent has an outcome.
claim_intent_matched(d) ==
    /\ IsIntent(d)
    /\ claims < MaxClaims
    /\ claims' = claims + 1
    /\ intents' = Take(intents, d)
    /\ dropped' = dropped \ {d}
    /\ doubled' = IF Handles(d) > 0 THEN doubled \cup {d} ELSE doubled
    /\ UNCHANGED <<ledger, gate, tickets, authorities, invoked, reported>>

\* from_verified_unmatched: the ledger vouches that the intent has no outcome, not
\* that nobody holds it.
claim_intent(d) ==
    /\ IsIntent(d)
    /\ Children(d) = {}
    /\ claims < MaxClaims
    /\ claims' = claims + 1
    /\ intents' = Take(intents, d)
    /\ dropped' = dropped \ {d}
    /\ doubled' = IF Handles(d) > 0 THEN doubled \cup {d} ELSE doubled
    /\ UNCHANGED <<ledger, gate, tickets, authorities, invoked, reported>>

\* from_verified and into_recovery_authorization: of any outcome that needs recovery,
\* held or not, recovered since or not.
claim_recovery(d) ==
    /\ d \in DOMAIN ledger
    /\ outcome_needs_recovery(ledger[d])
    /\ claims < MaxClaims
    /\ claims' = claims + 1
    /\ authorities' = Take(authorities, d)
    /\ dropped' = dropped \ {d}
    /\ doubled' = IF Handles(d) > 0 \/ Children(d) # {} THEN doubled \cup {d} ELSE doubled
    /\ UNCHANGED <<ledger, gate, intents, tickets, invoked, reported>>

-----------------------------------------------------------------------------
Init ==
    /\ ledger = << >>
    /\ gate = Idle
    /\ intents = [d \in Digest |-> 0]
    /\ tickets = [d \in Digest |-> 0]
    /\ authorities = [d \in Digest |-> 0]
    /\ invoked = [d \in Digest |-> 0]
    /\ dropped = {}
    /\ claims = 0
    /\ doubled = {}
    /\ reported = {}

Request ==
    \E e \in Effect, t \in Time :
        \/ request(e, t)
        \/ \E d \in Digest : request_recovery(e, d, t)

Gate ==
    \/ append_intent
    \/ append_intent_fails
    \/ \E t \in Time : reauthorize_denied(t) \/ admit(t)
    \/ \E admission \in {"Cancelled", "Backpressured"}, t, u \in Time :
          admission_refused(admission, t, u)
    \/ \E o \in {"Succeeded", "Failed", "Partial"}, u \in Time : invoke(o, u)
    \/ append_outcome
    \/ append_outcome_fails

Next ==
    \/ Request
    \/ \E d \in Digest : request_refused(d)
    \/ Gate
    \/ \E d \in Digest, t \in Time : recovery_required(d, t)
    \/ \E d \in Digest, t \in Time, o \in EffectOutcome : report_outcome(d, t, o)
    \/ \E d \in Digest : into_recovery_ticket(d)
    \/ crash
    \/ \E d \in Digest : claim_intent(d) \/ claim_recovery(d)

Spec == Init /\ [][Next]_vars

-----------------------------------------------------------------------------
(* Properties *)

\* Every variable has its type, and a recovery relation names an effect: only an
\* outcome with such a relation becomes an authorization.
TypeOK ==
    /\ ledger \in Seq(EffectReceipt)
    /\ Len(ledger) <= MaxReceipts
    /\ \A d \in DOMAIN ledger : ledger[d].relation # "None" => ledger[d].target \in Effect
    /\ gate \in [pc : PC, intent : Digest \cup {0},
                 pending : EffectReceipt \cup {NoReceipt}]
    /\ intents \in [Digest -> Nat]
    /\ tickets \in [Digest -> Nat]
    /\ authorities \in [Digest -> Nat]
    /\ invoked \in [Digest -> Nat]
    /\ dropped \subseteq Digest
    /\ claims \in Nat
    /\ doubled \subseteq Digest
    /\ reported \subseteq Digest

\* The gate never builds a receipt that a ledger must refuse: every receipt that
\* EffectReceipt::intent and outcome_from make passes validate_child_of for the
\* receipt it follows, whatever the clock shows and however often it is recovered.
ChainValid ==
    \A d \in DOMAIN ledger :
        LET p == ledger[d].predecessor
        IN IF p = 0
             THEN ledger[d].event = "Intent" /\ ledger[d].relation = "None"
             ELSE p < d /\ validate_child_of(ledger[d], ledger[p])

\* Handles are linear: an intent has at most one outcome and a requirement at most
\* one recovery intent, over failed appends, refused requests, deaths and claims, as
\* long as nobody claims what is held or, of a requirement, what was matched.
OneChild ==
    \A b, c \in DOMAIN ledger :
        /\ ledger[b].predecessor = ledger[c].predecessor
        /\ ledger[b].predecessor \notin doubled \cup {0}
        => b = c

\* The effect closure runs at most once for an intent, only once the intent is
\* durable, and never on denial, cancellation or backpressure, however often the
\* intent is claimed and recovered; an outcome of the gate that says what the effect
\* did is recorded only if it ran.
OutcomeMatchesEffect ==
    \A d \in Digest :
        /\ invoked[d] <= 1
        /\ invoked[d] = 1 => IsIntent(d)
        /\ \A c \in Children(d) \ reported :
             /\ ledger[c].event \in {"Cancelled", "Backpressured", "AuthorizationDenied"}
                    => invoked[d] = 0
             /\ ledger[c].event \in {"Succeeded", "Recovered", "Failed", "Partial"}
                    => invoked[d] = 1

\* A post-intent failure carries a recovery ticket, and an outcome that is neither
\* final nor without consequence an authorization: whatever is unsettled in the
\* ledger is in someone's hands, unless a refused request or a death dropped it.
NothingForgotten ==
    \A d \in DOMAIN ledger \ (Held \cup dropped) :
        \/ Children(d) # {}
        \/ ledger[d].event = "Recovered"
        \/ ledger[d].event # "Intent" /\ ledger[d].relation = "None"

\* Recovery is never invented: every receipt of a recovery, however many attempts
\* were made, names an effect for which an earlier outcome requires recovery.
RecoveryHasRequirement ==
    \A d \in DOMAIN ledger : ledger[d].relation = "RecoveryOf" =>
        \E c \in 1 .. d - 1 :
            /\ ledger[c].event \in Incomplete
            /\ ledger[c].effect = ledger[d].target

=============================================================================
