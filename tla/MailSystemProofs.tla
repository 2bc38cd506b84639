-------------------------- MODULE MailSystemProofs --------------------------
(***************************************************************************)
(* Any number of sessions share the mailbox and the storage safely: Inv of *)
(* MailSystem is preserved by every step, whatever sessions, users and     *)
(* domains there are.                                                      *)
(***************************************************************************)
EXTENDS MailSystem, TLAPS

-----------------------------------------------------------------------------
(* Addresses and the registry.                                             *)

\* Two addresses are one mailbox exactly when strings.ToLower makes them equal.
LEMMA Spelling ==
    ASSUME NEW a \in Addresses, NEW b \in Addresses
    PROVE  /\ ToLower(a) \in Addresses /\ Box(a) \in Boxes
           /\ ToLower(a) = ToLower(b) <=> Box(a) = Box(b)
           /\ DomainPart(ToLower(a)) = ToLower(DomainPart(a))
           /\ DomainPart(ToLower(a)) \in DomainNames
<1>1. ToLower(a) = [user |-> a.user, domain |-> a.domain, spelling |-> "lower"]
  BY DEF ToLower, Addresses
<1>2. ToLower(b) = [user |-> b.user, domain |-> b.domain, spelling |-> "lower"]
  BY DEF ToLower, Addresses
<1>3. ToLower(DomainPart(a)) = [domain |-> a.domain, spelling |-> "lower"]
  BY DEF ToLower, DomainPart
<1>4. DomainPart(ToLower(a)) = [domain |-> a.domain, spelling |-> "lower"]
  BY <1>1 DEF DomainPart
<1>5. ToLower(a) = ToLower(b) <=> Box(a) = Box(b)
  <2>1. ToLower(a) = ToLower(b) <=> a.user = b.user /\ a.domain = b.domain
    BY <1>1, <1>2
  <2> QED BY <2>1 DEF Box
<1> QED BY <1>1, <1>3, <1>4, <1>5 DEF Addresses, DomainNames, Spellings, Box, Boxes

LEMMA AcceptableBoxes ==
    /\ Acceptable \subseteq Boxes
    /\ \A a \in Addresses : ValidateRecipient(a) => Box(a) \in Acceptable
BY Spelling DEF Acceptable

\* While the registry stays, so does what is acceptable.
LEMMA AcceptableKept ==
    ASSUME UNCHANGED registry
    PROVE  Acceptable' = Acceptable /\ (RegistryInv /\ boxes' = boxes => RegistryInv')
<1>1. addresses' = addresses /\ domains' = domains /\ catchAll' = catchAll
  BY DEF registry
<1> QED BY <1>1, Zenon DEF Acceptable, ValidateRecipient, RegistryInv

-----------------------------------------------------------------------------
(* Each action preserves Inv.                                              *)

\* A change of the registry reaches the sessions only through their windows.
LEMMA ObserveStep ==
    ASSUME Inv, Observe, RegistryInv',
           addresses' \subseteq Addresses, domains' \subseteq DomainNames,
           catchAll' \in BOOLEAN, boxes' \subseteq Boxes
    PROVE  Inv'
<1>1. /\ window' = [s \in Sessions |-> window[s] \cup Acceptable'] /\ ops' = ops + 1
      /\ UNCHANGED <<phase, id, rcpts, result, messages, answered, acked, txns>>
  BY DEF Observe, envelope
<1>2. Acceptable' \subseteq Boxes
  BY Spelling DEF Acceptable
<1>3. window' \in [Sessions -> SUBSET Boxes]
  BY <1>1, <1>2 DEF Inv, TypeOK
<1>4. TypeOK'
  BY <1>1, <1>3 DEF Inv, TypeOK
<1>5. IdInv'
  BY <1>1 DEF Inv, IdInv, InTransaction
<1>6. EnvelopeInv'
  BY <1>1 DEF Inv, EnvelopeInv, InTransaction
<1>7. DeliveredWasAcceptable' /\ AcknowledgedDelivered'
  BY <1>1 DEF Inv, DeliveredWasAcceptable, AcknowledgedDelivered
<1> QED BY <1>4, <1>5, <1>6, <1>7 DEF Inv

LEMMA RegistryStep ==
    ASSUME Inv, Register \/ Unregister \/ ChangeDomain \/ SwitchCatchAll
    PROVE  Inv'
<1>1. /\ addresses \subseteq Addresses /\ domains \subseteq DomainNames
      /\ catchAll \in BOOLEAN /\ boxes \subseteq Boxes /\ RegistryInv
  BY DEF Inv, TypeOK
<1>2. CASE Register
  <2>1. PICK b \in Addresses : AddAddress(b) /\ boxes' = boxes \cup {Box(b)} /\ Observe
    BY <1>2 DEF Register
  <2>2. RegistryInv'
    BY <1>1, <2>1, Spelling DEF RegistryInv, AddAddress
  <2> QED BY <1>1, <2>1, <2>2, Spelling, ObserveStep DEF AddAddress
<1>3. CASE Unregister
  <2>1. PICK b \in Addresses : RemoveAddress(b) /\ boxes' = boxes \ {Box(b)} /\ Observe
    BY <1>3 DEF Unregister
  <2>2. RegistryInv'
    BY <1>1, <2>1, Spelling DEF RegistryInv, RemoveAddress
  <2> QED BY <1>1, <2>1, <2>2, ObserveStep DEF RemoveAddress
<1>4. CASE ChangeDomain
  <2>1. PICK d \in DomainNames : (AddDomain(d) \/ RemoveDomain(d)) /\ UNCHANGED boxes /\ Observe
    BY <1>4 DEF ChangeDomain
  <2>2. ToLower(d) \in DomainNames
    BY DEF ToLower, DomainNames, Spellings
  <2> QED BY <1>1, <2>1, <2>2, ObserveStep DEF AddDomain, RemoveDomain, RegistryInv
<1>5. CASE SwitchCatchAll
  <2>1. PICK b \in BOOLEAN : SetCatchAll(b) /\ UNCHANGED boxes /\ Observe
    BY <1>5 DEF SwitchCatchAll
  <2> QED BY <1>1, <2>1, ObserveStep DEF SetCatchAll, RegistryInv
<1> QED BY <1>2, <1>3, <1>4, <1>5

\* A new transaction has an identifier nobody has used.
LEMMA HandleMAILStep ==
    ASSUME Inv, NEW s \in Sessions, HandleMAIL(s)
    PROVE  Inv'
<1>1. /\ phase' = [phase EXCEPT ![s] = "mail"] /\ id' = [id EXCEPT ![s] = txns + 1]
      /\ rcpts' = [rcpts EXCEPT ![s] = <<>>] /\ window' = [window EXCEPT ![s] = Acceptable]
      /\ answered' = [answered EXCEPT ![s] = <<>>] /\ txns' = txns + 1
      /\ UNCHANGED <<registry, result, messages, boxes, acked, ops>>
  BY DEF HandleMAIL, generateEnvelopeID
<1>2. TypeOK'
  BY <1>1, AcceptableBoxes DEF Inv, TypeOK, registry
<1>3. IdInv'
  BY <1>1 DEF Inv, TypeOK, IdInv, InTransaction
<1>4. Acceptable' = Acceptable /\ RegistryInv'
  BY <1>1, AcceptableKept DEF Inv
<1>5. EnvelopeInv'
  BY <1>1, <1>4 DEF Inv, TypeOK, EnvelopeInv, InTransaction
<1>6. DeliveredWasAcceptable' /\ AcknowledgedDelivered'
  BY <1>1 DEF Inv, DeliveredWasAcceptable, AcknowledgedDelivered
<1> QED BY <1>2, <1>3, <1>4, <1>5, <1>6 DEF Inv

\* What the mailbox accepts now is in the window of the transaction.
LEMMA ValidateStep ==
    ASSUME Inv, NEW s \in Sessions, Validate(s)
    PROVE  Inv'
<1>1. /\ phase[s] = "mail" /\ phase' = [phase EXCEPT ![s] = "rcpt"]
      /\ UNCHANGED <<registry, id, rcpts, messages, boxes, window, answered, acked, ops, txns>>
  BY DEF Validate, envelope
<1>2. PICK a \in Addresses :
        result' = [result EXCEPT ![s] = [addr |-> a, accepted |-> ValidateRecipient(a)]]
  BY DEF Validate
<1>3. ValidateRecipient(a) \in BOOLEAN
  BY DEF ValidateRecipient, Inv, TypeOK
<1>4. TypeOK'
  BY <1>1, <1>2, <1>3 DEF Inv, TypeOK, registry
<1>5. IdInv'
  BY <1>1 DEF Inv, TypeOK, IdInv, InTransaction
<1>6. Acceptable' = Acceptable /\ RegistryInv'
  BY <1>1, AcceptableKept DEF Inv
<1>7. result'[s].addr = a /\ result'[s].accepted = ValidateRecipient(a)
  BY <1>2 DEF Inv, TypeOK
<1>8. ValidateRecipient(a) => Box(a) \in window[s]
  BY <1>1, AcceptableBoxes DEF Inv, EnvelopeInv, InTransaction
<1>9. EnvelopeInv'
  <2> SUFFICES ASSUME NEW t \in Sessions, InTransaction(t)'
               PROVE  /\ rcpts'[t] = answered'[t]
                      /\ \A k \in DOMAIN rcpts'[t] : Box(rcpts'[t][k]) \in window'[t]
                      /\ Acceptable' \subseteq window'[t]
                      /\ phase'[t] = "rcpt" =>
                           result'[t].addr \in Addresses
                           /\ (result'[t].accepted => Box(result'[t].addr) \in window'[t])
    BY DEF EnvelopeInv
  <2>1. InTransaction(t)
    BY <1>1 DEF InTransaction, Inv, TypeOK
  <2>2. CASE t = s
    BY <1>1, <1>6, <1>7, <1>8, <2>1, <2>2 DEF Inv, EnvelopeInv
  <2>3. CASE t # s
    <3>1. result'[t] = result[t] /\ phase'[t] = phase[t]
      BY <1>1, <1>2, <2>3 DEF Inv, TypeOK
    <3> QED BY <1>1, <1>6, <2>1, <3>1 DEF Inv, EnvelopeInv
  <2> QED BY <2>2, <2>3
<1>10. DeliveredWasAcceptable' /\ AcknowledgedDelivered'
  BY <1>1 DEF Inv, DeliveredWasAcceptable, AcknowledgedDelivered
<1> QED BY <1>4, <1>5, <1>6, <1>9, <1>10 DEF Inv

\* The recipient is entered and answered 250 together, or neither.
LEMMA AnswerRCPTStep ==
    ASSUME Inv, NEW s \in Sessions, AnswerRCPT(s)
    PROVE  Inv'
<1>1. /\ phase[s] = "rcpt" /\ phase' = [phase EXCEPT ![s] = "mail"]
      /\ result' = [result EXCEPT ![s] = NoResult]
      /\ UNCHANGED <<registry, id, messages, boxes, window, acked, ops, txns>>
  BY DEF AnswerRCPT
<1>2. /\ result[s].addr \in Addresses /\ rcpts[s] = answered[s]
      /\ result[s].accepted => Box(result[s].addr) \in window[s]
      /\ \A k \in DOMAIN rcpts[s] : Box(rcpts[s][k]) \in window[s]
      /\ Acceptable \subseteq window[s]
  BY <1>1 DEF Inv, EnvelopeInv, InTransaction
<1>3. \E q \in Seq(Addresses) :
        /\ rcpts' = [rcpts EXCEPT ![s] = q] /\ answered' = [answered EXCEPT ![s] = q]
        /\ \A k \in DOMAIN q : Box(q[k]) \in window[s]
  <2>1. rcpts[s] \in Seq(Addresses)
    BY DEF Inv, TypeOK
  <2>2. CASE result[s].accepted
    <3> DEFINE q == Append(rcpts[s], result[s].addr)
    <3>1. q \in Seq(Addresses)
      BY <1>2, <2>1
    <3>2. \A k \in DOMAIN q : Box(q[k]) \in window[s]
      BY <1>2, <2>1, <2>2
    <3>3. rcpts' = [rcpts EXCEPT ![s] = q] /\ answered' = [answered EXCEPT ![s] = q]
      BY <1>2, <2>2 DEF AnswerRCPT, AddRecipient
    <3> QED BY <3>1, <3>2, <3>3
  <2>3. CASE ~result[s].accepted
    <3>1. rcpts' = rcpts /\ answered' = answered
      BY <2>3 DEF AnswerRCPT, AddRecipient
    <3>2. rcpts' = [rcpts EXCEPT ![s] = rcpts[s]]
      BY <3>1 DEF Inv, TypeOK
    <3>3. answered' = [answered EXCEPT ![s] = rcpts[s]]
      BY <1>2, <3>1 DEF Inv, TypeOK
    <3> QED BY <1>2, <2>1, <3>2, <3>3
  <2> QED BY <2>2, <2>3
<1>4. PICK q \in Seq(Addresses) :
        /\ rcpts' = [rcpts EXCEPT ![s] = q] /\ answered' = [answered EXCEPT ![s] = q]
        /\ \A k \in DOMAIN q : Box(q[k]) \in window[s]
  BY <1>3
<1>5. TypeOK'
  BY <1>1, <1>4 DEF Inv, TypeOK, registry
<1>6. IdInv'
  BY <1>1 DEF Inv, TypeOK, IdInv, InTransaction
<1>7. Acceptable' = Acceptable /\ RegistryInv'
  BY <1>1, AcceptableKept DEF Inv
<1>8. EnvelopeInv'
  BY <1>1, <1>2, <1>4, <1>7 DEF Inv, TypeOK, EnvelopeInv, InTransaction
<1>9. DeliveredWasAcceptable' /\ AcknowledgedDelivered'
  BY <1>1 DEF Inv, DeliveredWasAcceptable, AcknowledgedDelivered
<1> QED BY <1>5, <1>6, <1>7, <1>8, <1>9 DEF Inv

LEMMA HandleDATAStep ==
    ASSUME Inv, NEW s \in Sessions, HandleDATA(s)
    PROVE  Inv'
<1>1. /\ phase[s] = "mail" /\ phase' = [phase EXCEPT ![s] = "data"]
      /\ UNCHANGED <<registry, id, rcpts, result, messages, boxes, window, answered, acked,
                     ops, txns>>
  BY DEF HandleDATA, envelope
<1>2. TypeOK'
  BY <1>1 DEF Inv, TypeOK, registry
<1>3. IdInv'
  BY <1>1 DEF Inv, TypeOK, IdInv, InTransaction
<1>4. Acceptable' = Acceptable /\ RegistryInv'
  BY <1>1, AcceptableKept DEF Inv
<1>5. EnvelopeInv'
  BY <1>1, <1>4 DEF Inv, TypeOK, EnvelopeInv, InTransaction
<1>6. DeliveredWasAcceptable' /\ AcknowledgedDelivered'
  BY <1>1 DEF Inv, DeliveredWasAcceptable, AcknowledgedDelivered
<1> QED BY <1>2, <1>3, <1>4, <1>5, <1>6 DEF Inv

\* The message is new to the storage, and holds what was answered.
LEMMA FinishMessageStep ==
    ASSUME Inv, NEW s \in Sessions, FinishMessage(s)
    PROVE  Inv'
<1> DEFINE m == [rcpts |-> rcpts[s], window |-> window[s]]
<1>1. /\ phase[s] = "data" /\ phase' = [phase EXCEPT ![s] = "ready"]
      /\ rcpts' = [rcpts EXCEPT ![s] = <<>>]
      /\ messages' = [i \in DOMAIN messages \cup {id[s]} |-> IF i = id[s] THEN m ELSE messages[i]]
      /\ acked' = acked \cup {[id |-> id[s], rcpts |-> answered[s]]}
      /\ UNCHANGED <<registry, id, result, boxes, window, answered, ops, txns>>
  BY DEF FinishMessage, DropEnvelope
<1>2. /\ id[s] \notin DOMAIN messages /\ id[s] \in Nat /\ rcpts[s] = answered[s]
      /\ \A k \in DOMAIN rcpts[s] : Box(rcpts[s][k]) \in window[s]
      /\ m \in [rcpts : Seq(Addresses), window : SUBSET Boxes]
  BY <1>1 DEF Inv, TypeOK, IdInv, EnvelopeInv, InTransaction
<1>3. /\ DOMAIN messages' = DOMAIN messages \cup {id[s]}
      /\ messages'[id[s]] = m /\ \A i \in DOMAIN messages : messages'[i] = messages[i]
  BY <1>1, <1>2
<1>4. TypeOK'
  <2>1. messages' \in [DOMAIN messages' -> [rcpts : Seq(Addresses), window : SUBSET Boxes]]
    BY <1>1, <1>2, <1>3 DEF Inv, TypeOK
  <2>2. acked' \subseteq [id : Nat, rcpts : Seq(Addresses)]
    BY <1>1, <1>2 DEF Inv, TypeOK
  <2> QED BY <1>1, <1>2, <1>3, <2>1, <2>2 DEF Inv, TypeOK, registry
<1>5. IdInv'
  BY <1>1, <1>3 DEF Inv, TypeOK, IdInv, InTransaction
<1>6. Acceptable' = Acceptable /\ RegistryInv'
  BY <1>1, AcceptableKept DEF Inv
<1>7. EnvelopeInv'
  BY <1>1, <1>6 DEF Inv, TypeOK, EnvelopeInv, InTransaction
<1>8. DeliveredWasAcceptable'
  BY <1>2, <1>3 DEF Inv, DeliveredWasAcceptable
<1>9. AcknowledgedDelivered'
  BY <1>1, <1>2, <1>3 DEF Inv, AcknowledgedDelivered
<1> QED BY <1>4, <1>5, <1>6, <1>7, <1>8, <1>9 DEF Inv

\* A transaction that ends without a message.
LEMMA DropStep ==
    ASSUME Inv, NEW s \in Sessions, DataFails(s) \/ GiveUp(s) \/ Disconnect(s)
    PROVE  Inv'
<1>1. PICK p \in {"ready", "wedged"} :
        /\ phase' = [phase EXCEPT ![s] = p] /\ rcpts' = [rcpts EXCEPT ![s] = <<>>]
        /\ UNCHANGED <<registry, id, result, messages, boxes, window, answered, acked, ops, txns>>
  BY DEF DataFails, GiveUp, Disconnect, DropEnvelope
<1>2. TypeOK'
  BY <1>1 DEF Inv, TypeOK, registry
<1>3. IdInv'
  BY <1>1 DEF Inv, TypeOK, IdInv, InTransaction
<1>4. Acceptable' = Acceptable /\ RegistryInv'
  BY <1>1, AcceptableKept DEF Inv
<1>5. EnvelopeInv'
  BY <1>1, <1>4 DEF Inv, TypeOK, EnvelopeInv, InTransaction
<1>6. DeliveredWasAcceptable' /\ AcknowledgedDelivered'
  BY <1>1 DEF Inv, DeliveredWasAcceptable, AcknowledgedDelivered
<1> QED BY <1>2, <1>3, <1>4, <1>5, <1>6 DEF Inv

-----------------------------------------------------------------------------
(* The theorems.                                                           *)

LEMMA InitInv == Init => Inv
<1> SUFFICES ASSUME Init PROVE Inv
  OBVIOUS
<1>1. TypeOK
  <2>1. messages \in [DOMAIN messages -> [rcpts : Seq(Addresses), window : SUBSET Boxes]]
        /\ DOMAIN messages = {}
    BY DEF Init
  <2>2. result \in [Sessions -> [addr : Addresses, accepted : BOOLEAN] \cup {NoResult}]
    BY DEF Init
  <2>3. rcpts \in [Sessions -> Seq(Addresses)] /\ answered \in [Sessions -> Seq(Addresses)]
    BY DEF Init
  <2>4. /\ phase \in [Sessions -> {"ready", "mail", "rcpt", "data", "wedged"}]
        /\ id \in [Sessions -> Nat] /\ window \in [Sessions -> SUBSET Boxes]
        /\ \A s \in Sessions : rcpts[s] = <<>>
    BY DEF Init
  <2>5. /\ addresses = {} /\ domains = {} /\ catchAll \in BOOLEAN
        /\ boxes = {} /\ acked = {} /\ ops = 0 /\ txns = 0
    BY DEF Init, RegistryInit
  <2> QED BY <2>1, <2>2, <2>3, <2>4, <2>5 DEF TypeOK
<1>2. IdInv /\ EnvelopeInv
  BY DEF Init, IdInv, EnvelopeInv, InTransaction
<1>3. RegistryInv /\ DeliveredWasAcceptable /\ AcknowledgedDelivered
  BY DEF Init, RegistryInit, RegistryInv, DeliveredWasAcceptable, AcknowledgedDelivered
<1> QED BY <1>1, <1>2, <1>3 DEF Inv

LEMMA NextInv ==
    ASSUME Inv, [Next]_vars
    PROVE  Inv'
<1>1. CASE Register \/ Unregister \/ ChangeDomain \/ SwitchCatchAll
  BY <1>1, RegistryStep
<1>2. CASE \E s \in Sessions : SessionStep(s)
  BY <1>2, HandleMAILStep, ValidateStep, AnswerRCPTStep, HandleDATAStep, FinishMessageStep,
     DropStep DEF SessionStep
<1>3. CASE UNCHANGED vars
  <2>1. UNCHANGED <<registry, phase, id, rcpts, result, messages, boxes, window, answered,
                    acked, ops, txns>>
    BY <1>3 DEF vars, envelope
  <2>2. Acceptable' = Acceptable /\ RegistryInv'
    BY <2>1, AcceptableKept DEF Inv
  <2>3. TypeOK' /\ IdInv'
    BY <2>1 DEF Inv, TypeOK, IdInv, InTransaction, registry
  <2>4. EnvelopeInv'
    BY <2>1, <2>2 DEF Inv, EnvelopeInv, InTransaction
  <2>5. DeliveredWasAcceptable' /\ AcknowledgedDelivered'
    BY <2>1 DEF Inv, DeliveredWasAcceptable, AcknowledgedDelivered
  <2> QED BY <2>2, <2>3, <2>4, <2>5 DEF Inv
<1> QED BY <1>1, <1>2, <1>3 DEF Next

\* Inv holds however many sessions interleave with the changes of the registry.
THEOREM SystemInvariant == Spec => []Inv
BY InitInv, NextInv, PTL DEF Spec

\* Every variable stays within its type, and no recipient outlives its transaction.
THEOREM SystemTypeCorrect == Spec => []TypeOK
<1>1. Inv => TypeOK
  BY DEF Inv
<1> QED BY <1>1, SystemInvariant, PTL

\* A message is delivered only to mailboxes that mem.Mailbox accepted during its own
\* transaction, although the registry is unlocked between RCPT and the end of DATA.
THEOREM DeliveryWasAcceptable == Spec => []DeliveredWasAcceptable
<1>1. Inv => DeliveredWasAcceptable
  BY DEF Inv
<1> QED BY <1>1, SystemInvariant, PTL

\* A message answered 250 stays in mem.Storage with exactly the recipients that were
\* answered 250, whatever other sessions store.
THEOREM AcknowledgedStays == Spec => []AcknowledgedDelivered
<1>1. Inv => AcknowledgedDelivered
  BY DEF Inv
<1> QED BY <1>1, SystemInvariant, PTL

\* A mailbox of a local domain that was added and not removed since accepts mail in every
\* spelling, and nothing but catch-all accepts any other.
THEOREM RegistrationKept == Spec => []RegistrationHolds
<1>1. Inv => RegistrationHolds
  <2> SUFFICES ASSUME Inv, NEW a \in Addresses
               PROVE  /\ IsLocalDomain(DomainPart(a)) =>
                           /\ ValidateRecipient(a) <=> Box(a) \in boxes \/ catchAll
                           /\ CanReceive(a) <=> Box(a) \in boxes
                      /\ ValidateRecipient(a) /\ ~RelayAllowed(DomainPart(a), FALSE) =>
                           Box(a) \in boxes
                      /\ Exists(a) <=> Box(a) \in boxes
    BY DEF RegistrationHolds
  <2>1. Box(a) \in boxes <=> ToLower(a) \in addresses
    BY DEF Inv, RegistryInv
  <2>2. ValidateRecipient(a) <=>
          Box(a) \in boxes \/ (catchAll /\ IsLocalDomain(DomainPart(a)))
    <3>1. DomainPart(ToLower(a)) = ToLower(DomainPart(a))
      BY Spelling
    <3> QED BY <2>1, <3>1 DEF ValidateRecipient, IsLocalDomain
  <2>3. (Exists(a) <=> Box(a) \in boxes) /\ (CanReceive(a) <=> Box(a) \in boxes)
    BY <2>1 DEF Exists, CanReceive
  <2> QED BY <2>2, <2>3 DEF RelayAllowed
<1> QED BY <1>1, SystemInvariant, PTL
=============================================================================
