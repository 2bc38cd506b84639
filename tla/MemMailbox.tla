---------------------------- MODULE MemMailbox -----------------------------
(***************************************************************************)
(* mem.Mailbox and mem.DomainPolicy (mem/mailbox.go): the registry of      *)
(* addresses and domains.  An address is a user and a domain in one of two *)
(* spellings, as it was typed or in lower case; the registry is meant to   *)
(* hold lower case only.  No method clears MailboxEntry.Enabled, so an     *)
(* entry is just its key.                                                  *)
(***************************************************************************)

CONSTANTS Users, Domains

VARIABLES
    addresses,  \* the keys of m.addresses
    domains,    \* m.domains
    catchAll    \* m.catchAll

registry == <<addresses, domains, catchAll>>

Spellings == {"lower", "typed"}
Addresses == [user : Users, domain : Domains, spelling : Spellings]
DomainNames == [domain : Domains, spelling : Spellings]

\* strings.ToLower.
ToLower(x) == [x EXCEPT !.spelling = "lower"]

\* What follows the last "@".
DomainPart(a) == [domain |-> a.domain, spelling |-> a.spelling]

RegistryInit == addresses = {} /\ domains = {} /\ catchAll = FALSE

-----------------------------------------------------------------------------

\* Mutant: the address is kept as it was typed.
AddAsTyped(a) ==
    /\ addresses' = addresses \cup {a}
    /\ domains' = domains \cup {DomainPart(ToLower(a))}
    /\ UNCHANGED catchAll

AddAddress(a) ==
    /\ addresses' = addresses \cup {ToLower(a)}
    /\ domains' = domains \cup {DomainPart(ToLower(a))}
    /\ UNCHANGED catchAll

RemoveAddress(a) ==
    /\ addresses' = addresses \ {ToLower(a)}
    /\ UNCHANGED <<domains, catchAll>>

AddDomain(d) ==
    /\ domains' = domains \cup {ToLower(d)}
    /\ UNCHANGED <<addresses, catchAll>>

\* The addresses of the domain stay.
RemoveDomain(d) ==
    /\ domains' = domains \ {ToLower(d)}
    /\ UNCHANGED <<addresses, catchAll>>

SetCatchAll(enabled) ==
    /\ catchAll' = enabled
    /\ UNCHANGED <<addresses, domains>>

-----------------------------------------------------------------------------

\* The Status of ValidateRecipient is RecipientAccepted; every other answer is 550.
ValidateRecipient(a) ==
    ToLower(a) \in addresses \/ (catchAll /\ DomainPart(ToLower(a)) \in domains)

Exists(a) == ToLower(a) \in addresses

CanReceive(a) == ToLower(a) \in addresses

IsLocalDomain(d) == ToLower(d) \in domains

RelayAllowed(d, authenticated) == authenticated \/ IsLocalDomain(d)
=============================================================================
