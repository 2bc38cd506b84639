---------------------------- MODULE TLSProvider ----------------------------
(***************************************************************************)
(* The certificate providers of tls_provider.go.  A ReloadableTLSProvider  *)
(* is driven as docs/tls.md shows: one goroutine calls Reload for each     *)
(* SIGHUP it finds in a channel of capacity one, while an operator renews  *)
(* the two files one after the other.  A certificate is the number of the  *)
(* renewal it came from; 0 stands for none.  A StaticTLSProvider is a       *)
(* reloadable one that is never signalled.                                 *)
(***************************************************************************)
EXTENDS Naturals

CONSTANTS
    Kinds,          \* the providers to consider: subset of {"none", "reloadable", "sni"}
    Names,          \* server names a client may ask for
    VersionBound    \* renewals, for TLC

ASSUME ProviderAssumption ==
    Kinds \subseteq {"none", "reloadable", "sni"} /\ VersionBound \in Nat \ {0}

VARIABLES
    kind,           \* config.TLSProvider
    certFile,       \* the files on disk
    keyFile,
    config,         \* p.config: the certificate and the key in it
    reload,         \* the call of Reload in progress: where it is, and what it read
    sighup,         \* a signal waits in the channel
    announced,      \* history: a signal came after the last renewal was complete
    certificates,   \* the names in p.certificates of the SNITLSProvider
    defaultCert     \* p.defaultCert is set

disk     == <<certFile, keyFile>>
sni      == <<certificates, defaultCert>>
provider == <<kind, disk, config, reload, sighup, announced, sni>>

Versions == 0..VersionBound
Idle == [pc |-> "idle", cert |-> 0, key |-> 0]

ProviderInit ==
    /\ kind \in Kinds
    /\ certFile = 1 /\ keyFile = 1
    /\ config = [cert |-> 1, key |-> 1]
    /\ reload = Idle /\ sighup = FALSE /\ announced = TRUE
    /\ certificates = {} /\ defaultCert = FALSE

\* The operator puts a renewed file in place, either one first.
Renew ==
    /\ kind = "reloadable"
    /\ \/ certFile <= keyFile /\ certFile < VersionBound
          /\ certFile' = certFile + 1 /\ UNCHANGED keyFile
       \/ keyFile <= certFile /\ keyFile < VersionBound
          /\ keyFile' = keyFile + 1 /\ UNCHANGED certFile
    /\ announced' = FALSE
    /\ UNCHANGED <<kind, config, reload, sighup, sni>>

\* Mutant: the channel has no buffer, and a signal that finds nobody waiting is lost.
SignalUnbuffered ==
    /\ kind = "reloadable"
    /\ sighup' = (reload.pc = "idle")
    /\ announced' = (certFile = keyFile)
    /\ UNCHANGED <<kind, disk, config, reload, sni>>

\* A signal that finds the channel full is dropped: one is waiting already.
Signal ==
    /\ kind = "reloadable"
    /\ sighup' = TRUE
    /\ announced' = (certFile = keyFile)
    /\ UNCHANGED <<kind, disk, config, reload, sni>>

\* Reload, first file.
ReloadCert ==
    /\ reload.pc = "idle" /\ sighup
    /\ sighup' = FALSE
    /\ reload' = [pc |-> "cert", cert |-> certFile, key |-> 0]
    /\ UNCHANGED <<kind, disk, config, announced, sni>>

\* tls.LoadX509KeyPair refuses a key that is not the certificate's.
PairLoads(cert, key) == cert = key

\* Mutant: a failed Reload does not return to its loop.
ReloadKeyPartly ==
    /\ reload.pc = "cert"
    /\ reload' = IF PairLoads(reload.cert, keyFile)
                 THEN [pc |-> "key", cert |-> reload.cert, key |-> keyFile]
                 ELSE [reload EXCEPT !.pc = "failed"]
    /\ UNCHANGED <<kind, disk, config, sighup, announced, sni>>

\* Second file: the pair does not fit and Reload fails, or it goes on.
ReloadKey ==
    /\ reload.pc = "cert"
    /\ reload' = IF PairLoads(reload.cert, keyFile)
                 THEN [pc |-> "key", cert |-> reload.cert, key |-> keyFile]
                 ELSE Idle
    /\ UNCHANGED <<kind, disk, config, sighup, announced, sni>>

\* p.config is replaced under the lock.
ReloadInstall ==
    /\ reload.pc = "key"
    /\ config' = [cert |-> reload.cert, key |-> reload.key]
    /\ reload' = Idle
    /\ UNCHANGED <<kind, disk, sighup, announced, sni>>

AddCertificate ==
    /\ kind = "sni"
    /\ \E n \in Names : certificates' = certificates \cup {n}
    /\ UNCHANGED <<kind, disk, config, reload, sighup, announced, defaultCert>>

SetDefaultCertificate ==
    /\ kind = "sni"
    /\ defaultCert' = TRUE
    /\ UNCHANGED <<kind, disk, config, reload, sighup, announced, certificates>>

\* Which certificate a client that asks for the name is shown.
GetCertificate(name) ==
    IF name \in certificates THEN "own" ELSE IF defaultCert THEN "default" ELSE "none"

ReloadStep == ReloadCert \/ ReloadKey \/ ReloadInstall

ProviderNext == Renew \/ Signal \/ ReloadStep \/ AddCertificate \/ SetDefaultCertificate

-----------------------------------------------------------------------------

ProviderTypeOK ==
    /\ kind \in Kinds
    /\ certFile \in Versions /\ keyFile \in Versions
    /\ config \in [cert : Versions, key : Versions]
    /\ reload \in [pc : {"idle", "cert", "key"}, cert : Versions, key : Versions]
    /\ sighup \in BOOLEAN /\ announced \in BOOLEAN
    /\ certificates \subseteq Names /\ defaultCert \in BOOLEAN

\* "Supports certificate reloading without restart" (docs/tls.md:67): once both files
\* are renewed and a signal was sent, the renewed pair is installed, though Reload may be
\* in the middle of an older one, may have failed on half a renewal, and the signal may
\* find another waiting.
RenewalInstalled == announced ~> config = [cert |-> certFile, key |-> keyFile] \/ ~announced
=============================================================================
